------------------------- MODULE CronServiceProofs -------------------------
(***************************************************************************)
(* Proofs about CronService, for any jobs, schedules, services, limits and *)
(* bounds.                                                                 *)
(*                                                                         *)
(* That the timer is set is not inductive.  list() and the preflight of a  *)
(* manual run repair missing slots without arming the timer, so one has to *)
(* know that no repair ever finds a slot: an enabled job without one is a  *)
(* one-shot that has succeeded (Sound).  And a tick reloads the file, so   *)
(* the file has a job to wake for only if memory has one (Agree): that     *)
(* needs a single service, and without it only an idle service is armed.   *)
(*                                                                         *)
(* That a job runs once at a time rests on OneClaim: from the section that *)
(* marks a job to the one that applies its result exactly one of tick,     *)
(* start and manual run has it, and both copies of the store say so; only  *)
(* of a job that is disabled can there be several manual runs.             *)
(*                                                                         *)
(* That slots are run and settled one-shots stay settled follows from it   *)
(* and from Mirror: between sections memory and file differ in nothing     *)
(* that a section could bring back.                                        *)
(*                                                                         *)
(* The types hold with any number of services on one file (CronTypesHold). *)
(***************************************************************************)
EXTENDS CronService, FiniteSetTheorems, TLAPS

\* A one-shot that has succeeded: it has no next run.
Dead(j, st) == Kind[j] = "at" /\ st.status = "ok" /\ st.lastRun # 0 /\ When[j] <= st.lastRun

Sound(j, st) == st \in JobState /\ (st.enabled /\ st.next = 0 => Dead(j, st))

Good(store) == /\ DOMAIN store \subseteq Jobs
               /\ \A j \in DOMAIN store : Sound(j, store[j])

RunType == [result : Results, started : Nat, ended : Nat]

BatchOK(b) == /\ {"at", "todo", "active", "done"} \subseteq DOMAIN b
              /\ \A j \in DOMAIN b.active : b.active[j] \in Nat
              /\ \A j \in DOMAIN b.done : b.done[j] \in RunType

ManualOK(m) == /\ {"at", "s", "force", "run"} \subseteq DOMAIN m
               /\ m.at \in {"none", "queued", "ready", "run", "finish"}
               /\ m.at # "none" => /\ m.s \in Services /\ boot[m.s].at # "clear"
                                   /\ m.force \in BOOLEAN
               /\ m.at \in {"ready", "run"} => m.run \in Nat
               /\ m.at = "finish" => m.run \in RunType

\* The parts of the state that hold what was begun.
Shapes == /\ now \in Nat
          /\ DOMAIN memory = Services /\ DOMAIN boot = Services /\ DOMAIN tick = Services
          /\ DOMAIN manual = Manuals
          /\ \A s \in Services : BatchOK(boot[s]) /\ BatchOK(tick[s])

Stores == /\ Good(disk)
          /\ \A s \in Services : boot[s].at # "clear" => Good(memory[s])

\* Before its start() has read the file a service does nothing.
Asleep == \A s \in Services : boot[s].at = "clear" => s \notin timer /\ tick[s].at = "idle"

\* A started service that is between two ticks has its timer set if it has a job to wake for.
IdleIsArmed == \A s \in Services :
    boot[s].at = "up" /\ tick[s].at = "idle" /\ HasNextWake(memory[s]) => s \in timer

ManualsOK == \A c \in Manuals : ManualOK(manual[c])

IInv == Shapes /\ Stores /\ Asleep /\ ManualsOK /\ IdleIsArmed

-----------------------------------------------------------------------------
(* The functions of CronJobs. *)

LEMMA Quotient == ASSUME NEW a \in Nat, NEW p \in Nat \ {0} PROVE a \div p \in Nat
  OBVIOUS

LEMMA Multiple ==
    ASSUME NEW a \in Nat, NEW p \in Nat \ {0}
    PROVE  a * p \in Nat /\ (a + 1) * p \in Nat /\ (a + 1) * p # 0
  OBVIOUS

LEMMA RoundedIsNat == ASSUME NEW t \in Nat, NEW p \in Nat \ {0} PROVE Rounded(t, p) \in Nat
<1>1. t + p - 1 \in Nat
  OBVIOUS
<1>2. (t + p - 1) \div p \in Nat
  BY <1>1, Quotient
<1> QED
  BY <1>2, Multiple DEF Rounded

\* An enabled job has a next run, unless it is a one-shot that has succeeded.
LEMMA NextRun ==
    ASSUME NEW j \in Jobs, NEW st \in JobState, NEW t \in Nat
    PROVE  /\ ComputeNext(j, st, t) \in Nat
           /\ ComputeNext(j, st, t) = 0 <=> ~st.enabled \/ Dead(j, st)
<1> DEFINE w == When[j]
<1>1. w \in Nat \ {0} /\ Kind[j] \in {"at", "every", "cron"}
  BY CronJobsAssumption
<1>2. st.lastRun \in Nat /\ st.enabled \in BOOLEAN
  BY DEF JobState, Times
<1>3. Rounded(t, w) \in Nat
  BY <1>1, RoundedIsNat
<1>4. t \div w \in Nat
  BY <1>1, Quotient
<1>5. (t \div w + 1) * w \in Nat /\ (t \div w + 1) * w # 0
  BY <1>1, <1>4, Multiple
<1> HIDE DEF w
<1>6. CASE ~st.enabled
  BY <1>6 DEF ComputeNext
<1>7. CASE st.enabled /\ Kind[j] = "every"
  <2>1. ComputeNext(j, st, t) = IF st.lastRun # 0 /\ st.lastRun + w > t
                                THEN st.lastRun + w ELSE Later(w, Rounded(t, w))
    BY <1>7 DEF ComputeNext, w
  <2>2. ComputeNext(j, st, t) \in Nat /\ ComputeNext(j, st, t) # 0
    BY <2>1, <1>1, <1>2, <1>3 DEF Later
  <2> QED
    BY <2>2, <1>7 DEF Dead
<1>8. CASE st.enabled /\ Kind[j] = "at"
  <2>1. ComputeNext(j, st, t) = IF Dead(j, st) THEN 0 ELSE w
    BY <1>8 DEF ComputeNext, Dead, w
  <2> QED
    BY <2>1, <1>1, <1>8
<1>9. CASE st.enabled /\ Kind[j] = "cron"
  <2>1. ComputeNext(j, st, t) = (t \div w + 1) * w
    BY <1>9 DEF ComputeNext, w
  <2> QED
    BY <2>1, <1>5, <1>9 DEF Dead
<1> QED
  BY <1>1, <1>2, <1>6, <1>7, <1>8, <1>9

\* A computed slot makes a job sound.
LEMMA SlotComputed ==
    ASSUME NEW j \in Jobs, NEW st \in JobState, NEW t \in Nat
    PROVE  Sound(j, [st EXCEPT !.next = ComputeNext(j, st, t)])
<1> DEFINE n == ComputeNext(j, st, t)
           st1 == [st EXCEPT !.next = n]
<1>1. n \in Nat /\ (n = 0 <=> ~st.enabled \/ Dead(j, st))
  BY NextRun
<1> HIDE DEF n
<1>2. st1 \in JobState /\ st1.next = n /\ st1.enabled = st.enabled
      /\ st1.status = st.status /\ st1.lastRun = st.lastRun
  BY <1>1 DEF JobState, Times
<1>3. st1.enabled /\ st1.next = 0 => Dead(j, st1)
  BY <1>1, <1>2 DEF Dead
<1> QED
  BY <1>2, <1>3 DEF Sound, n

\* Normalizing keeps a job sound, and its slot if it is enabled.
LEMMA NormalizedIsSound ==
    ASSUME NEW j \in Jobs, NEW st, Sound(j, st)
    PROVE  /\ Sound(j, Normalized(st))
           /\ Normalized(st).enabled = st.enabled
           /\ st.enabled => Normalized(st).next = st.next
           /\ ~st.enabled => Normalized(st).next = 0
<1>1. st \in JobState
  BY DEF Sound
<1>2. /\ Normalized(st) \in JobState
      /\ Normalized(st).enabled = st.enabled /\ Normalized(st).status = st.status
      /\ Normalized(st).lastRun = st.lastRun
      /\ st.enabled => Normalized(st).next = st.next
      /\ ~st.enabled => Normalized(st).next = 0
  BY <1>1 DEF Normalized, JobState, Markers, Times
<1> QED
  BY <1>2 DEF Sound, Dead

LEMMA RecomputeIsGood ==
    ASSUME NEW store, Good(store), NEW t \in Nat
    PROVE  Good(Recompute(store, t))
<1>1. DOMAIN Recompute(store, t) = DOMAIN store
  BY DEF Recompute
<1>2. ASSUME NEW j \in DOMAIN store
      PROVE  Sound(j, Recompute(store, t)[j])
  <2> DEFINE st == Normalized(store[j])
  <2>1. j \in Jobs /\ Sound(j, st)
    BY NormalizedIsSound DEF Good
  <2>2. Sound(j, [st EXCEPT !.next = ComputeNext(j, st, t)])
    BY <2>1, SlotComputed DEF Sound
  <2>3. Recompute(store, t)[j] \in {st, [st EXCEPT !.next = ComputeNext(j, st, t)]}
    BY DEF Recompute
  <2> QED
    BY <2>1, <2>2, <2>3
<1> QED
  BY <1>1, <1>2 DEF Good

\* Maintenance keeps a store good; it never finds a job to wake for where there was none, and
\* without recomputeExpired it drops none.
LEMMA MaintainIsGood ==
    ASSUME NEW store, Good(store), NEW t \in Nat, NEW expired \in BOOLEAN
    PROVE  /\ Good(Maintain(store, t, expired))
           /\ HasNextWake(Maintain(store, t, expired)) => HasNextWake(store)
           /\ ~expired /\ HasNextWake(store) => HasNextWake(Maintain(store, t, expired))
<1> DEFINE M == Maintain(store, t, expired)
<1>1. DOMAIN M = DOMAIN store
  BY DEF Maintain
<1>2. ASSUME NEW j \in DOMAIN store
      PROVE  /\ Sound(j, M[j])
             /\ M[j].enabled /\ M[j].next # 0 => store[j].enabled /\ store[j].next # 0
             /\ ~expired /\ store[j].enabled /\ store[j].next # 0 => M[j].enabled /\ M[j].next # 0
  <2> DEFINE st == Normalized(store[j])
             n  == ComputeNext(j, st, t)
             st1 == [st EXCEPT !.next = n]
  <2>1. j \in Jobs /\ Sound(j, store[j]) /\ Sound(j, st) /\ st.enabled = store[j].enabled
        /\ (store[j].enabled => st.next = store[j].next)
    BY NormalizedIsSound DEF Good
  <2>2. st \in JobState
    BY <2>1 DEF Sound
  <2>3. Sound(j, st1)
    BY <2>1, <2>2, SlotComputed
  <2>4. n = 0 <=> ~st.enabled \/ Dead(j, st)
    BY <2>1, <2>2, NextRun
  <2> HIDE DEF n
  <2>5. st1.enabled = st.enabled /\ st1.next = n
    BY <2>2 DEF JobState
  <2>6. M[j] = IF st.next = 0 \/ (expired /\ t >= st.next /\ st.running = "none"
                                  /\ st.lastRun # 0 /\ st.lastRun >= st.next)
               THEN st1 ELSE st
    BY DEF Maintain, n
  <2> HIDE DEF M, st1, st
  <2>7. CASE st.next = 0
    <3>1. M[j] = st1
      BY <2>6, <2>7
    <3>2. st.enabled => n = 0
      BY <2>1, <2>4, <2>7 DEF Sound
    <3> QED
      BY <3>1, <3>2, <2>1, <2>3, <2>5, <2>7
  <2>8. CASE st.next # 0 /\ M[j] = st1 /\ expired
    BY <2>8, <2>1, <2>3, <2>5
  <2>9. CASE st.next # 0 /\ M[j] = st
    BY <2>9, <2>1
  <2> QED
    BY <2>6, <2>7, <2>8, <2>9
<1> HIDE DEF M
<1>3. Good(M)
  BY <1>1, <1>2 DEF Good
<1>4. HasNextWake(M) => HasNextWake(store)
  BY <1>1, <1>2 DEF HasNextWake
<1>5. ~expired /\ HasNextWake(store) => HasNextWake(M)
  BY <1>1, <1>2 DEF HasNextWake
<1> QED
  BY <1>3, <1>4, <1>5 DEF M

\* Markers say nothing of slots.
SameSlots(store, other) ==
    /\ DOMAIN other = DOMAIN store
    /\ \A j \in DOMAIN store : \E m \in Markers : other[j] = [store[j] EXCEPT !.running = m]

LEMMA SameSlotsIsGood ==
    ASSUME NEW store, NEW other, Good(store), SameSlots(store, other)
    PROVE  Good(other) /\ (HasNextWake(other) <=> HasNextWake(store))
<1>1. ASSUME NEW j \in DOMAIN store
      PROVE  /\ Sound(j, other[j])
             /\ other[j].enabled = store[j].enabled /\ other[j].next = store[j].next
  <2>1. PICK m \in Markers : other[j] = [store[j] EXCEPT !.running = m]
    BY DEF SameSlots
  <2>2. Sound(j, store[j])
    BY DEF Good
  <2>3. /\ other[j] \in JobState
        /\ other[j].enabled = store[j].enabled /\ other[j].next = store[j].next
        /\ other[j].status = store[j].status /\ other[j].lastRun = store[j].lastRun
    BY <2>1, <2>2 DEF Sound, JobState
  <2> QED
    BY <2>2, <2>3 DEF Sound, Dead
<1> QED
  BY <1>1 DEF Good, HasNextWake, SameSlots

LEMMA MarkedIsGood ==
    ASSUME NEW store, Good(store), NEW J
    PROVE  Good(Marked(store, J)) /\ (HasNextWake(Marked(store, J)) <=> HasNextWake(store))
<1>1. ASSUME NEW j \in DOMAIN store
      PROVE  \E m \in Markers : Marked(store, J)[j] = [store[j] EXCEPT !.running = m]
  <2>1. store[j] \in JobState
    BY DEF Good, Sound
  <2>2. store[j] = [store[j] EXCEPT !.running = store[j].running] /\ store[j].running \in Markers
    BY <2>1 DEF JobState
  <2> QED
    BY <2>2 DEF Marked, Markers
<1>2. DOMAIN Marked(store, J) = DOMAIN store
  BY DEF Marked
<1> QED
  BY <1>1, <1>2, SameSlotsIsGood DEF SameSlots

LEMMA AgedIsGood ==
    ASSUME NEW store, Good(store), NEW j
    PROVE  Good(Aged(store, j)) /\ (HasNextWake(Aged(store, j)) <=> HasNextWake(store))
<1>1. ASSUME NEW k \in DOMAIN store
      PROVE  \E m \in Markers : Aged(store, j)[k] = [store[k] EXCEPT !.running = m]
  <2>1. store[k] \in JobState
    BY DEF Good, Sound
  <2>2. store[k] = [store[k] EXCEPT !.running = store[k].running] /\ store[k].running \in Markers
    BY <2>1 DEF JobState
  <2> QED
    BY <2>2 DEF Aged, Markers
<1>2. DOMAIN Aged(store, j) = DOMAIN store
  BY DEF Aged
<1> QED
  BY <1>1, <1>2, SameSlotsIsGood DEF SameSlots

LEMMA BackoffIsSome == ASSUME NEW n \in Nat PROVE BackoffAfter(n) \in Nat /\ BackoffAfter(n) # 0
<1>1. Backoff \in Seq(Nat \ {0}) /\ Len(Backoff) \in Nat /\ Len(Backoff) # 0
  BY CronJobsAssumption
<1>2. \A i \in 1..Len(Backoff) : Backoff[i] \in Nat \ {0}
  BY <1>1
<1>3. (IF n = 0 THEN 1 ELSE IF n > Len(Backoff) THEN Len(Backoff) ELSE n) \in 1..Len(Backoff)
  BY <1>1
<1> QED
  BY <1>2, <1>3 DEF BackoffAfter

\* The result of a run leaves a one-shot disabled or with a retry.
LEMMA OneShotIsSound ==
    ASSUME NEW j \in Jobs, NEW st \in JobState, NEW result \in Results, NEW ended \in Nat
    PROVE  Sound(j, OneShotApplied(st, result, ended))
<1>1. CASE result = "transient" /\ st.errors <= MaxAttempts
  <2> DEFINE n == ended + BackoffAfter(st.errors)
  <2>1. st.errors \in Nat
    BY DEF JobState
  <2>2. n \in Nat /\ n # 0
    BY <2>1, BackoffIsSome
  <2>3. OneShotApplied(st, result, ended) = [st EXCEPT !.next = n]
    BY <1>1 DEF OneShotApplied
  <2> HIDE DEF n
  <2>4. [st EXCEPT !.next = n] \in JobState /\ [st EXCEPT !.next = n].next # 0
    BY <2>2 DEF JobState, Times
  <2> QED
    BY <2>3, <2>4 DEF Sound
<1>2. CASE ~(result = "transient" /\ st.errors <= MaxAttempts)
  <2>1. OneShotApplied(st, result, ended) = [st EXCEPT !.enabled = FALSE, !.next = 0]
    BY <1>2 DEF OneShotApplied
  <2>2. /\ [st EXCEPT !.enabled = FALSE, !.next = 0] \in JobState
        /\ [st EXCEPT !.enabled = FALSE, !.next = 0].enabled = FALSE
    BY DEF JobState, Times
  <2> QED
    BY <2>1, <2>2 DEF Sound
<1> QED
  BY <1>1, <1>2

\* It leaves an enabled recurring job a slot.
LEMMA RecurringIsSound ==
    ASSUME NEW j \in Jobs, Kind[j] # "at", NEW st \in JobState, NEW before \in Nat,
           NEW result \in Results, NEW ended \in Nat, NEW keep \in BOOLEAN
    PROVE  Sound(j, RecurringApplied(j, st, before, result, ended, keep))
<1> DEFINE from == IF keep /\ Kind[j] = "every" THEN [st EXCEPT !.lastRun = before] ELSE st
           n    == ComputeNext(j, from, ended)
           b    == ended + BackoffAfter(st.errors)
           m    == IF ~st.enabled THEN 0
                   ELSE IF result \in {"transient", "permanent"} THEN Later(n, b) ELSE n
<1>1. from \in JobState /\ from.enabled = st.enabled
  BY DEF JobState, Times
<1>2. n \in Nat /\ (st.enabled => n # 0)
  BY <1>1, NextRun DEF Dead
<1>3. b \in Nat
  BY BackoffIsSome DEF JobState
<1>4. RecurringApplied(j, st, before, result, ended, keep) = [st EXCEPT !.next = m]
  BY DEF RecurringApplied
<1> HIDE DEF n, b
<1>5. m \in Nat /\ (st.enabled => m # 0)
  BY <1>2, <1>3 DEF Later, JobState
<1> HIDE DEF m
<1>6. [st EXCEPT !.next = m] \in JobState /\ [st EXCEPT !.next = m].next = m
      /\ [st EXCEPT !.next = m].enabled = st.enabled
  BY <1>5 DEF JobState, Times
<1> QED
  BY <1>4, <1>5, <1>6 DEF Sound

LEMMA AppliedIsSound ==
    ASSUME NEW j \in Jobs, NEW st \in JobState, NEW run \in RunType, NEW keep \in BOOLEAN
    PROVE  Sound(j, Applied(j, st, run, keep))
<1> DEFINE failed == run.result \in {"transient", "permanent"}
           status == IF failed THEN "error" ELSE run.result
           errors == IF ~failed THEN 0 ELSE IF st.errors > MaxAttempts THEN st.errors ELSE st.errors + 1
           st1 == [st EXCEPT !.running = "none", !.lastRun = run.started, !.status = status,
                             !.errors = errors]
<1>1. run.result \in Results /\ run.started \in Nat /\ run.ended \in Nat
  BY DEF RunType
<1>2. status \in {"ok", "skipped", "error"} /\ errors \in Nat
  <2>1. run.result \in {"ok", "skipped", "transient", "permanent"}
    BY <1>1, CronJobsAssumption
  <2>2. st.errors \in Nat
    BY DEF JobState
  <2> QED
    BY <2>1, <2>2
<1>3. Applied(j, st, run, keep) =
        IF Kind[j] = "at" THEN OneShotApplied(st1, run.result, run.ended)
        ELSE RecurringApplied(j, st1, st.lastRun, run.result, run.ended, keep)
  BY DEF Applied
<1> HIDE DEF status, errors
<1>4. st1 \in JobState /\ st.lastRun \in Nat
  BY <1>1, <1>2 DEF JobState, Markers, Times
<1> HIDE DEF st1
<1> QED
  BY <1>1, <1>3, <1>4, OneShotIsSound, RecurringIsSound

LEMMA OutcomesAreGood ==
    ASSUME NEW store, Good(store), NEW runs, \A j \in DOMAIN runs : runs[j] \in RunType
    PROVE  Good(ApplyOutcomes(store, runs))
<1>1. DOMAIN ApplyOutcomes(store, runs) \subseteq DOMAIN store
  BY DEF ApplyOutcomes
<1>2. ASSUME NEW j \in DOMAIN ApplyOutcomes(store, runs)
      PROVE  Sound(j, ApplyOutcomes(store, runs)[j])
  <2>1. j \in Jobs /\ Sound(j, store[j]) /\ store[j] \in JobState
    BY <1>1 DEF Good, Sound
  <2>2. ApplyOutcomes(store, runs)[j] = IF j \in DOMAIN runs THEN Applied(j, store[j], runs[j], FALSE)
                                        ELSE store[j]
    BY DEF ApplyOutcomes
  <2> QED
    BY <2>1, <2>2, AppliedIsSound
<1> QED
  BY <1>1, <1>2 DEF Good

LEMMA NewJobIsSound == ASSUME NEW j \in Jobs, NEW t \in Nat PROVE Sound(j, NewJob(j, t))
<1> DEFINE st == [enabled |-> TRUE, next |-> 0, running |-> "none", lastRun |-> 0,
                  status |-> "none", errors |-> 0]
<1>1. st \in JobState
  BY DEF JobState, Markers, Times
<1>2. NewJob(j, t) = [st EXCEPT !.next = ComputeNext(j, st, t)]
  BY DEF NewJob
<1> HIDE DEF st
<1> QED
  BY <1>1, <1>2, SlotComputed

LEMMA PutIsGood ==
    ASSUME NEW store, Good(store), NEW j \in Jobs, NEW st, Sound(j, st)
    PROVE  Good(Put(store, j, st))
  BY DEF Good, Put

-----------------------------------------------------------------------------
(* Batches of runs. *)

LEMMA BeginIsOK ==
    ASSUME NEW b, BatchOK(b), NEW j, now \in Nat
    PROVE  BatchOK(Begin(b, j)) /\ Begin(b, j).at = b.at
<1>1. /\ DOMAIN Begin(b, j) = DOMAIN b /\ Begin(b, j).active = Put(b.active, j, now)
      /\ Begin(b, j).done = b.done /\ Begin(b, j).at = b.at
  BY DEF Begin, BatchOK
<1>2. \A k \in DOMAIN Put(b.active, j, now) : Put(b.active, j, now)[k] \in Nat
  BY DEF BatchOK, Put
<1> QED
  BY <1>1, <1>2 DEF BatchOK

LEMMA EndIsOK ==
    ASSUME NEW b, BatchOK(b), NEW j \in DOMAIN b.active, NEW res \in Results, now \in Nat
    PROVE  BatchOK(End(b, j, res)) /\ End(b, j, res).at = b.at
<1> DEFINE r == [result |-> res, started |-> b.active[j], ended |-> now]
           rest == [k \in DOMAIN b.active \ {j} |-> b.active[k]]
<1>1. r \in RunType
  BY DEF BatchOK, RunType
<1>2. /\ DOMAIN End(b, j, res) = DOMAIN b /\ End(b, j, res).active = rest
      /\ End(b, j, res).done = Put(b.done, j, r) /\ End(b, j, res).at = b.at
  BY DEF End, BatchOK
<1> HIDE DEF r
<1>3. \A k \in DOMAIN Put(b.done, j, r) : Put(b.done, j, r)[k] \in RunType
  BY <1>1 DEF BatchOK, Put
<1>4. \A k \in DOMAIN rest : rest[k] \in Nat
  BY DEF BatchOK
<1> QED
  BY <1>2, <1>3, <1>4 DEF BatchOK

LEMMA EmptyIsOK ==
    /\ BatchOK(Idle) /\ BatchOK(Off) /\ Idle.at = "idle"
    /\ \A a : BatchOK([Idle EXCEPT !.at = a]) /\ BatchOK([Off EXCEPT !.at = a])
  BY DEF BatchOK, Idle, Off, NoRuns

-----------------------------------------------------------------------------
(* What the sections have in common. *)

\* A section leaves a good store, in memory and in the file.
LEMMA PersistKeeps ==
    ASSUME Stores, DOMAIN memory = Services, NEW s \in Services, NEW store, Good(store),
           Persist(s, store), \A t \in Services \ {s} : boot'[t] = boot[t]
    PROVE  /\ Stores' /\ DOMAIN memory' = Services /\ disk' = store /\ memory'[s] = store
           /\ \A t \in Services \ {s} : memory'[t] = memory[t]
  BY DEF Persist, Stores, Good

LEMMA ManualsKept ==
    ASSUME ManualsOK, UNCHANGED manual,
           \A s \in Services : boot'[s].at = "clear" => boot[s].at = "clear"
    PROVE  ManualsOK'
  BY DEF ManualsOK, ManualOK

\* Calls and manual runs that end persist the store they leave, and arm the timer for it.
LEMMA PersistAndArm ==
    ASSUME IInv, NEW s \in Services, boot[s].at # "clear", NEW store, Good(store),
           Persist(s, store), ArmTimer(s, store), UNCHANGED <<now, boot, tick>>,
           DOMAIN manual' = Manuals
    PROVE  Shapes' /\ Stores' /\ Asleep' /\ IdleIsArmed'
<1> USE DEF IInv
<1>1. /\ Stores' /\ DOMAIN memory' = Services /\ memory'[s] = store
      /\ \A t \in Services \ {s} : memory'[t] = memory[t]
  BY PersistKeeps DEF Shapes
<1>2. \A t \in Services \ {s} : t \in timer' <=> t \in timer
  BY DEF ArmTimer
<1>3. HasNextWake(store) => s \in timer'
  BY DEF ArmTimer
<1>4. Asleep'
  BY <1>2 DEF Asleep
<1>5. IdleIsArmed'
  BY <1>1, <1>2, <1>3 DEF IdleIsArmed
<1>6. Shapes'
  BY <1>1 DEF Shapes, BatchOK
<1> QED
  BY <1>1, <1>4, <1>5, <1>6

-----------------------------------------------------------------------------
(* Every step keeps the invariant. *)

\* No service has read the file yet.
LEMMA InitIInv == CronInit => IInv
<1> SUFFICES ASSUME CronInit PROVE IInv
  OBVIOUS
<1> USE DEF CronInit
<1>1. Good(disk)
  <2>1. \A j \in Stored : Sound(j, disk[j])
    BY NewJobIsSound, CronServiceAssumption
  <2> QED
    BY <2>1, CronServiceAssumption DEF Good
<1>2. \A s \in Services : boot[s].at = "clear" /\ tick[s] = Idle /\ s \notin timer
  BY DEF Off
<1>3. Shapes
  BY <1>2, EmptyIsOK DEF Shapes
<1>4. ManualsOK
  BY DEF ManualsOK, ManualOK, NoRun
<1> QED
  BY <1>1, <1>2, <1>3, <1>4, EmptyIsOK DEF IInv, Stores, Asleep, IdleIsArmed

LEMMA StartClearStep ==
    ASSUME IInv, NEW s \in Services, StartClear(s)
    PROVE  IInv'
<1> USE DEF IInv
<1> DEFINE store == [j \in DOMAIN disk |-> [disk[j] EXCEPT !.running = "none"]]
<1>1. Good(store)
  <2>1. SameSlots(disk, store)
    BY DEF SameSlots, Markers
  <2> QED
    BY <2>1, SameSlotsIsGood DEF Stores
<1>2. Persist(s, store) /\ UNCHANGED <<now, timer, tick, manual>>
  BY DEF StartClear
<1>3. /\ DOMAIN boot' = Services /\ boot'[s].at = "plan" /\ BatchOK(boot'[s])
      /\ \A t \in Services \ {s} : boot'[t] = boot[t]
  <2>1. DOMAIN boot = Services /\ BatchOK(boot[s])
    BY DEF Shapes
  <2>2. boot' = [boot EXCEPT ![s] = [boot[s] EXCEPT !.at = "plan",
                     !.skip = {j \in DOMAIN disk : disk[j].running # "none"}]]
    BY DEF StartClear
  <2> QED
    BY <2>1, <2>2 DEF BatchOK
<1> HIDE DEF store
<1>4. Stores' /\ DOMAIN memory' = Services /\ \A t \in Services \ {s} : memory'[t] = memory[t]
  BY <1>1, <1>2, <1>3, PersistKeeps DEF Shapes
<1>5. Shapes'
  BY <1>2, <1>3, <1>4 DEF Shapes, BatchOK
<1>6. Asleep' /\ IdleIsArmed'
  BY <1>2, <1>3, <1>4 DEF Asleep, IdleIsArmed
<1>7. ManualsOK'
  BY <1>2, <1>3, ManualsKept
<1> QED
  BY <1>4, <1>5, <1>6, <1>7

\* A start that goes on: its place changes, nothing is armed before it is up.
LEMMA StartGoesOn ==
    ASSUME IInv, NEW s \in Services, boot[s].at # "clear", NEW b, BatchOK(b),
           b.at \notin {"clear", "up"}, boot' = [boot EXCEPT ![s] = b],
           UNCHANGED <<now, timer, tick, manual>>,
           Stores', DOMAIN memory' = Services, \A t \in Services \ {s} : memory'[t] = memory[t]
    PROVE  IInv'
<1> USE DEF IInv
<1>1. /\ DOMAIN boot' = Services /\ boot'[s] = b
      /\ \A t \in Services \ {s} : boot'[t] = boot[t]
  BY DEF Shapes
<1>2. Shapes'
  BY <1>1 DEF Shapes, BatchOK
<1>3. Asleep' /\ IdleIsArmed'
  BY <1>1 DEF Asleep, IdleIsArmed
<1>4. ManualsOK'
  BY <1>1, ManualsKept
<1> QED
  BY <1>2, <1>3, <1>4

LEMMA StartPlanStep ==
    ASSUME IInv, NEW s \in Services, StartPlan(s)
    PROVE  IInv'
<1> USE DEF IInv
<1>1. boot[s].at = "plan" /\ UNCHANGED <<now, timer, tick, manual>>
  BY DEF StartPlan
<1>a. PICK a \in {"arm", "run"} : \E todo, rest :
          boot' = [boot EXCEPT ![s] = [Off EXCEPT !.at = a, !.todo = todo, !.deferred = rest]]
  BY DEF StartPlan
<1>2. PICK todo, rest :
          boot' = [boot EXCEPT ![s] = [Off EXCEPT !.at = a, !.todo = todo, !.deferred = rest]]
  BY <1>a
<1> DEFINE b == [Off EXCEPT !.at = a, !.todo = todo, !.deferred = rest]
<1>3. BatchOK(b) /\ b.at \notin {"clear", "up"}
  BY DEF BatchOK, Off, NoRuns
<1> HIDE DEF b
<1>4. DOMAIN boot = Services /\ DOMAIN memory = Services
  BY DEF Shapes
<1>5. \A t \in Services \ {s} : boot'[t] = boot[t]
  BY <1>2, <1>4
<1>6. CASE UNCHANGED <<memory, disk>>
  <2>1. Stores'
    BY <1>1, <1>5, <1>6 DEF Stores, Good
  <2> QED
    BY <1>1, <1>2, <1>3, <1>4, <1>6, <2>1, StartGoesOn DEF b
<1>7. CASE \E J : Persist(s, Marked(memory[s], J))
  <2>1. PICK J : Persist(s, Marked(memory[s], J))
    BY <1>7
  <2>2. Good(Marked(memory[s], J))
    BY <1>1, MarkedIsGood DEF Stores
  <2>3. Stores' /\ DOMAIN memory' = Services /\ \A t \in Services \ {s} : memory'[t] = memory[t]
    BY <1>4, <1>5, <2>1, <2>2, PersistKeeps
  <2> QED
    BY <1>1, <1>2, <1>3, <2>3, StartGoesOn DEF b
<1>8. UNCHANGED <<memory, disk>> \/ \E J : Persist(s, Marked(memory[s], J))
  BY DEF StartPlan
<1> QED
  BY <1>6, <1>7, <1>8

LEMMA StartRunStep ==
    ASSUME IInv, NEW s \in Services, StartRun(s)
    PROVE  IInv'
<1> USE DEF IInv
<1> DEFINE b == Begin(boot[s], Head(boot[s].todo))
<1>1. boot[s].at = "run" /\ UNCHANGED <<now, disk, memory, timer, tick, manual>>
  BY DEF StartRun
<1>2. boot' = [boot EXCEPT ![s] = b]
  BY DEF StartRun
<1>3. BatchOK(b) /\ b.at = "run"
  BY <1>1, BeginIsOK DEF Shapes
<1> HIDE DEF b
<1>4. DOMAIN memory' = Services /\ \A t \in Services \ {s} : boot'[t] = boot[t]
  BY <1>1, <1>2 DEF Shapes
<1>5. Stores'
  BY <1>1, <1>4 DEF Stores, Good
<1> QED
  BY <1>1, <1>2, <1>3, <1>4, <1>5, StartGoesOn

LEMMA StartRunEndsStep ==
    ASSUME IInv, NEW s \in Services, NEW res \in Results, StartRunEnds(s, res)
    PROVE  IInv'
<1> USE DEF IInv
<1>1. PICK j \in DOMAIN boot[s].active : boot' = [boot EXCEPT ![s] = End(boot[s], j, res)]
  BY DEF StartRunEnds
<1> DEFINE b == End(boot[s], j, res)
<1>2. boot[s].at = "run" /\ UNCHANGED <<now, disk, memory, timer, tick, manual>>
  BY DEF StartRunEnds
<1>3. BatchOK(b) /\ b.at = "run"
  BY <1>2, EndIsOK DEF Shapes
<1> HIDE DEF b
<1>4. DOMAIN memory' = Services /\ \A t \in Services \ {s} : boot'[t] = boot[t]
  BY <1>1, <1>2 DEF Shapes
<1>5. Stores'
  BY <1>2, <1>4 DEF Stores, Good
<1> QED
  BY <1>1, <1>2, <1>3, <1>4, <1>5, StartGoesOn DEF b

\* The slots that the deferred jobs get are slots.
LEMMA StaggeredIsGood ==
    ASSUME NEW store, Good(store), NEW deferred, now \in Nat
    PROVE  Good([j \in DOMAIN store |->
               IF j \in Set(deferred)
               THEN [store[j] EXCEPT !.next = now + (CHOOSE i \in 1..Len(deferred) : deferred[i] = j)]
               ELSE store[j]])
<1> DEFINE later(j) == now + (CHOOSE i \in 1..Len(deferred) : deferred[i] = j)
<1>1. ASSUME NEW j \in DOMAIN store, j \in Set(deferred)
      PROVE  Sound(j, [store[j] EXCEPT !.next = later(j)])
  <2>1. \E i \in 1..Len(deferred) : deferred[i] = j
    BY <1>1 DEF Set
  <2>2. (CHOOSE i \in 1..Len(deferred) : deferred[i] = j) \in 1..Len(deferred)
    BY <2>1
  <2> DEFINE n == later(j)
  <2>3. n \in Nat /\ n # 0
    BY <2>2
  <2>4. store[j] \in JobState
    BY DEF Good, Sound
  <2> HIDE DEF n
  <2>5. [store[j] EXCEPT !.next = n] \in JobState /\ [store[j] EXCEPT !.next = n].next = n
    BY <2>3, <2>4 DEF JobState, Times
  <2> QED
    BY <2>3, <2>5 DEF Sound, n
<1> QED
  BY <1>1 DEF Good

\* The deferred jobs get later slots.
LEMMA StartOutcomesStep ==
    ASSUME IInv, NEW s \in Services, StartOutcomes(s)
    PROVE  IInv'
<1> USE DEF IInv
<1> DEFINE applied   == ApplyOutcomes(disk, boot[s].done)
           deferred  == SelectSeq(boot[s].deferred,
                                  LAMBDA j : j \in DOMAIN applied /\ applied[j].enabled)
           later(j)  == now + (CHOOSE i \in 1..Len(deferred) : deferred[i] = j)
           staggered == [j \in DOMAIN applied |->
               IF j \in Set(deferred) THEN [applied[j] EXCEPT !.next = later(j)] ELSE applied[j]]
<1>1. /\ boot[s].at = "run" /\ UNCHANGED <<now, timer, tick, manual>>
      /\ boot' = [boot EXCEPT ![s] = [Off EXCEPT !.at = "arm"]]
      /\ Persist(s, Maintain(staggered, now, FALSE))
  BY DEF StartOutcomes
<1>2. now \in Nat /\ DOMAIN memory = Services /\ DOMAIN boot = Services
  BY DEF Shapes
<1>3. Good(applied)
  BY OutcomesAreGood DEF Shapes, Stores, BatchOK
<1> HIDE DEF applied, deferred
<1>4. Good(staggered)
  BY <1>2, <1>3, StaggeredIsGood
<1> HIDE DEF staggered
<1>5. Good(Maintain(staggered, now, FALSE))
  BY <1>2, <1>4, MaintainIsGood
<1>6. /\ BatchOK([Off EXCEPT !.at = "arm"]) /\ [Off EXCEPT !.at = "arm"].at = "arm"
  BY EmptyIsOK DEF Off
<1>7. \A t \in Services \ {s} : boot'[t] = boot[t]
  BY <1>1, <1>2
<1>8. Stores' /\ DOMAIN memory' = Services /\ \A t \in Services \ {s} : memory'[t] = memory[t]
  BY <1>1, <1>2, <1>5, <1>7, PersistKeeps
<1> QED
  BY <1>1, <1>6, <1>8, StartGoesOn

\* The end of start() arms the timer for what it has just read.
LEMMA StartArmStep ==
    ASSUME IInv, NEW s \in Services, StartArm(s)
    PROVE  IInv'
<1> USE DEF IInv
<1> DEFINE store == Recompute(disk, now)
<1>1. /\ boot[s].at = "arm" /\ UNCHANGED <<now, tick, manual>>
      /\ boot' = [boot EXCEPT ![s].at = "up"]
      /\ Persist(s, store) /\ ArmTimer(s, store)
  BY DEF StartArm
<1>2. Good(store)
  BY RecomputeIsGood DEF Shapes, Stores
<1> HIDE DEF store
<1>3. DOMAIN memory = Services /\ DOMAIN boot = Services /\ BatchOK(boot[s])
  BY DEF Shapes
<1>4. /\ DOMAIN boot' = Services /\ boot'[s].at = "up" /\ BatchOK(boot'[s])
      /\ \A t \in Services \ {s} : boot'[t] = boot[t]
  BY <1>1, <1>3 DEF BatchOK
<1>5. /\ Stores' /\ DOMAIN memory' = Services /\ memory'[s] = store
      /\ \A t \in Services \ {s} : memory'[t] = memory[t]
  BY <1>1, <1>2, <1>3, <1>4, PersistKeeps
<1>6. \A t \in Services \ {s} : t \in timer' <=> t \in timer
  BY <1>1 DEF ArmTimer
<1>7. HasNextWake(store) => s \in timer'
  BY <1>1 DEF ArmTimer
<1>8. Shapes'
  BY <1>1, <1>4, <1>5 DEF Shapes, BatchOK
<1>9. Asleep' /\ IdleIsArmed'
  BY <1>1, <1>4, <1>5, <1>6, <1>7 DEF Asleep, IdleIsArmed
<1>10. ManualsOK'
  BY <1>1, <1>4, ManualsKept
<1> QED
  BY <1>5, <1>8, <1>9, <1>10

\* A tick that goes on: its place changes, and the store it leaves is good.
LEMMA TickGoesOn ==
    ASSUME IInv, NEW s \in Services, boot[s].at # "clear", NEW b, BatchOK(b), b.at # "idle",
           tick' = [tick EXCEPT ![s] = b], UNCHANGED <<now, timer, boot, manual>>,
           Stores', DOMAIN memory' = Services, \A t \in Services \ {s} : memory'[t] = memory[t]
    PROVE  IInv'
<1> USE DEF IInv
<1>1. /\ DOMAIN tick' = Services /\ tick'[s] = b
      /\ \A t \in Services \ {s} : tick'[t] = tick[t]
  BY DEF Shapes
<1>2. Shapes'
  BY <1>1 DEF Shapes, BatchOK
<1>3. Asleep' /\ IdleIsArmed'
  BY <1>1 DEF Asleep, IdleIsArmed
<1>4. ManualsOK'
  BY ManualsKept
<1> QED
  BY <1>2, <1>3, <1>4

LEMMA TimerFiresStep ==
    ASSUME IInv, NEW s \in Services, TimerFires(s)
    PROVE  IInv'
<1> USE DEF IInv
<1> DEFINE b == [tick[s] EXCEPT !.at = "collect"]
<1>1. s \in timer /\ UNCHANGED <<now, disk, memory, timer, boot, manual>>
      /\ tick' = [tick EXCEPT ![s] = b]
  BY DEF TimerFires
<1>2. boot[s].at # "clear"
  BY <1>1 DEF Asleep
<1>3. BatchOK(b) /\ b.at = "collect"
  BY DEF Shapes, BatchOK
<1> HIDE DEF b
<1>4. Stores' /\ DOMAIN memory' = Services
  BY <1>1 DEF Stores, Good, Shapes
<1> QED
  BY <1>1, <1>2, <1>3, <1>4, TickGoesOn

\* What is due is marked, or the file is repaired.
LEMMA CollectStep ==
    ASSUME IInv, NEW s \in Services, Collect(s)
    PROVE  IInv'
<1> USE DEF IInv
<1>1. tick[s].at = "collect" /\ UNCHANGED <<now, timer, boot, manual>>
  BY DEF Collect
<1>2. boot[s].at # "clear" /\ now \in Nat /\ DOMAIN memory = Services /\ DOMAIN tick = Services
  BY <1>1 DEF Asleep, Shapes
<1>a. PICK a \in {"end", "run"} : \E seq :
          tick' = [tick EXCEPT ![s] = [tick[s] EXCEPT !.at = a, !.todo = seq]]
  BY DEF Collect
<1>3. PICK seq :
          tick' = [tick EXCEPT ![s] = [tick[s] EXCEPT !.at = a, !.todo = seq]]
  BY <1>a
<1> DEFINE b == [tick[s] EXCEPT !.at = a, !.todo = seq]
<1>4. BatchOK(b) /\ b.at = a
  BY DEF Shapes, BatchOK
<1> HIDE DEF b
<1>5. PICK store : Persist(s, store) /\ Good(store)
  <2>1. Good(Maintain(disk, now, TRUE)) /\ \A J : Good(Marked(disk, J))
    BY <1>2, MaintainIsGood, MarkedIsGood DEF Stores
  <2> QED
    BY <2>1 DEF Collect
<1>6. Stores' /\ DOMAIN memory' = Services /\ \A t \in Services \ {s} : memory'[t] = memory[t]
  BY <1>1, <1>2, <1>5, PersistKeeps
<1> QED
  BY <1>1, <1>2, <1>3, <1>4, <1>6, TickGoesOn DEF b

\* The marker a worker stamps is in memory, or in an object memory has dropped.
LEMMA RunDueJobStep ==
    ASSUME IInv, NEW s \in Services, RunDueJob(s)
    PROVE  IInv'
<1> USE DEF IInv
<1> DEFINE b == Begin(tick[s], Head(tick[s].todo))
           J == {Head(tick[s].todo)}
<1>1. /\ tick[s].at = "run" /\ UNCHANGED <<now, disk, timer, boot, manual>>
      /\ tick' = [tick EXCEPT ![s] = b]
      /\ memory' \in {memory, [memory EXCEPT ![s] = Marked(memory[s], J)]}
  BY DEF RunDueJob
<1>2. boot[s].at # "clear" /\ DOMAIN memory = Services
  BY <1>1 DEF Asleep, Shapes
<1>3. BatchOK(b) /\ b.at = "run"
  BY <1>1, BeginIsOK DEF Shapes
<1> HIDE DEF b, J
<1>4. Good(Marked(memory[s], J))
  BY <1>2, MarkedIsGood DEF Stores
<1>5. DOMAIN memory' = Services /\ \A t \in Services \ {s} : memory'[t] = memory[t]
  BY <1>1, <1>2
<1>6. Good(memory'[s])
  BY <1>1, <1>2, <1>4 DEF Stores
<1>7. Stores'
  BY <1>1, <1>5, <1>6 DEF Stores, Good
<1> QED
  BY <1>1, <1>2, <1>3, <1>5, <1>7, TickGoesOn

LEMMA DueJobEndsStep ==
    ASSUME IInv, NEW s \in Services, NEW j, NEW res \in Results, DueJobEnds(s, j, res)
    PROVE  IInv'
<1> USE DEF IInv
<1> DEFINE b == End(tick[s], j, res)
<1>1. /\ tick[s].at = "run" /\ j \in DOMAIN tick[s].active
      /\ tick' = [tick EXCEPT ![s] = b] /\ UNCHANGED <<now, disk, memory, timer, boot, manual>>
  BY DEF DueJobEnds
<1>2. boot[s].at # "clear" /\ DOMAIN memory' = Services
  BY <1>1 DEF Asleep, Shapes
<1>3. BatchOK(b) /\ b.at = "run"
  BY <1>1, EndIsOK DEF Shapes
<1> HIDE DEF b
<1>4. Stores'
  BY <1>1 DEF Stores, Good
<1> QED
  BY <1>1, <1>2, <1>3, <1>4, TickGoesOn

LEMMA FinishStep ==
    ASSUME IInv, NEW s \in Services, Finish(s)
    PROVE  IInv'
<1> USE DEF IInv
<1> DEFINE applied == ApplyOutcomes(disk, tick[s].done)
           b       == [Idle EXCEPT !.at = "end"]
<1>1. /\ tick[s].at = "run" /\ UNCHANGED <<now, timer, boot, manual>>
      /\ tick' = [tick EXCEPT ![s] = b]
      /\ Persist(s, Maintain(applied, now, FALSE))
  BY DEF Finish
<1>2. boot[s].at # "clear" /\ now \in Nat /\ DOMAIN memory = Services
  BY <1>1 DEF Asleep, Shapes
<1>3. Good(applied)
  BY OutcomesAreGood DEF Shapes, Stores, BatchOK
<1> HIDE DEF applied
<1>4. Good(Maintain(applied, now, FALSE))
  BY <1>2, <1>3, MaintainIsGood
<1>5. BatchOK(b) /\ b.at = "end"
  BY EmptyIsOK DEF Idle
<1> HIDE DEF b
<1>6. Stores' /\ DOMAIN memory' = Services /\ \A t \in Services \ {s} : memory'[t] = memory[t]
  BY <1>1, <1>2, <1>4, PersistKeeps
<1> QED
  BY <1>1, <1>2, <1>5, <1>6, TickGoesOn

\* The finally block arms the timer for what memory then holds.
LEMMA TickEndsStep ==
    ASSUME IInv, NEW s \in Services, TickEnds(s)
    PROVE  IInv'
<1> USE DEF IInv
<1>1. /\ tick[s].at = "end" /\ tick' = [tick EXCEPT ![s] = Idle] /\ ArmTimer(s, memory[s])
      /\ UNCHANGED <<now, disk, memory, boot, manual>>
  BY DEF TickEnds
<1>2. boot[s].at # "clear"
  BY <1>1 DEF Asleep
<1>3. /\ DOMAIN tick' = Services /\ tick'[s] = Idle
      /\ \A t \in Services \ {s} : tick'[t] = tick[t]
  BY <1>1 DEF Shapes
<1>4. \A t \in Services \ {s} : t \in timer' <=> t \in timer
  BY <1>1 DEF ArmTimer
<1>5. HasNextWake(memory[s]) => s \in timer'
  BY <1>1 DEF ArmTimer
<1>6. Shapes'
  BY <1>1, <1>3, EmptyIsOK DEF Shapes, BatchOK
<1>7. Asleep'
  BY <1>1, <1>2, <1>3, <1>4 DEF Asleep
<1>8. IdleIsArmed'
  BY <1>1, <1>3, <1>4, <1>5 DEF IdleIsArmed
<1>9. Stores' /\ ManualsOK'
  BY <1>1, ManualsKept DEF Stores, Good
<1> QED
  BY <1>6, <1>7, <1>8, <1>9

\* A section that arms nothing and finds no job to wake for where there was none.
LEMMA NothingToArm ==
    ASSUME IInv, UNCHANGED <<now, timer, boot, tick>>, Stores',
           DOMAIN memory' = Services, DOMAIN manual' = Manuals,
           \A s \in Services : boot[s].at # "clear" /\ HasNextWake(memory'[s])
                                   => HasNextWake(memory[s])
    PROVE  Shapes' /\ Stores' /\ Asleep' /\ IdleIsArmed'
  BY DEF IInv, Shapes, BatchOK, Asleep, IdleIsArmed


LEMMA AddStep ==
    ASSUME IInv, NEW s \in Services, Callable(s), NEW j \in Jobs, Add(s, j)
    PROVE  IInv'
<1> DEFINE st == NewJob(j, now)
           store == Recompute(Put(memory[s], j, st), now)
<1>1. now \in Nat /\ Good(memory[s]) /\ boot[s].at # "clear" /\ DOMAIN manual = Manuals
  BY DEF IInv, Shapes, Stores, Callable
<1>2. Sound(j, st)
  BY <1>1, NewJobIsSound
<1> HIDE DEF st
<1>3. Good(store)
  BY <1>1, <1>2, PutIsGood, RecomputeIsGood
<1>4. Persist(s, store) /\ ArmTimer(s, store) /\ UNCHANGED <<now, boot, tick, manual>>
  BY DEF Add, st
<1> HIDE DEF store
<1>5. ManualsOK'
  BY <1>4, ManualsKept DEF IInv
<1> QED
  BY <1>1, <1>3, <1>4, <1>5, PersistAndArm DEF IInv

\* What patches leave a job with.
LEMMA PatchedIsSound ==
    ASSUME NEW j \in Jobs, NEW was, Sound(j, was), NEW on \in BOOLEAN, NEW edit \in BOOLEAN,
           edit => on = was.enabled, now \in Nat
    PROVE  LET st   == [was EXCEPT !.enabled = on]
               anew == IF ~st.enabled THEN [st EXCEPT !.next = 0, !.running = "none"]
                       ELSE [st EXCEPT !.next = ComputeNext(j, st, now)]
           IN  Sound(j, IF edit /\ (~st.enabled \/ st.next # 0) THEN st ELSE anew)
<1> DEFINE st == [was EXCEPT !.enabled = on]
           off == [st EXCEPT !.next = 0, !.running = "none"]
           due == [st EXCEPT !.next = ComputeNext(j, st, now)]
<1>1. st \in JobState /\ st.enabled = on
  BY DEF Sound, JobState
<1>2. Sound(j, due)
  BY <1>1, SlotComputed
<1>3. ~on => Sound(j, off)
  <2>1. off \in JobState /\ off.enabled = on
    BY <1>1 DEF JobState, Markers, Times
  <2> QED
    BY <2>1 DEF Sound
<1>4. ~st.enabled \/ st.next # 0 => Sound(j, st)
  BY <1>1 DEF Sound
<1> HIDE DEF st
<1> QED
  BY <1>1, <1>2, <1>3, <1>4 DEF st

LEMMA UpdateStep ==
    ASSUME IInv, NEW s \in Services, Callable(s), NEW j \in Jobs, NEW patch, Update(s, j, patch)
    PROVE  IInv'
<1> DEFINE on  == CASE patch = "enable" -> TRUE [] patch = "disable" -> FALSE
                    [] OTHER -> memory[s][j].enabled
           st   == [memory[s][j] EXCEPT !.enabled = on]
           anew == IF ~st.enabled THEN [st EXCEPT !.next = 0, !.running = "none"]
                   ELSE [st EXCEPT !.next = ComputeNext(j, st, now)]
           new  == IF patch = "edit" /\ (~st.enabled \/ st.next # 0) THEN st ELSE anew
           after == [memory[s] EXCEPT ![j] = new]
<1>1. /\ now \in Nat /\ Good(memory[s]) /\ boot[s].at # "clear" /\ DOMAIN manual = Manuals
      /\ j \in DOMAIN memory[s]
  BY DEF IInv, Shapes, Stores, Callable, Update
<1>2. Sound(j, memory[s][j])
  BY <1>1 DEF Good
<1>3. on \in BOOLEAN /\ (patch = "edit" => on = memory[s][j].enabled)
  BY <1>2 DEF Sound, JobState
<1>4. Persist(s, after) /\ ArmTimer(s, after) /\ UNCHANGED <<now, boot, tick, manual>>
  BY DEF Update
<1>5. Sound(j, new)
  <2> HIDE DEF on
  <2> QED
    BY <1>1, <1>2, <1>3, PatchedIsSound
<1> HIDE DEF new
<1>6. Good(after)
  BY <1>1, <1>5 DEF Good
<1> HIDE DEF after
<1>7. ManualsOK'
  BY <1>4, ManualsKept DEF IInv
<1> QED
  BY <1>1, <1>4, <1>6, <1>7, PersistAndArm DEF IInv

LEMMA RemoveJobStep ==
    ASSUME IInv, NEW s \in Services, Callable(s), NEW j \in Jobs, RemoveJob(s, j)
    PROVE  IInv'
<1> DEFINE after == [k \in DOMAIN memory[s] \ {j} |-> memory[s][k]]
<1>1. Good(memory[s]) /\ boot[s].at # "clear" /\ DOMAIN manual = Manuals
  BY DEF IInv, Shapes, Stores, Callable
<1>2. Good(after)
  BY <1>1 DEF Good
<1>3. Persist(s, after) /\ ArmTimer(s, after) /\ UNCHANGED <<now, boot, tick, manual>>
  BY DEF RemoveJob
<1> HIDE DEF after
<1>4. ManualsOK'
  BY <1>3, ManualsKept DEF IInv
<1> QED
  BY <1>1, <1>2, <1>3, <1>4, PersistAndArm DEF IInv

\* The repair that list() persists finds no new job to wake for.
LEMMA ListStep ==
    ASSUME IInv, NEW s \in Services, Callable(s), List(s)
    PROVE  IInv'
<1> DEFINE store == Maintain(memory[s], now, FALSE)
<1>1. /\ now \in Nat /\ Good(memory[s]) /\ boot[s].at # "clear" /\ DOMAIN manual = Manuals
      /\ DOMAIN memory = Services
  BY DEF IInv, Shapes, Stores, Callable
<1>2. Good(store) /\ (HasNextWake(store) => HasNextWake(memory[s]))
  BY <1>1, MaintainIsGood
<1>3. Persist(s, store) /\ UNCHANGED <<now, timer, boot, tick, manual>>
  BY DEF List
<1> HIDE DEF store
<1>4. /\ Stores' /\ DOMAIN memory' = Services /\ memory'[s] = store
      /\ \A t \in Services \ {s} : memory'[t] = memory[t]
  BY <1>1, <1>2, <1>3, PersistKeeps DEF IInv
<1>5. Shapes' /\ Stores' /\ Asleep' /\ IdleIsArmed'
  BY <1>1, <1>2, <1>3, <1>4, NothingToArm
<1> QED
  BY <1>3, <1>5, ManualsKept DEF IInv

\* So does the preflight of a manual run, whose repair stays in memory.
LEMMA PreflightKeeps ==
    ASSUME IInv, NEW s \in Services, boot[s].at # "clear", Preflight(s), UNCHANGED <<disk, boot>>
    PROVE  /\ Stores' /\ DOMAIN memory' = Services
           /\ HasNextWake(memory'[s]) <=> HasNextWake(memory[s])
           /\ \A t \in Services \ {s} : memory'[t] = memory[t]
<1> DEFINE store == Maintain(memory[s], now, FALSE)
<1>1. now \in Nat /\ Good(memory[s]) /\ DOMAIN memory = Services
  BY DEF IInv, Shapes, Stores
<1>2. Good(store) /\ (HasNextWake(store) <=> HasNextWake(memory[s]))
  BY <1>1, MaintainIsGood
<1>3. memory' = [memory EXCEPT ![s] = store]
  BY DEF Preflight
<1> HIDE DEF store
<1>4. Stores'
  BY <1>1, <1>2, <1>3 DEF IInv, Stores, Good
<1> QED
  BY <1>1, <1>2, <1>3, <1>4

\* One manual run takes a step.
LEMMA ManualMoves ==
    ASSUME IInv, NEW c \in Manuals, NEW m, manual' = [manual EXCEPT ![c] = m],
           UNCHANGED boot, ManualOK(m)
    PROVE  ManualsOK' /\ DOMAIN manual' = Manuals
<1>1. DOMAIN manual = Manuals
  BY DEF IInv, Shapes
<1> QED
  BY <1>1 DEF IInv, ManualsOK, ManualOK

LEMMA NoRunIsOK == ManualOK(NoRun)
  BY DEF ManualOK, NoRun

LEMMA EnqueueRunStep ==
    ASSUME IInv, NEW s \in Services, Callable(s), NEW c \in Manuals, NEW force \in BOOLEAN,
           EnqueueRun(s, c, force)
    PROVE  IInv'
<1> DEFINE m == [NoRun EXCEPT !.at = "queued", !.s = s, !.force = force]
<1>1. boot[s].at # "clear"
  BY DEF Callable
<1>2. Preflight(s) /\ UNCHANGED <<now, disk, timer, boot, tick>>
      /\ manual' = [manual EXCEPT ![c] = m]
  BY DEF EnqueueRun
<1>3. ManualOK(m)
  BY <1>1 DEF ManualOK, NoRun
<1> HIDE DEF m
<1>4. ManualsOK' /\ DOMAIN manual' = Manuals
  BY <1>2, <1>3, ManualMoves
<1> QED
  BY <1>1, <1>2, <1>4, PreflightKeeps, NothingToArm DEF IInv

LEMMA ManualPreflightStep ==
    ASSUME IInv, NEW c \in Manuals, ManualPreflight(c)
    PROVE  IInv'
<1> DEFINE s == manual[c].s
           m == [manual[c] EXCEPT !.at = "ready", !.run = now]
<1>1. manual[c].at = "queued" /\ Preflight(s) /\ UNCHANGED <<now, disk, timer, boot, tick>>
      /\ (manual' = [manual EXCEPT ![c] = m] \/ manual' = [manual EXCEPT ![c] = NoRun])
  BY DEF ManualPreflight
<1>2. ManualOK(manual[c]) /\ now \in Nat
  BY DEF IInv, ManualsOK, Shapes
<1>3. s \in Services /\ boot[s].at # "clear"
  BY <1>1, <1>2 DEF ManualOK
<1>4. ManualOK(m)
  BY <1>1, <1>2, <1>3 DEF ManualOK
<1> HIDE DEF m, s
<1>5. ManualsOK' /\ DOMAIN manual' = Manuals
  BY <1>1, <1>4, NoRunIsOK, ManualMoves
<1> QED
  BY <1>1, <1>3, <1>5, PreflightKeeps, NothingToArm DEF IInv

LEMMA ReserveStep ==
    ASSUME IInv, NEW c \in Manuals, Reserve(c)
    PROVE  IInv'
<1> DEFINE s == manual[c].s
           j == JobOf[c]
           m == [manual[c] EXCEPT !.at = "run"]
<1>1. /\ manual[c].at = "ready" /\ UNCHANGED <<now, timer, boot, tick>>
      /\ \/ Persist(s, Marked(memory[s], {j})) /\ manual' = [manual EXCEPT ![c] = m]
         \/ UNCHANGED <<disk, memory>> /\ manual' = [manual EXCEPT ![c] = NoRun]
  BY DEF Reserve
<1>2. ManualOK(manual[c]) /\ DOMAIN memory = Services
  BY DEF IInv, ManualsOK, Shapes
<1>3. s \in Services /\ boot[s].at # "clear"
  BY <1>1, <1>2 DEF ManualOK
<1>4. ManualOK(m)
  BY <1>1, <1>2, <1>3 DEF ManualOK
<1> HIDE DEF m, s
<1>5. ManualsOK' /\ DOMAIN manual' = Manuals
  BY <1>1, <1>4, NoRunIsOK, ManualMoves
<1>6. CASE UNCHANGED <<disk, memory>>
  <2>1. Stores'
    BY <1>1, <1>6 DEF IInv, Stores, Good
  <2> QED
    BY <1>1, <1>2, <1>5, <1>6, <2>1, NothingToArm DEF IInv
<1>7. CASE Persist(s, Marked(memory[s], {j}))
  <2> DEFINE store == Marked(memory[s], {j})
  <2>1. Good(store) /\ (HasNextWake(store) <=> HasNextWake(memory[s]))
    BY <1>3, MarkedIsGood DEF IInv, Stores
  <2> HIDE DEF store
  <2>2. /\ Stores' /\ DOMAIN memory' = Services /\ memory'[s] = store
        /\ \A t \in Services \ {s} : memory'[t] = memory[t]
    BY <1>1, <1>2, <1>3, <1>7, <2>1, PersistKeeps DEF IInv, store
  <2> QED
    BY <1>1, <1>5, <2>1, <2>2, NothingToArm DEF IInv
<1> QED
  BY <1>1, <1>6, <1>7

LEMMA ManualEndsStep ==
    ASSUME IInv, NEW c \in Manuals, NEW res \in Results, ManualEnds(c, res)
    PROVE  IInv'
<1> DEFINE r == [result |-> res, started |-> manual[c].run, ended |-> now]
           m == [manual[c] EXCEPT !.at = "finish", !.run = r]
<1>1. /\ manual[c].at = "run" /\ UNCHANGED <<now, disk, memory, timer, boot, tick>>
      /\ manual' = [manual EXCEPT ![c] = m]
  BY DEF ManualEnds
<1>2. ManualOK(manual[c]) /\ now \in Nat /\ DOMAIN memory = Services
  BY DEF IInv, ManualsOK, Shapes
<1>3. r \in RunType
  BY <1>1, <1>2 DEF ManualOK, RunType
<1> HIDE DEF r
<1>4. ManualOK(m)
  BY <1>1, <1>2, <1>3 DEF ManualOK
<1> HIDE DEF m
<1>5. ManualsOK' /\ DOMAIN manual' = Manuals
  BY <1>1, <1>4, ManualMoves
<1>6. Stores'
  BY <1>1 DEF IInv, Stores, Good
<1> QED
  BY <1>1, <1>2, <1>5, <1>6, NothingToArm DEF IInv

\* The job in memory takes the result and goes over the one in the file.
LEMMA FinishManualStep ==
    ASSUME IInv, NEW c \in Manuals, FinishManual(c)
    PROVE  IInv'
<1> DEFINE s      == manual[c].s
           j      == JobOf[c]
           run    == manual[c].run
           mine   == Applied(j, memory[s][j], run, manual[c].force)
           merged == IF Deletes(j, run.result) THEN [k \in DOMAIN disk \ {j} |-> disk[k]]
                     ELSE [k \in DOMAIN disk |-> IF k = j THEN mine ELSE disk[k]]
           store  == Maintain(merged, now, TRUE)
<1>1. /\ manual[c].at = "finish" /\ UNCHANGED <<now, boot, tick>>
      /\ manual' = [manual EXCEPT ![c] = NoRun]
      /\ \/ j \in DOMAIN memory[s] /\ Persist(s, store) /\ ArmTimer(s, store)
         \/ UNCHANGED <<disk, memory, timer>>
  BY DEF FinishManual
<1>2. ManualOK(manual[c]) /\ now \in Nat /\ DOMAIN memory = Services
  BY DEF IInv, ManualsOK, Shapes
<1>3. s \in Services /\ boot[s].at # "clear" /\ run \in RunType /\ manual[c].force \in BOOLEAN
  BY <1>1, <1>2 DEF ManualOK
<1>4. ManualsOK' /\ DOMAIN manual' = Manuals
  BY <1>1, NoRunIsOK, ManualMoves
<1>5. CASE UNCHANGED <<disk, memory, timer>>
  <2>1. Stores'
    BY <1>1, <1>5 DEF IInv, Stores, Good
  <2> QED
    BY <1>1, <1>2, <1>4, <1>5, <2>1, NothingToArm DEF IInv
<1>6. CASE j \in DOMAIN memory[s] /\ Persist(s, store) /\ ArmTimer(s, store)
  <2> HIDE DEF s, j, run
  <2>1. j \in Jobs /\ memory[s][j] \in JobState
    BY <1>3, <1>6 DEF IInv, Stores, Good, Sound
  <2>2. Sound(j, mine)
    BY <1>3, <2>1, AppliedIsSound
  <2> HIDE DEF mine
  <2>3. Good(merged)
    BY <2>2 DEF IInv, Stores, Good
  <2> HIDE DEF merged
  <2>4. Good(store)
    BY <1>2, <2>3, MaintainIsGood
  <2> HIDE DEF store
  <2> QED
    BY <1>1, <1>3, <1>4, <1>6, <2>4, PersistAndArm DEF IInv
<1> QED
  BY <1>1, <1>5, <1>6

LEMMA AdvanceStep == ASSUME IInv, Advance PROVE IInv'
<1>1. now' \in Nat /\ UNCHANGED <<disk, memory, timer, boot, tick, manual>>
  BY DEF Advance, IInv, Shapes
<1>2. Shapes' /\ Stores' /\ Asleep' /\ IdleIsArmed'
  BY <1>1 DEF IInv, Shapes, BatchOK, Stores, Good, Asleep, IdleIsArmed
<1> QED
  BY <1>1, <1>2, ManualsKept DEF IInv

LEMMA MarkerAgesStep ==
    ASSUME IInv, NEW j, MarkerAges(j)
    PROVE  IInv'
<1>1. /\ UNCHANGED <<now, timer, boot, tick, manual>> /\ disk' = Aged(disk, j)
      /\ DOMAIN memory' = Services /\ DOMAIN manual' = Manuals
      /\ \A s \in Services : memory'[s] \in {memory[s], Aged(memory[s], j)}
  BY DEF MarkerAges, IInv, Shapes
<1>2. Good(disk')
  BY <1>1, AgedIsGood DEF IInv, Stores
<1>3. ASSUME NEW s \in Services, boot[s].at # "clear"
      PROVE  Good(memory'[s]) /\ (HasNextWake(memory'[s]) <=> HasNextWake(memory[s]))
  BY <1>1, <1>3, AgedIsGood DEF IInv, Stores
<1>4. Stores'
  BY <1>1, <1>2, <1>3 DEF Stores, Good
<1> QED
  BY <1>1, <1>3, <1>4, NothingToArm, ManualsKept DEF IInv

\* The services of the next process have not started.
LEMMA CrashStep == ASSUME IInv, Crash PROVE IInv'
<1> USE DEF IInv
<1>1. UNCHANGED <<now, disk>> /\ timer' = {}
  BY DEF Crash
<1>2. DOMAIN memory' = Services /\ DOMAIN boot' = Services /\ DOMAIN tick' = Services
  BY DEF Crash
<1>3. \A s \in Services : boot'[s] = [Off EXCEPT !.at = "clear"] /\ tick'[s] = Idle
  BY DEF Crash
<1>4. \A s \in Services : boot'[s].at = "clear" /\ tick'[s].at = "idle"
  BY <1>3, EmptyIsOK DEF Off
<1>5. DOMAIN manual' = Manuals /\ \A c \in Manuals : manual'[c] = NoRun
  BY DEF Crash
<1>6. \A s \in Services : BatchOK(boot'[s]) /\ BatchOK(tick'[s])
  BY <1>3, EmptyIsOK
<1>7. Shapes'
  BY <1>1, <1>2, <1>5, <1>6 DEF Shapes, BatchOK
<1>8. Stores'
  BY <1>1, <1>4 DEF Stores, Good
<1>9. Asleep' /\ IdleIsArmed'
  BY <1>1, <1>4 DEF Asleep, IdleIsArmed
<1>10. ManualsOK'
  BY <1>5 DEF ManualsOK, ManualOK, NoRun
<1> QED
  BY <1>7, <1>8, <1>9, <1>10

\* Every step keeps the invariant.
LEMMA NextIInv == ASSUME IInv, [CronNext]_cronVars PROVE IInv'
<1>1. ASSUME NEW s \in Services, Starts(s) PROVE IInv'
  BY <1>1, StartClearStep, StartPlanStep, StartRunStep, StartRunEndsStep, StartOutcomesStep,
     StartArmStep DEF Starts
<1>2. ASSUME NEW s \in Services, Ticks(s) PROVE IInv'
  BY <1>2, TimerFiresStep, CollectStep, RunDueJobStep, DueJobEndsStep, FinishStep,
     TickEndsStep DEF Ticks
<1>3. ASSUME NEW s \in Services, Calls(s) PROVE IInv'
  BY <1>3, ListStep, AddStep, RemoveJobStep, UpdateStep, EnqueueRunStep DEF Calls
<1>4. ASSUME NEW c \in Manuals, Manual(c) PROVE IInv'
  BY <1>4, ManualPreflightStep, ReserveStep, FinishManualStep, ManualEndsStep DEF Manual
<1>5. CASE UNCHANGED cronVars
  <2>1. UNCHANGED <<now, disk, memory, timer, boot, tick, manual>>
    BY <1>5 DEF cronVars
  <2>2. Shapes' /\ Stores' /\ Asleep' /\ IdleIsArmed'
    BY <2>1 DEF IInv, Shapes, BatchOK, Stores, Good, Asleep, IdleIsArmed
  <2> QED
    BY <2>1, <2>2, ManualsKept DEF IInv
<1> QED
  BY <1>1, <1>2, <1>3, <1>4, <1>5, MarkerAgesStep, AdvanceStep, CrashStep DEF CronNext

\* A started service that is between two ticks has its timer set whenever its memory holds a
\* job to wake for, however many services share the file: ops.ts and timer.ts arm it at the
\* end of every path on which such a job can appear.
THEOREM IdleServiceIsArmed == CronSpec => []IdleIsArmed
<1>1. CronInit => IInv
  BY InitIInv
<1>2. IInv /\ [CronNext]_cronVars => IInv'
  BY NextIInv
<1>3. IInv => IdleIsArmed
  BY DEF IInv
<1> QED
  BY <1>1, <1>2, <1>3, PTL DEF CronSpec

-----------------------------------------------------------------------------
(* A service that has the file for itself. *)

\* A service that has read the file has a job to wake for when the file has one.
Agree == \A s \in Services :
    boot[s].at # "clear" => (HasNextWake(memory[s]) <=> HasNextWake(disk))

SInv == IInv /\ Agree /\ SchedulerLives

Alone == \A s, t \in Services : s = t

\* A section that persists what it leaves in memory.
LEMMA PersistAgrees ==
    ASSUME Alone, IInv, NEW s \in Services, NEW store, Persist(s, store)
    PROVE  Agree' /\ memory'[s] = store
  BY DEF Alone, IInv, Shapes, Persist, Agree

\* One that leaves both as they were, as far as there are jobs to wake for.
LEMMA AgreementKept ==
    ASSUME Agree, HasNextWake(disk') <=> HasNextWake(disk),
           \A s \in Services : boot'[s].at # "clear" =>
               boot[s].at # "clear" /\ (HasNextWake(memory'[s]) <=> HasNextWake(memory[s]))
    PROVE  Agree'
  BY DEF Agree

LEMMA UnchangedAgrees ==
    ASSUME Agree, UNCHANGED <<disk, memory>>,
           \A s \in Services : boot'[s].at # "clear" => boot[s].at # "clear"
    PROVE  Agree'
  BY DEF Agree, HasNextWake

\* A start is not up before it arms the timer for what it has read.
LEMMA StartsLive ==
    ASSUME Alone, SInv, NEW s \in Services, Starts(s)
    PROVE  Agree' /\ SchedulerLives'
<1> USE DEF SInv
<1>1. \A t \in Services : t = s
  BY DEF Alone
<1>2. DOMAIN boot = Services
  BY DEF IInv, Shapes
<1>3. CASE StartClear(s)
  <2>1. Agree'
    BY <1>3, PersistAgrees DEF StartClear
  <2>2. boot'[s].at # "up"
    BY <1>2, <1>3 DEF StartClear, IInv, Shapes, BatchOK
  <2> QED
    BY <1>1, <2>1, <2>2 DEF SchedulerLives
<1>4. CASE StartPlan(s)
  <2>1. boot[s].at = "plan" /\ boot'[s].at # "up"
    BY <1>2, <1>4 DEF StartPlan, Off
  <2>2. UNCHANGED <<memory, disk>> \/ \E store : Persist(s, store)
    BY <1>4 DEF StartPlan
  <2>3. Agree'
    BY <1>1, <2>1, <2>2, PersistAgrees, UnchangedAgrees
  <2> QED
    BY <1>1, <2>1, <2>3 DEF SchedulerLives
<1>5. CASE StartRun(s)
  <2>1. /\ boot[s].at = "run" /\ UNCHANGED <<memory, disk>>
        /\ boot' = [boot EXCEPT ![s] = Begin(boot[s], Head(boot[s].todo))]
    BY <1>5 DEF StartRun
  <2>2. Begin(boot[s], Head(boot[s].todo)).at = boot[s].at
    BY BeginIsOK DEF IInv, Shapes
  <2>3. boot'[s].at = "run"
    BY <1>2, <2>1, <2>2
  <2>4. Agree'
    BY <1>1, <2>1, UnchangedAgrees
  <2> QED
    BY <1>1, <2>3, <2>4 DEF SchedulerLives
<1>6. ASSUME NEW res \in Results, StartRunEnds(s, res)
      PROVE  Agree' /\ SchedulerLives'
  <2>1. boot[s].at = "run" /\ UNCHANGED <<memory, disk>>
    BY <1>6 DEF StartRunEnds
  <2>2. PICK j \in DOMAIN boot[s].active : boot' = [boot EXCEPT ![s] = End(boot[s], j, res)]
    BY <1>6 DEF StartRunEnds
  <2>3. End(boot[s], j, res).at = boot[s].at
    BY EndIsOK DEF IInv, Shapes
  <2>4. boot'[s].at = "run"
    BY <1>2, <2>1, <2>2, <2>3
  <2>5. Agree'
    BY <1>1, <2>1, UnchangedAgrees
  <2> QED
    BY <1>1, <2>4, <2>5 DEF SchedulerLives
<1>7. CASE StartOutcomes(s)
  <2>1. Agree'
    BY <1>7, PersistAgrees DEF StartOutcomes
  <2>2. boot'[s].at # "up"
    BY <1>2, <1>7 DEF StartOutcomes, Off
  <2> QED
    BY <1>1, <2>1, <2>2 DEF SchedulerLives
<1>8. CASE StartArm(s)
  <2>1. Persist(s, Recompute(disk, now)) /\ ArmTimer(s, Recompute(disk, now))
    BY <1>8 DEF StartArm
  <2>2. Agree' /\ memory'[s] = Recompute(disk, now)
    BY <2>1, PersistAgrees
  <2> QED
    BY <1>1, <2>1, <2>2 DEF SchedulerLives, ArmTimer
<1> QED
  BY <1>3, <1>4, <1>5, <1>6, <1>7, <1>8 DEF Starts

\* A tick that reloads the file finds a job to wake for only if the timer is set for one.
LEMMA TicksLive ==
    ASSUME Alone, SInv, NEW s \in Services, Ticks(s)
    PROVE  Agree' /\ SchedulerLives'
<1> USE DEF SInv
<1>1. \A t \in Services : t = s
  BY DEF Alone
<1>2. DOMAIN tick = Services /\ DOMAIN memory = Services /\ now \in Nat
  BY DEF IInv, Shapes
<1>3. tick[s].at # "idle" => boot[s].at # "clear"
  BY DEF IInv, Asleep
<1>4. boot[s].at # "clear" => Good(disk) /\ Good(memory[s])
  BY DEF IInv, Stores
<1>5. CASE TimerFires(s)
  <2>1. s \in timer' /\ UNCHANGED <<memory, disk, boot>>
    BY <1>5 DEF TimerFires
  <2>2. Agree'
    BY <2>1, UnchangedAgrees
  <2> QED
    BY <1>1, <2>1, <2>2 DEF SchedulerLives
<1>6. CASE Collect(s)
  <2>1. tick[s].at = "collect" /\ UNCHANGED <<timer, boot>>
    BY <1>6 DEF Collect
  <2>2. PICK store : Persist(s, store) /\ (HasNextWake(store) => HasNextWake(disk))
    <3>1. /\ HasNextWake(Maintain(disk, now, TRUE)) => HasNextWake(disk)
          /\ \A J : HasNextWake(Marked(disk, J)) => HasNextWake(disk)
      BY <1>2, <1>3, <1>4, <2>1, MaintainIsGood, MarkedIsGood
    <3> QED
      BY <1>6, <3>1 DEF Collect
  <2>3. Agree' /\ memory'[s] = store
    BY <2>2, PersistAgrees
  <2>4. boot[s].at = "up" /\ HasNextWake(disk) => s \in timer
    BY <2>1 DEF Agree, SchedulerLives
  <2> QED
    BY <1>1, <2>1, <2>2, <2>3, <2>4 DEF SchedulerLives
<1>7. CASE RunDueJob(s)
  <2> DEFINE J == {Head(tick[s].todo)}
  <2>1. /\ tick[s].at = "run" /\ UNCHANGED <<disk, timer, boot>>
        /\ memory' \in {memory, [memory EXCEPT ![s] = Marked(memory[s], J)]}
    BY <1>7 DEF RunDueJob
  <2>2. HasNextWake(memory'[s]) <=> HasNextWake(memory[s])
    BY <1>2, <1>3, <1>4, <2>1, MarkedIsGood
  <2>3. Agree'
    BY <1>1, <2>1, <2>2 DEF Agree, HasNextWake
  <2>4. boot[s].at = "up" /\ HasNextWake(memory[s]) => s \in timer
    BY <2>1 DEF SchedulerLives
  <2> QED
    BY <1>1, <2>1, <2>2, <2>3, <2>4 DEF SchedulerLives
<1>8. ASSUME NEW j, NEW res \in Results, DueJobEnds(s, j, res)
      PROVE  Agree' /\ SchedulerLives'
  <2>1. tick[s].at = "run" /\ UNCHANGED <<disk, memory, timer, boot>>
    BY <1>8 DEF DueJobEnds
  <2>2. Agree'
    BY <2>1, UnchangedAgrees
  <2>3. boot[s].at = "up" /\ HasNextWake(memory[s]) => s \in timer
    BY <2>1 DEF SchedulerLives
  <2> QED
    BY <1>1, <2>1, <2>2, <2>3 DEF SchedulerLives, HasNextWake
<1>9. CASE Finish(s)
  <2>1. Agree'
    BY <1>9, PersistAgrees DEF Finish
  <2>2. tick'[s].at = "end"
    BY <1>2, <1>9 DEF Finish, Idle
  <2> QED
    BY <1>1, <2>1, <2>2 DEF SchedulerLives
<1>10. CASE TickEnds(s)
  <2>1. ArmTimer(s, memory[s]) /\ UNCHANGED <<disk, memory, boot>>
    BY <1>10 DEF TickEnds
  <2>2. Agree'
    BY <2>1, UnchangedAgrees
  <2>3. HasNextWake(memory'[s]) => s \in timer'
    BY <2>1 DEF ArmTimer
  <2> QED
    BY <1>1, <2>2, <2>3 DEF SchedulerLives
<1> QED
  BY <1>5, <1>6, <1>7, <1>8, <1>9, <1>10 DEF Ticks

\* Calls do not touch a tick or a start.
LEMMA CallsOutside ==
    ASSUME NEW s, Calls(s)
    PROVE  boot[s].at # "clear" /\ UNCHANGED <<tick, boot>>
<1>1. List(s) => UNCHANGED <<tick, boot>>
  BY DEF List
<1>2. ASSUME NEW j PROVE Add(s, j) \/ RemoveJob(s, j) => UNCHANGED <<tick, boot>>
  BY DEF Add, RemoveJob
<1>3. ASSUME NEW j, NEW patch, Update(s, j, patch) PROVE UNCHANGED <<tick, boot>>
  BY <1>3 DEF Update
<1>4. ASSUME NEW c, NEW force, EnqueueRun(s, c, force) PROVE UNCHANGED <<tick, boot>>
  BY <1>4 DEF EnqueueRun
<1> QED
  BY <1>1, <1>2, <1>3, <1>4 DEF Calls, Callable

\* Calls arm the timer, or find what there was.
LEMMA CallsLive ==
    ASSUME Alone, SInv, NEW s \in Services, Calls(s)
    PROVE  Agree' /\ SchedulerLives'
<1> USE DEF SInv
<1>1. \A t \in Services : t = s
  BY DEF Alone
<1>2. boot[s].at # "clear" /\ UNCHANGED <<boot, tick>>
  BY CallsOutside
<1>3. DOMAIN memory = Services /\ now \in Nat /\ Good(memory[s])
  BY <1>2 DEF IInv, Shapes, Stores
<1>4. ASSUME NEW store, Persist(s, store), ArmTimer(s, store)
      PROVE  Agree' /\ SchedulerLives'
  BY <1>1, <1>4, PersistAgrees DEF SchedulerLives, ArmTimer
<1>5. CASE List(s)
  <2> DEFINE store == Maintain(memory[s], now, FALSE)
  <2>1. Persist(s, store) /\ UNCHANGED timer
    BY <1>5 DEF List
  <2>2. HasNextWake(store) => HasNextWake(memory[s])
    BY <1>3, MaintainIsGood
  <2> HIDE DEF store
  <2>3. Agree' /\ memory'[s] = store
    BY <2>1, PersistAgrees
  <2> QED
    BY <1>1, <1>2, <2>1, <2>2, <2>3 DEF SchedulerLives
<1>6. ASSUME NEW j \in Jobs, Add(s, j) \/ RemoveJob(s, j) \/ \E p \in Patches(j) : Update(s, j, p)
      PROVE  Agree' /\ SchedulerLives'
  BY <1>4, <1>6 DEF Add, RemoveJob, Update
<1>7. ASSUME NEW c \in Manuals, NEW force \in BOOLEAN, EnqueueRun(s, c, force)
      PROVE  Agree' /\ SchedulerLives'
  <2>1. Preflight(s) /\ UNCHANGED <<disk, timer, boot>>
    BY <1>7 DEF EnqueueRun
  <2>2. HasNextWake(memory'[s]) <=> HasNextWake(memory[s])
    BY <1>2, <2>1, PreflightKeeps
  <2>3. Agree'
    BY <1>1, <2>1, <2>2 DEF Agree, HasNextWake
  <2> QED
    BY <1>1, <1>2, <2>1, <2>2, <2>3 DEF SchedulerLives
<1> QED
  BY <1>5, <1>6, <1>7 DEF Calls

LEMMA ManualsLive ==
    ASSUME Alone, SInv, NEW c \in Manuals, Manual(c)
    PROVE  Agree' /\ SchedulerLives'
<1> USE DEF SInv
<1> DEFINE s == manual[c].s
           j == JobOf[c]
<1>1. manual[c].at # "none" /\ UNCHANGED <<boot, tick>>
  BY DEF Manual, ManualPreflight, Reserve, FinishManual, ManualEnds
<1>2. s \in Services /\ boot[s].at # "clear" /\ \A t \in Services : t = s
  BY <1>1 DEF IInv, ManualsOK, ManualOK, Alone
<1>3. DOMAIN memory = Services /\ now \in Nat /\ Good(memory[s])
  BY <1>2 DEF IInv, Shapes, Stores
<1>4. ASSUME UNCHANGED <<disk, memory, timer>>
      PROVE  Agree' /\ SchedulerLives'
  <2>1. Agree'
    BY <1>1, <1>4, UnchangedAgrees
  <2> QED
    BY <1>1, <1>4, <2>1 DEF SchedulerLives, HasNextWake
<1>5. CASE ManualPreflight(c)
  <2>1. Preflight(s) /\ UNCHANGED <<disk, timer>>
    BY <1>5 DEF ManualPreflight
  <2>2. HasNextWake(memory'[s]) <=> HasNextWake(memory[s])
    BY <1>1, <1>2, <2>1, PreflightKeeps
  <2>3. Agree'
    BY <1>1, <1>2, <2>1, <2>2 DEF Agree, HasNextWake
  <2> QED
    BY <1>1, <1>2, <2>1, <2>2, <2>3 DEF SchedulerLives
<1>6. CASE Reserve(c)
  <2> DEFINE store == Marked(memory[s], {j})
  <2>1. UNCHANGED timer /\ (Persist(s, store) \/ UNCHANGED <<disk, memory>>)
    BY <1>6 DEF Reserve
  <2>2. HasNextWake(store) => HasNextWake(memory[s])
    BY <1>3, MarkedIsGood
  <2> HIDE DEF store
  <2>3. CASE Persist(s, store)
    <3>1. Agree' /\ memory'[s] = store
      BY <1>2, <2>3, PersistAgrees
    <3> QED
      BY <1>1, <1>2, <2>1, <2>2, <3>1 DEF SchedulerLives
  <2> QED
    BY <1>4, <2>1, <2>3
<1>7. CASE FinishManual(c)
  <2>1. \/ UNCHANGED <<disk, memory, timer>>
        \/ \E store : Persist(s, store) /\ ArmTimer(s, store)
    BY <1>7 DEF FinishManual
  <2>2. ASSUME NEW store, Persist(s, store), ArmTimer(s, store)
        PROVE  Agree' /\ SchedulerLives'
    <3>1. Agree' /\ memory'[s] = store
      BY <1>2, <2>2, PersistAgrees
    <3> QED
      BY <1>2, <2>2, <3>1 DEF SchedulerLives, ArmTimer
  <2> QED
    BY <1>4, <2>1, <2>2
<1>8. ASSUME NEW res \in Results, ManualEnds(c, res)
      PROVE  Agree' /\ SchedulerLives'
  BY <1>4, <1>8 DEF ManualEnds
<1> QED
  BY <1>5, <1>6, <1>7, <1>8 DEF Manual

LEMMA OthersLive ==
    ASSUME SInv, Advance \/ Crash \/ (\E j \in Outlasting : MarkerAges(j)) \/ UNCHANGED cronVars
    PROVE  Agree' /\ SchedulerLives'
<1> USE DEF SInv
<1>1. CASE UNCHANGED <<disk, memory, timer, boot, tick>>
  <2>1. Agree'
    BY <1>1, UnchangedAgrees
  <2> QED
    BY <1>1, <2>1 DEF SchedulerLives, HasNextWake
<1>2. CASE Crash
  <2>1. \A s \in Services : boot'[s].at = "clear"
    BY <1>2 DEF Crash, Off
  <2> QED
    BY <2>1 DEF Agree, SchedulerLives
<1>3. ASSUME NEW j \in Outlasting, MarkerAges(j)
      PROVE  Agree' /\ SchedulerLives'
  <2>1. /\ UNCHANGED <<timer, boot, tick>> /\ disk' = Aged(disk, j)
        /\ \A s \in Services : memory'[s] \in {memory[s], Aged(memory[s], j)}
    BY <1>3 DEF MarkerAges
  <2>2. HasNextWake(disk') <=> HasNextWake(disk)
    BY <2>1, AgedIsGood DEF IInv, Stores
  <2>3. \A s \in Services : boot[s].at # "clear" =>
            (HasNextWake(memory'[s]) <=> HasNextWake(memory[s]))
    BY <2>1, AgedIsGood DEF IInv, Stores
  <2>4. Agree'
    BY <2>1, <2>2, <2>3, AgreementKept
  <2>5. SchedulerLives'
    BY <2>1, <2>3 DEF SchedulerLives
  <2> QED
    BY <2>4, <2>5
<1> QED
  BY <1>1, <1>2, <1>3 DEF Advance, cronVars

\* A service that has its file for itself has its timer set from the end of its start on,
\* also during a tick, whenever it has a job to wake for: neither the early return of
\* onTimer, nor a repair of list() or of a preflight, nor a reload of the file loses it.
THEOREM SchedulerStaysAlive ==
    ASSUME Alone
    PROVE  CronSpec => []SchedulerLives
<1>1. CronInit => SInv
  <2> SUFFICES ASSUME CronInit PROVE SInv
    OBVIOUS
  <2>1. \A s \in Services : boot[s].at = "clear"
    BY DEF CronInit, Off
  <2> QED
    BY <2>1, InitIInv DEF SInv, Agree, SchedulerLives
<1>2. SInv /\ [CronNext]_cronVars => SInv'
  <2> SUFFICES ASSUME SInv, [CronNext]_cronVars PROVE SInv'
    OBVIOUS
  <2>1. IInv'
    BY NextIInv DEF SInv
  <2>2. Agree' /\ SchedulerLives'
    BY StartsLive, TicksLive, CallsLive, ManualsLive, OthersLive DEF CronNext
  <2> QED
    BY <2>1, <2>2 DEF SInv
<1>3. SInv => SchedulerLives
  BY DEF SInv
<1> QED
  BY <1>1, <1>2, <1>3, PTL DEF CronSpec

-----------------------------------------------------------------------------
(* One execution per job, for a service that has its file for itself.  The *)
(* marker runningAtMs is the lock of a job: whoever has the job is known   *)
(* by OneClaim, and the marker stays, in memory and in the file, through   *)
(* every section that somebody else performs meanwhile.  A run by hand can *)
(* be of a disabled job, which loses its marker at the next repair of the  *)
(* slots; then nobody but another run by hand will take the job.           *)

\* A tick, or a start, has the job from the section that marks it to the one that applies the
\* result of its run; a manual run from its reservation on.
InBatch(b, j)  == j \in Set(b.todo) \cup DOMAIN b.active \cup DOMAIN b.done
Holds(m, c, j) == JobOf[c] = j /\ m[c].at \in {"run", "finish"}
ByHand(m, j)   == \E c \in Manuals : Holds(m, c, j)
OneHand(m, j)  == \A c, d \in Manuals : Holds(m, c, j) /\ Holds(m, d, j) => c = d

MarkedIn(store, j)  == j \in DOMAIN store => store[j].enabled /\ store[j].running = "recent"
GuardedIn(store, j) == j \in DOMAIN store /\ store[j].enabled => store[j].running = "recent"

OneClaim(s, j) ==
    /\ InBatch(tick[s], j) => ~InBatch(boot[s], j) /\ ~ByHand(manual, j)
    /\ InBatch(boot[s], j) => ~ByHand(manual, j)
    /\ InBatch(tick[s], j) \/ InBatch(boot[s], j) => MarkedIn(disk, j) /\ MarkedIn(memory[s], j)
    /\ ByHand(manual, j) => GuardedIn(disk, j) /\ GuardedIn(memory[s], j)
    /\ OneHand(manual, j) \/ (Dormant(disk, j) /\ Dormant(memory[s], j))
    /\ InBatch(tick[s], j) \/ InBatch(boot[s], j) \/ ByHand(manual, j) => j \notin fresh

\* Batches hold jobs between their first and their last section only.
Empty(b) == b.todo = <<>> /\ DOMAIN b.active = {} /\ DOMAIN b.done = {}
Phase(s) == /\ tick[s].todo \in Seq(Jobs) /\ boot[s].todo \in Seq(Jobs)
            /\ tick[s].at # "run" => Empty(tick[s])
            /\ boot[s].at # "run" => Empty(boot[s])

\* A job that can still be added is not there yet.
Unused(s) == fresh \cap DOMAIN disk = {} /\ (boot[s].at # "clear" => fresh \cap DOMAIN memory[s] = {})

OInv == \A s \in Services :
    /\ Phase(s) /\ Unused(s)
    /\ boot[s].at # "clear" => \A j \in Jobs \ excused : OneClaim(s, j)

LEMMA OInvNext ==
    ASSUME Alone, NEW s \in Services, Phase(s)', Unused(s)',
           boot'[s].at # "clear" => \A j \in Jobs \ excused' : OneClaim(s, j)'
    PROVE  OInv'
  BY DEF Alone, OInv

-----------------------------------------------------------------------------
(* What the sections do to the marker of a job that somebody has.          *)

Keeps(store, other, j) ==
    j \in DOMAIN other => /\ j \in DOMAIN store
                          /\ other[j].enabled = store[j].enabled
                          /\ store[j].enabled /\ store[j].running = "recent" => other[j].running = "recent"

LEMMA KeepsTrans ==
    ASSUME NEW a, NEW b, NEW c, NEW j, Keeps(a, b, j), Keeps(b, c, j) PROVE Keeps(a, c, j)
  BY DEF Keeps

LEMMA KeepsSelf == ASSUME NEW a, NEW j PROVE Keeps(a, a, j)
  BY DEF Keeps

LEMMA NormalizedKeeps ==
    ASSUME NEW st \in JobState
    PROVE  /\ Normalized(st).enabled = st.enabled
           /\ st.enabled /\ st.running = "recent" => Normalized(st).running = "recent"
           /\ Normalized(st) \in JobState
  BY DEF Normalized, JobState, Markers, Times

LEMMA RepairsKeep ==
    ASSUME NEW store, Good(store), NEW t \in Nat, NEW expired \in BOOLEAN, NEW j
    PROVE  Keeps(store, Maintain(store, t, expired), j) /\ Keeps(store, Recompute(store, t), j)
<1> SUFFICES ASSUME j \in DOMAIN store
             PROVE  Keeps(store, Maintain(store, t, expired), j) /\ Keeps(store, Recompute(store, t), j)
  BY DEF Keeps, Maintain, Recompute
<1> DEFINE st == Normalized(store[j])
           n  == ComputeNext(j, st, t)
<1>1. /\ st \in JobState /\ st.enabled = store[j].enabled
      /\ store[j].enabled /\ store[j].running = "recent" => st.running = "recent"
  BY NormalizedKeeps DEF Good, Sound
<1>2. /\ Maintain(store, t, expired)[j] \in {st, [st EXCEPT !.next = n]}
      /\ Recompute(store, t)[j] \in {st, [st EXCEPT !.next = n]}
  BY DEF Maintain, Recompute
<1> HIDE DEF st, n
<1>3. [st EXCEPT !.next = n].enabled = st.enabled /\ [st EXCEPT !.next = n].running = st.running
  BY <1>1 DEF JobState
<1> QED
  BY <1>1, <1>2, <1>3 DEF Keeps

LEMMA MarkedKeeps ==
    ASSUME NEW store, Good(store), NEW J, NEW j
    PROVE  Keeps(store, Marked(store, J), j)
<1>1. j \in DOMAIN store => store[j] \in JobState
  BY DEF Good, Sound
<1> QED
  BY <1>1 DEF Keeps, Marked, JobState

\* A result does not enable a job.
LEMMA RestStays ==
    ASSUME NEW j, NEW st \in JobState, ~st.enabled, NEW run, NEW keep
    PROVE  Applied(j, st, run, keep).enabled = FALSE
  BY DEF Applied, OneShotApplied, RecurringApplied, JobState

LEMMA OutcomesKeep ==
    ASSUME NEW store, NEW runs, NEW j, j \notin DOMAIN runs
    PROVE  Keeps(store, ApplyOutcomes(store, runs), j)
  BY DEF Keeps, ApplyOutcomes

-----------------------------------------------------------------------------
(* Claims that end, and claims that go on.                                 *)

\* A store of the next state in which the job is marked as before.
Kept(s, store, j) == Keeps(disk, store, j) \/ Keeps(memory[s], store, j)

\* No manual run takes the job.
Fewer(j) == \A c \in Manuals : Holds(manual', c, j) => Holds(manual, c, j)

LEMMA FewerHold ==
    ASSUME NEW j, Fewer(j)
    PROVE  /\ ByHand(manual', j) => ByHand(manual, j)
           /\ OneHand(manual, j) => OneHand(manual', j)
  BY DEF Fewer, ByHand, OneHand

LEMMA SameHold == ASSUME UNCHANGED manual, NEW j PROVE Fewer(j)
  BY DEF Fewer

LEMMA NoneHolds == ASSUME NEW m, NEW j, ~ByHand(m, j) PROVE OneHand(m, j)
  BY DEF ByHand, OneHand

LEMMA ClaimStays ==
    ASSUME NEW s, NEW j, OneClaim(s, j),
           InBatch(tick'[s], j) => InBatch(tick[s], j),
           InBatch(boot'[s], j) => InBatch(boot[s], j),
           Fewer(j),
           InBatch(tick'[s], j) \/ InBatch(boot'[s], j) \/ ByHand(manual', j) =>
               Kept(s, disk', j) /\ Kept(s, memory'[s], j),
           fresh' \subseteq fresh
    PROVE  OneClaim(s, j)'
<1>0. /\ ByHand(manual', j) => ByHand(manual, j)
      /\ OneHand(manual, j) => OneHand(manual', j)
  BY FewerHold
<1>1. ASSUME InBatch(tick'[s], j) \/ InBatch(boot'[s], j)
      PROVE  MarkedIn(disk', j) /\ MarkedIn(memory'[s], j)
  BY <1>1 DEF OneClaim, Kept, Keeps, MarkedIn
<1>2. ASSUME ByHand(manual', j)
      PROVE  GuardedIn(disk', j) /\ GuardedIn(memory'[s], j)
  BY <1>0, <1>2 DEF OneClaim, Kept, Keeps, GuardedIn
<1>3. OneHand(manual', j) \/ (Dormant(disk', j) /\ Dormant(memory'[s], j))
  <2>1. CASE ByHand(manual', j)
    BY <1>0, <2>1 DEF OneClaim, Kept, Keeps, Dormant
  <2> QED
    BY <2>1, NoneHolds
<1> QED
  BY <1>0, <1>1, <1>2, <1>3 DEF OneClaim

LEMMA EmptyHasNone == ASSUME NEW b, Empty(b), NEW j PROVE ~InBatch(b, j)
  BY DEF Empty, InBatch, Set

LEMMA BeginClaims ==
    ASSUME NEW b, BatchOK(b), b.todo \in Seq(Jobs), b.todo # <<>>, NEW j
    PROVE  /\ InBatch(Begin(b, Head(b.todo)), j) => InBatch(b, j)
           /\ Begin(b, Head(b.todo)).todo \in Seq(Jobs)
<1> DEFINE h == Head(b.todo)
<1>1. /\ Begin(b, h).todo = Tail(b.todo) /\ Begin(b, h).done = b.done
      /\ DOMAIN Begin(b, h).active = DOMAIN b.active \cup {h}
  BY DEF Begin, BatchOK, Put
<1>2. Tail(b.todo) \in Seq(Jobs) /\ Set(Tail(b.todo)) \subseteq Set(b.todo) /\ h \in Set(b.todo)
  BY DEF Set
<1> QED
  BY <1>1, <1>2 DEF InBatch

LEMMA EndClaims ==
    ASSUME NEW b, BatchOK(b), NEW k \in DOMAIN b.active, NEW res, NEW j
    PROVE  /\ InBatch(End(b, k, res), j) => InBatch(b, j)
           /\ End(b, k, res).todo = b.todo
<1>1. /\ End(b, k, res).todo = b.todo
      /\ DOMAIN End(b, k, res).active = DOMAIN b.active \ {k}
      /\ DOMAIN End(b, k, res).done = DOMAIN b.done \cup {k}
  BY DEF End, BatchOK, Put
<1> QED
  BY <1>1 DEF InBatch

\* A job that passes the check of the marker is nobody's.
LEMMA RunnableIsFree ==
    ASSUME NEW s, NEW j, OneClaim(s, j), NEW store \in {disk, memory[s]},
           j \in DOMAIN store, store[j].running = "none"
    PROVE  /\ ~InBatch(tick[s], j) /\ ~InBatch(boot[s], j)
           /\ store[j].enabled => ~ByHand(manual, j)
  BY DEF OneClaim, MarkedIn, GuardedIn

-----------------------------------------------------------------------------
(* The steps.                                                              *)

\* What a step does to the claims on a job: none is new, and one that goes on is respected.
Stays(s, j) ==
    /\ InBatch(tick'[s], j) => InBatch(tick[s], j)
    /\ InBatch(boot'[s], j) => InBatch(boot[s], j)
    /\ Fewer(j)
    /\ InBatch(tick'[s], j) \/ InBatch(boot'[s], j) \/ ByHand(manual', j) =>
           Kept(s, disk', j) /\ Kept(s, memory'[s], j)

LEMMA NoNewClaims ==
    ASSUME Alone, OInv, NEW s \in Services, boot[s].at # "clear", Phase(s)', Unused(s)',
           fresh' \subseteq fresh, excused \subseteq excused',
           \A j \in Jobs \ excused' : OneClaim(s, j) => Stays(s, j)
    PROVE  OInv'
<1>1. ASSUME NEW j \in Jobs \ excused'
      PROVE  OneClaim(s, j)'
  <2>1. OneClaim(s, j) /\ Stays(s, j)
    BY DEF OInv
  <2> QED
    BY <2>1, ClaimStays DEF Stays
<1> QED
  BY <1>1, OInvNext

\* A store of the next state that has no job of its own.
LEMMA UnusedKept ==
    ASSUME OInv, NEW s \in Services, boot[s].at # "clear", fresh' \subseteq fresh,
           DOMAIN disk' \subseteq DOMAIN disk \cup DOMAIN memory[s],
           DOMAIN memory'[s] \subseteq DOMAIN disk \cup DOMAIN memory[s]
    PROVE  Unused(s)'
  BY DEF OInv, Unused

LEMMA KeptSelf == ASSUME NEW s, NEW j PROVE Kept(s, disk, j) /\ Kept(s, memory[s], j)
  BY DEF Kept, Keeps

\* A section that persists a store, and leaves the batches and the manual runs alone.
LEMMA PersistStays ==
    ASSUME Alone, IInv, OInv, NEW s \in Services, boot[s].at # "clear", NEW store,
           Persist(s, store), UNCHANGED <<boot, tick, manual>>,
           fresh' \subseteq fresh, excused \subseteq excused', Unused(s)',
           \A j \in Jobs \ excused' : OneClaim(s, j) =>
               \/ Kept(s, store, j)
               \/ ~(InBatch(tick[s], j) \/ InBatch(boot[s], j) \/ ByHand(manual, j))
    PROVE  OInv'
<1>1. disk' = store /\ memory'[s] = store
  BY DEF Persist, IInv, Shapes
<1>2. Phase(s)'
  <2>1. Phase(s)
    BY DEF OInv
  <2> QED
    BY <2>1 DEF Phase, Empty
<1>3. ASSUME NEW j \in Jobs \ excused', OneClaim(s, j)
      PROVE  Stays(s, j)
  BY <1>1, <1>3, SameHold DEF Stays
<1> QED
  BY <1>2, <1>3, NoNewClaims

\* One that leaves the stores alone as well.
LEMMA StoresStay ==
    ASSUME Alone, OInv, NEW s \in Services, boot[s].at # "clear", UNCHANGED <<disk, memory>>,
           UNCHANGED <<fresh, excused>>, Phase(s)',
           \A j \in Jobs \ excused :
               /\ InBatch(tick'[s], j) => InBatch(tick[s], j)
               /\ InBatch(boot'[s], j) => InBatch(boot[s], j)
               /\ Fewer(j)
    PROVE  OInv'
<1>1. Unused(s)'
  BY UnusedKept
<1>2. ASSUME NEW j \in Jobs \ excused'
      PROVE  Stays(s, j)
  BY <1>2, KeptSelf DEF Stays
<1> QED
  BY <1>1, <1>2, NoNewClaims

-----------------------------------------------------------------------------
(* start() *)

LEMMA StartClearOnce ==
    ASSUME Alone, IInv, OInv, NEW s \in Services, StartClear(s)
    PROVE  OInv'
<1>1. /\ boot[s].at = "clear" /\ UNCHANGED <<tick, manual, fresh, excused>>
      /\ disk' = memory'[s] /\ DOMAIN disk' = DOMAIN disk
  BY DEF StartClear, Persist, IInv, Shapes
<1>2. /\ boot'[s].at = "plan" /\ boot'[s].todo = boot[s].todo
      /\ boot'[s].active = boot[s].active /\ boot'[s].done = boot[s].done
  BY DEF StartClear, IInv, Shapes, BatchOK
<1>3. Empty(tick[s]) /\ Empty(boot[s]) /\ Phase(s)
  BY <1>1 DEF OInv, Phase, IInv, Asleep
<1>4. Phase(s)' /\ Empty(boot'[s])
  BY <1>1, <1>2, <1>3 DEF Phase, Empty
<1>5. Unused(s)'
  BY <1>1 DEF OInv, Unused
<1>6. ASSUME NEW j \in Jobs
      PROVE  OneClaim(s, j)'
  <2>1. ~InBatch(tick'[s], j) /\ ~InBatch(boot'[s], j)
    BY <1>1, <1>3, <1>4, EmptyHasNone
  <2>2. ~ByHand(manual', j)
    BY <1>1 DEF ByHand, Holds, IInv, ManualsOK, ManualOK, Alone
  <2> QED
    BY <2>1, <2>2, NoneHolds DEF OneClaim
<1> QED
  BY <1>4, <1>5, <1>6, OInvNext

LEMMA OrderOf ==
    ASSUME NEW S \in SUBSET Jobs, NEW q \in SetToSeqs(S)
    PROVE  q \in Seq(Jobs) /\ Set(q) \subseteq S /\ (S = {} => q = <<>>)
<1>1. IsFiniteSet(S) /\ Cardinality(S) \in Nat
  BY CronJobsAssumption, FS_Subset, FS_CardinalityType
<1>2. q \in [1..Cardinality(S) -> S]
  BY DEF SetToSeqs
<1>3. q \in Seq(S) /\ Len(q) = Cardinality(S)
  BY <1>1, <1>2
<1>4. S = {} => Len(q) = 0
  BY <1>3, FS_EmptySet
<1>5. \A i \in 1..Len(q) : q[i] \in S
  BY <1>3
<1>6. q \in Seq(Jobs)
  BY <1>3
<1> QED
  BY <1>4, <1>5, <1>6 DEF Set

\* planStartupCatchup marks the jobs it takes; they were nobody's.
LEMMA StartPlanOnce ==
    ASSUME Alone, IInv, OInv, NEW s \in Services, StartPlan(s)
    PROVE  OInv'
<1> DEFINE store  == memory[s]
           missed == {j \in DOMAIN store \ boot[s].skip : IsMissed(j, store[j], now)}
<1>1. boot[s].at = "plan" /\ UNCHANGED <<now, timer, tick, manual, fresh, events, cut, excused>>
  BY DEF StartPlan
<1>2. Good(store) /\ missed \subseteq Jobs
  BY <1>1 DEF IInv, Stores, Good
<1>3. PICK sorted, n, todo, rest, a :
        /\ sorted \in SetToSeqs(missed) /\ n \in 0..Len(sorted)
        /\ todo = SubSeq(sorted, 1, n) /\ (a = "run" \/ (missed = {} /\ a = "arm"))
        /\ IF missed = {} THEN UNCHANGED <<memory, disk>> ELSE Persist(s, Marked(store, Set(todo)))
        /\ boot' = [boot EXCEPT ![s] = [Off EXCEPT !.at = a, !.todo = todo, !.deferred = rest]]
  <2>1. PICK sorted \in SetToSeqs(missed) :
          LET todo == SubSeq(sorted, 1, IF Len(sorted) < MaxImmediate THEN Len(sorted) ELSE MaxImmediate)
          IN  /\ IF missed = {} THEN UNCHANGED <<memory, disk>>
                 ELSE Persist(s, Marked(store, Set(todo)))
              /\ boot' = [boot EXCEPT ![s] =
                    [Off EXCEPT !.at = IF missed = {} THEN "arm" ELSE "run", !.todo = todo,
                                !.deferred = SubSeq(sorted, Len(todo) + 1, Len(sorted))]]
    BY DEF StartPlan
  <2> DEFINE n == IF Len(sorted) < MaxImmediate THEN Len(sorted) ELSE MaxImmediate
             todo == SubSeq(sorted, 1, n)
             rest == SubSeq(sorted, Len(todo) + 1, Len(sorted))
             a == IF missed = {} THEN "arm" ELSE "run"
  <2>2. sorted \in Seq(Jobs)
    BY <1>2, OrderOf
  <2>3. n \in 0..Len(sorted)
    BY <2>2, CronJobsAssumption
  <2>4. /\ IF missed = {} THEN UNCHANGED <<memory, disk>> ELSE Persist(s, Marked(store, Set(todo)))
        /\ boot' = [boot EXCEPT ![s] = [Off EXCEPT !.at = a, !.todo = todo, !.deferred = rest]]
    BY <2>1
  <2>5. a = "run" \/ (missed = {} /\ a = "arm")
    OBVIOUS
  <2> HIDE DEF n, todo, rest, a, missed
  <2> QED
    BY <2>3, <2>4, <2>5 DEF todo
<1>4. sorted \in Seq(Jobs) /\ Set(sorted) \subseteq missed /\ (missed = {} => sorted = <<>>)
  BY <1>2, <1>3, OrderOf
<1>5. /\ todo \in Seq(Jobs) /\ Set(todo) \subseteq missed /\ (missed = {} => todo = <<>>)
  BY <1>3, <1>4 DEF Set
<1>6. /\ boot'[s].at = a /\ boot'[s].todo = todo
      /\ DOMAIN boot'[s].active = {} /\ DOMAIN boot'[s].done = {}
  BY <1>3 DEF Off, NoRuns, IInv, Shapes
<1> HIDE DEF missed
<1>7. Phase(s)'
  <2>1. Phase(s)
    BY DEF OInv
  <2> QED
    BY <1>1, <1>3, <1>5, <1>6, <2>1 DEF Phase, Empty
<1>8. Unused(s)'
  <2>1. DOMAIN disk' \subseteq DOMAIN disk \cup DOMAIN store /\ DOMAIN memory'[s] \subseteq DOMAIN disk \cup DOMAIN store
    BY <1>3 DEF Persist, Marked, IInv, Shapes
  <2> QED
    BY <1>1, <2>1, UnusedKept
<1>9. \A j : Kept(s, disk', j) /\ Kept(s, memory'[s], j)
  <2>1. CASE missed = {}
    BY <1>3, <2>1, KeptSelf
  <2>2. CASE missed # {}
    <3>1. disk' = Marked(store, Set(todo)) /\ memory'[s] = Marked(store, Set(todo))
      BY <1>3, <2>2 DEF Persist, IInv, Shapes
    <3> QED
      BY <1>2, <3>1, MarkedKeeps DEF Kept
  <2> QED
    BY <2>1, <2>2
<1>10. ASSUME NEW j \in Jobs \ excused
       PROVE  OneClaim(s, j)'
  <2>1. OneClaim(s, j) /\ Phase(s) /\ Unused(s)
    BY <1>1 DEF OInv
  <2>2. ~InBatch(boot[s], j)
    BY <1>1, <2>1, EmptyHasNone DEF Phase
  <2>3. CASE j \in Set(todo)
    <3>1. j \in missed /\ missed # {}
      BY <1>5, <2>3
    <3>2. j \in DOMAIN store /\ store[j].enabled /\ store[j].running = "none"
      BY <3>1 DEF missed, IsMissed
    <3>3. ~InBatch(tick[s], j) /\ ~ByHand(manual, j)
      BY <2>1, <3>2, RunnableIsFree
    <3>4. ~InBatch(tick'[s], j) /\ ~ByHand(manual', j)
      BY <1>1, <3>3
    <3>5. MarkedIn(disk', j) /\ MarkedIn(memory'[s], j)
      <4>1. disk' = Marked(store, Set(todo)) /\ memory'[s] = Marked(store, Set(todo))
        BY <1>3, <3>1 DEF Persist, IInv, Shapes
      <4>2. store[j] \in JobState
        BY <1>2, <3>2 DEF Good, Sound
      <4> QED
        BY <2>3, <3>2, <4>1, <4>2 DEF MarkedIn, Marked, JobState
    <3>6. j \notin fresh'
      BY <1>1, <2>1, <3>2 DEF Unused
    <3> QED
      BY <3>4, <3>5, <3>6, NoneHolds DEF OneClaim
  <2>4. CASE j \notin Set(todo)
    <3>1. ~InBatch(boot'[s], j)
      BY <1>6, <2>4 DEF InBatch
    <3> QED
      BY <1>1, <1>9, <2>1, <3>1, SameHold, ClaimStays
  <2> QED
    BY <2>3, <2>4
<1> QED
  BY <1>1, <1>7, <1>8, <1>10, OInvNext

LEMMA StartRunOnce ==
    ASSUME Alone, IInv, OInv, NEW s \in Services, StartRun(s)
    PROVE  OInv'
<1> DEFINE b == Begin(boot[s], Head(boot[s].todo))
<1>1. /\ boot[s].at = "run" /\ boot[s].todo # <<>>
      /\ UNCHANGED <<disk, memory, tick, manual, fresh, excused>>
  BY DEF StartRun
<1>2. BatchOK(boot[s]) /\ Phase(s) /\ boot'[s] = b /\ b.at = boot[s].at
  BY DEF StartRun, IInv, Shapes, OInv, Begin, BatchOK
<1>3. b.todo \in Seq(Jobs) /\ \A j : InBatch(b, j) => InBatch(boot[s], j)
  BY <1>1, <1>2, BeginClaims DEF Phase
<1> HIDE DEF b
<1>4. Phase(s)'
  BY <1>1, <1>2, <1>3 DEF Phase, Empty
<1> QED
  BY <1>1, <1>2, <1>3, <1>4, StoresStay, SameHold

LEMMA StartRunEndsOnce ==
    ASSUME Alone, IInv, OInv, NEW s \in Services, NEW res \in Results, StartRunEnds(s, res)
    PROVE  OInv'
<1>1. PICK k \in DOMAIN boot[s].active : boot' = [boot EXCEPT ![s] = End(boot[s], k, res)]
  BY DEF StartRunEnds
<1> DEFINE b == End(boot[s], k, res)
<1>2. boot[s].at = "run" /\ UNCHANGED <<disk, memory, tick, manual, fresh, excused>>
  BY DEF StartRunEnds
<1>3. BatchOK(boot[s]) /\ Phase(s) /\ boot'[s] = b /\ b.at = boot[s].at
  BY <1>1 DEF IInv, Shapes, OInv, End, BatchOK
<1>4. b.todo = boot[s].todo /\ \A j : InBatch(b, j) => InBatch(boot[s], j)
  BY <1>3, EndClaims
<1> HIDE DEF b
<1>5. Phase(s)'
  BY <1>2, <1>3, <1>4 DEF Phase, Empty
<1> QED
  BY <1>2, <1>3, <1>4, <1>5, StoresStay, SameHold

\* The outcomes are applied to the reloaded file: jobs that others have are not among them.
LEMMA StartOutcomesOnce ==
    ASSUME Alone, IInv, OInv, NEW s \in Services, StartOutcomes(s)
    PROVE  OInv'
<1> DEFINE applied   == ApplyOutcomes(disk, boot[s].done)
           deferred  == SelectSeq(boot[s].deferred,
                                  LAMBDA j : j \in DOMAIN applied /\ applied[j].enabled)
           later(j)  == now + (CHOOSE i \in 1..Len(deferred) : deferred[i] = j)
           staggered == [j \in DOMAIN applied |->
               IF j \in Set(deferred) THEN [applied[j] EXCEPT !.next = later(j)] ELSE applied[j]]
           store     == Maintain(staggered, now, FALSE)
<1>1. /\ boot[s].at = "run" /\ UNCHANGED <<tick, manual, fresh, excused>>
      /\ boot' = [boot EXCEPT ![s] = [Off EXCEPT !.at = "arm"]]
      /\ Persist(s, store)
  BY DEF StartOutcomes
<1>2. now \in Nat /\ Good(disk) /\ disk' = store /\ memory'[s] = store
  BY <1>1 DEF IInv, Shapes, Stores, Persist
<1>3. Good(applied) /\ DOMAIN applied \subseteq DOMAIN disk
  BY OutcomesAreGood DEF IInv, Shapes, Stores, BatchOK, ApplyOutcomes
<1>4. \A j : j \notin DOMAIN boot[s].done => Keeps(disk, applied, j)
  BY OutcomesKeep
<1> HIDE DEF applied, deferred
<1>5. Good(staggered)
  BY <1>2, <1>3, StaggeredIsGood
<1>6. \A j : Keeps(applied, staggered, j)
  <2> SUFFICES ASSUME NEW j \in DOMAIN applied PROVE Keeps(applied, staggered, j)
    BY DEF Keeps
  <2> DEFINE n == later(j)
  <2>1. staggered[j] \in {applied[j], [applied[j] EXCEPT !.next = n]}
    OBVIOUS
  <2> HIDE DEF n, staggered
  <2>2. applied[j] \in JobState
    BY <1>3 DEF Good, Sound
  <2> QED
    BY <2>1, <2>2 DEF Keeps, JobState
<1>7. DOMAIN staggered \subseteq DOMAIN disk
  BY <1>3
<1> HIDE DEF staggered
<1>8. \A j : Keeps(staggered, store, j)
  BY <1>2, <1>5, RepairsKeep
<1>9. DOMAIN store \subseteq DOMAIN disk
  BY <1>7 DEF Maintain
<1> HIDE DEF store
<1>10. \A j : j \notin DOMAIN boot[s].done => Keeps(disk, store, j)
  BY <1>4, <1>6, <1>8, KeepsTrans
<1>11. Empty(boot'[s]) /\ boot'[s].at = "arm" /\ boot'[s].todo \in Seq(Jobs)
  BY <1>1 DEF Off, NoRuns, Empty, IInv, Shapes
<1>12. Phase(s)'
  BY <1>1, <1>11 DEF Phase, Empty, OInv
<1>13. Unused(s)'
  BY <1>1, <1>2, <1>9, UnusedKept
<1>14. ASSUME NEW j \in Jobs \ excused', OneClaim(s, j)
       PROVE  Stays(s, j)
  <2>1. ~InBatch(boot'[s], j)
    BY <1>11, EmptyHasNone
  <2>2. InBatch(tick[s], j) \/ ByHand(manual, j) => j \notin DOMAIN boot[s].done
    BY <1>14 DEF OneClaim, InBatch
  <2> QED
    BY <1>1, <1>2, <1>10, <2>1, <2>2, SameHold DEF Stays, Kept
<1> QED
  BY <1>1, <1>12, <1>13, <1>14, NoNewClaims

LEMMA StartArmOnce ==
    ASSUME Alone, IInv, OInv, NEW s \in Services, StartArm(s)
    PROVE  OInv'
<1> DEFINE store == Recompute(disk, now)
<1>1. /\ boot[s].at = "arm" /\ UNCHANGED <<tick, manual, fresh, excused>>
      /\ Persist(s, store)
  BY DEF StartArm
<1>2. /\ boot'[s].at = "up" /\ boot'[s].todo = boot[s].todo
      /\ boot'[s].active = boot[s].active /\ boot'[s].done = boot[s].done
  BY DEF StartArm, IInv, Shapes, BatchOK
<1>3. disk' = store /\ memory'[s] = store /\ now \in Nat /\ Good(disk)
  BY <1>1 DEF IInv, Shapes, Stores, Persist
<1>4. DOMAIN store = DOMAIN disk
  BY DEF Recompute
<1>5. \A j : Keeps(disk, store, j)
  BY <1>3, RepairsKeep
<1> HIDE DEF store
<1>6. Unused(s)'
  BY <1>1, <1>3, <1>4, UnusedKept
<1>7. Phase(s)'
  BY <1>1, <1>2 DEF Phase, Empty, OInv
<1>8. ASSUME NEW j
      PROVE  Stays(s, j)
  BY <1>1, <1>2, <1>3, <1>5, SameHold DEF Stays, Kept, InBatch
<1> QED
  BY <1>1, <1>6, <1>7, <1>8, NoNewClaims

-----------------------------------------------------------------------------
(* onTimer() *)

LEMMA TimerFiresOnce ==
    ASSUME Alone, IInv, OInv, NEW s \in Services, TimerFires(s)
    PROVE  OInv'
<1>1. /\ tick[s].at = "idle" /\ boot[s].at # "clear"
      /\ UNCHANGED <<disk, memory, boot, manual, fresh, excused>>
  BY DEF TimerFires, IInv, Asleep
<1>2. /\ tick'[s].at = "collect" /\ tick'[s].todo = tick[s].todo
      /\ tick'[s].active = tick[s].active /\ tick'[s].done = tick[s].done
  BY DEF TimerFires, IInv, Shapes, BatchOK
<1>3. Phase(s)'
  BY <1>1, <1>2 DEF Phase, Empty, OInv
<1> QED
  BY <1>1, <1>2, <1>3, StoresStay, SameHold DEF InBatch

\* The first section of a tick marks the jobs it takes; they were nobody's.
LEMMA CollectOnce ==
    ASSUME Alone, IInv, OInv, NEW s \in Services, Collect(s)
    PROVE  OInv'
<1> DEFINE due   == {j \in DOMAIN disk : IsRunnable(j, disk[j], now)}
           store == IF due = {} THEN Maintain(disk, now, TRUE) ELSE Marked(disk, due)
<1>1. /\ tick[s].at = "collect" /\ boot[s].at # "clear"
      /\ UNCHANGED <<now, timer, boot, manual, fresh, events, cut, excused>>
      /\ Persist(s, store)
  BY DEF Collect, IInv, Asleep
<1>2. now \in Nat /\ Good(disk) /\ due \subseteq Jobs /\ disk' = store /\ memory'[s] = store
  BY <1>1 DEF IInv, Shapes, Stores, Good, Persist
<1>3. PICK todo \in SetToSeqs(due) :
        tick' = [tick EXCEPT ![s].at = IF due = {} THEN "end" ELSE "run", ![s].todo = todo]
  BY DEF Collect
<1>4. todo \in Seq(Jobs) /\ Set(todo) \subseteq due /\ (due = {} => todo = <<>>)
  BY <1>2, OrderOf
<1>5. /\ tick'[s].at = (IF due = {} THEN "end" ELSE "run") /\ tick'[s].todo = todo
      /\ tick'[s].active = tick[s].active /\ tick'[s].done = tick[s].done
  BY <1>3 DEF IInv, Shapes, BatchOK
<1>6. \A j \in due : /\ disk[j] \in JobState /\ store[j] = [disk[j] EXCEPT !.running = "recent"]
                     /\ disk[j].enabled /\ disk[j].running = "none" /\ j \in DOMAIN disk
  BY <1>2 DEF Marked, IsRunnable, Good, Sound
<1>7. \A j : Keeps(disk, store, j)
  <2>1. \A j : Keeps(disk, Maintain(disk, now, TRUE), j) /\ Keeps(disk, Marked(disk, due), j)
    BY <1>2, RepairsKeep, MarkedKeeps
  <2> QED
    BY <2>1
<1>8. DOMAIN store = DOMAIN disk
  BY DEF Maintain, Marked
<1> HIDE DEF due, store
<1>9. Phase(s) /\ Empty(tick[s]) /\ Unused(s)
  BY <1>1 DEF OInv, Phase
<1>10. Phase(s)'
  BY <1>1, <1>4, <1>5, <1>9 DEF Phase, Empty
<1>11. Unused(s)'
  BY <1>1, <1>2, <1>8, UnusedKept
<1>12. ASSUME NEW j \in Jobs \ excused
       PROVE  OneClaim(s, j)'
  <2>1. OneClaim(s, j) /\ ~InBatch(tick[s], j)
    BY <1>1, <1>9, EmptyHasNone DEF OInv
  <2>2. CASE j \in Set(todo)
    <3>1. j \in due
      BY <1>4, <2>2
    <3>2. ~InBatch(boot[s], j) /\ ~ByHand(manual, j)
      BY <1>6, <2>1, <3>1, RunnableIsFree
    <3>3. MarkedIn(disk', j) /\ MarkedIn(memory'[s], j)
      <4>1. disk[j] \in JobState /\ store[j] = [disk[j] EXCEPT !.running = "recent"]
            /\ disk[j].enabled
        BY <1>6, <3>1
      <4>2. store[j].enabled /\ store[j].running = "recent"
        BY <4>1 DEF JobState
      <4> QED
        BY <1>2, <4>2 DEF MarkedIn
    <3>4. j \notin fresh'
      BY <1>1, <1>6, <1>9, <3>1 DEF Unused
    <3>5. ~InBatch(boot'[s], j) /\ ~ByHand(manual', j)
      BY <1>1, <3>2
    <3> QED
      BY <3>3, <3>4, <3>5, NoneHolds DEF OneClaim
  <2>3. CASE j \notin Set(todo)
    <3>1. ~InBatch(tick'[s], j)
      BY <1>5, <1>9, <2>3 DEF InBatch, Empty
    <3>2. Kept(s, disk', j) /\ Kept(s, memory'[s], j)
      BY <1>2, <1>7 DEF Kept
    <3> QED
      BY <1>1, <2>1, <3>1, <3>2, SameHold, ClaimStays
  <2> QED
    BY <2>2, <2>3
<1> QED
  BY <1>1, <1>10, <1>11, <1>12, OInvNext

LEMMA RunDueJobOnce ==
    ASSUME Alone, IInv, OInv, NEW s \in Services, RunDueJob(s)
    PROVE  OInv'
<1> DEFINE h == Head(tick[s].todo)
           b == Begin(tick[s], h)
<1>1. /\ tick[s].at = "run" /\ tick[s].todo # <<>> /\ boot[s].at # "clear"
      /\ UNCHANGED <<disk, boot, manual, fresh, excused>>
      /\ memory' \in {memory, [memory EXCEPT ![s] = Marked(memory[s], {h})]}
  BY DEF RunDueJob, IInv, Asleep
<1>2. BatchOK(tick[s]) /\ Phase(s) /\ tick'[s] = b /\ b.at = tick[s].at
  BY DEF RunDueJob, IInv, Shapes, OInv, Begin, BatchOK
<1>3. b.todo \in Seq(Jobs) /\ \A j : InBatch(b, j) => InBatch(tick[s], j)
  BY <1>1, <1>2, BeginClaims DEF Phase
<1>4. Good(memory[s]) /\ memory'[s] \in {memory[s], Marked(memory[s], {h})}
  BY <1>1 DEF IInv, Shapes, Stores
<1>5. \A j : Keeps(memory[s], memory'[s], j)
  BY <1>4, KeepsSelf, MarkedKeeps
<1>6. DOMAIN memory'[s] = DOMAIN memory[s]
  BY <1>4 DEF Marked
<1> HIDE DEF h, b
<1>7. Phase(s)'
  BY <1>1, <1>2, <1>3 DEF Phase, Empty
<1>8. Unused(s)'
  BY <1>1, <1>6, UnusedKept
<1>9. ASSUME NEW j
      PROVE  Stays(s, j)
  BY <1>1, <1>2, <1>3, <1>5, KeepsSelf, SameHold DEF Stays, Kept
<1> QED
  BY <1>1, <1>7, <1>8, <1>9, NoNewClaims

LEMMA DueJobEndsOnce ==
    ASSUME Alone, IInv, OInv, NEW s \in Services, NEW k, NEW res \in Results, DueJobEnds(s, k, res)
    PROVE  OInv'
<1> DEFINE b == End(tick[s], k, res)
<1>1. /\ tick[s].at = "run" /\ k \in DOMAIN tick[s].active /\ boot[s].at # "clear"
      /\ UNCHANGED <<disk, memory, boot, manual, fresh, excused>>
  BY DEF DueJobEnds, IInv, Asleep
<1>2. BatchOK(tick[s]) /\ Phase(s) /\ tick'[s] = b /\ b.at = tick[s].at
  BY DEF DueJobEnds, IInv, Shapes, OInv, End, BatchOK
<1>3. b.todo = tick[s].todo /\ \A j : InBatch(b, j) => InBatch(tick[s], j)
  BY <1>1, <1>2, EndClaims
<1> HIDE DEF b
<1>4. Phase(s)'
  BY <1>1, <1>2, <1>3 DEF Phase, Empty
<1> QED
  BY <1>1, <1>2, <1>3, <1>4, StoresStay, SameHold

LEMMA FinishOnce ==
    ASSUME Alone, IInv, OInv, NEW s \in Services, Finish(s)
    PROVE  OInv'
<1> DEFINE applied == ApplyOutcomes(disk, tick[s].done)
           store   == Maintain(applied, now, FALSE)
<1>1. /\ tick[s].at = "run" /\ boot[s].at # "clear" /\ UNCHANGED <<boot, manual, fresh, excused>>
      /\ tick' = [tick EXCEPT ![s] = [Idle EXCEPT !.at = "end"]]
      /\ Persist(s, store)
  BY DEF Finish, IInv, Asleep
<1>2. now \in Nat /\ Good(disk) /\ disk' = store /\ memory'[s] = store
  BY <1>1 DEF IInv, Shapes, Stores, Persist
<1>3. Good(applied) /\ DOMAIN applied \subseteq DOMAIN disk
  BY OutcomesAreGood DEF IInv, Shapes, Stores, BatchOK, ApplyOutcomes
<1>4. \A j : j \notin DOMAIN tick[s].done => Keeps(disk, applied, j)
  BY OutcomesKeep
<1> HIDE DEF applied
<1>5. \A j : Keeps(applied, store, j)
  BY <1>2, <1>3, RepairsKeep
<1>6. DOMAIN store \subseteq DOMAIN disk
  BY <1>3 DEF Maintain
<1> HIDE DEF store
<1>7. \A j : j \notin DOMAIN tick[s].done => Keeps(disk, store, j)
  BY <1>4, <1>5, KeepsTrans
<1>8. Empty(tick'[s]) /\ tick'[s].at = "end" /\ tick'[s].todo \in Seq(Jobs)
  BY <1>1 DEF Idle, NoRuns, Empty, IInv, Shapes
<1>9. Phase(s)'
  BY <1>1, <1>8 DEF Phase, Empty, OInv
<1>10. Unused(s)'
  BY <1>1, <1>2, <1>6, UnusedKept
<1>11. ASSUME NEW j \in Jobs \ excused', OneClaim(s, j)
       PROVE  Stays(s, j)
  <2>1. ~InBatch(tick'[s], j)
    BY <1>8, EmptyHasNone
  <2>2. InBatch(boot[s], j) \/ ByHand(manual, j) => j \notin DOMAIN tick[s].done
    BY <1>11 DEF OneClaim, InBatch
  <2> QED
    BY <1>1, <1>2, <1>7, <2>1, <2>2, SameHold DEF Stays, Kept
<1> QED
  BY <1>1, <1>9, <1>10, <1>11, NoNewClaims

LEMMA TickEndsOnce ==
    ASSUME Alone, IInv, OInv, NEW s \in Services, TickEnds(s)
    PROVE  OInv'
<1>1. /\ tick[s].at = "end" /\ boot[s].at # "clear"
      /\ UNCHANGED <<disk, memory, boot, manual, fresh, excused>>
      /\ tick' = [tick EXCEPT ![s] = Idle]
  BY DEF TickEnds, IInv, Asleep
<1>2. Empty(tick'[s]) /\ tick'[s].at = "idle" /\ tick'[s].todo \in Seq(Jobs)
  BY <1>1 DEF Idle, NoRuns, Empty, IInv, Shapes
<1>3. Phase(s)'
  BY <1>1, <1>2 DEF Phase, Empty, OInv
<1> QED
  BY <1>1, <1>2, <1>3, StoresStay, SameHold, EmptyHasNone

-----------------------------------------------------------------------------
(* Calls. *)

LEMMA AddOnce ==
    ASSUME Alone, IInv, OInv, NEW s \in Services, Callable(s), NEW j \in Jobs, Add(s, j)
    PROVE  OInv'
<1> DEFINE with  == Put(memory[s], j, NewJob(j, now))
           store == Recompute(with, now)
<1>1. /\ boot[s].at # "clear" /\ j \in fresh /\ fresh' = fresh \ {j}
      /\ UNCHANGED <<boot, tick, manual, excused>> /\ Persist(s, store)
  BY DEF Add, Callable
<1>2. now \in Nat /\ Good(memory[s]) /\ disk' = store /\ memory'[s] = store
  BY <1>1 DEF IInv, Shapes, Stores, Persist
<1>3. Good(with)
  BY <1>2, NewJobIsSound, PutIsGood
<1>4. \A k : Keeps(with, store, k)
  BY <1>2, <1>3, RepairsKeep
<1>5. \A k : k # j => Keeps(memory[s], with, k)
  BY DEF Keeps, Put
<1>6. DOMAIN store = DOMAIN memory[s] \cup {j}
  BY DEF Recompute, Put
<1> HIDE DEF with, store
<1>7. Unused(s)'
  BY <1>1, <1>2, <1>6 DEF OInv, Unused
<1>8. ASSUME NEW k \in Jobs \ excused', OneClaim(s, k)
      PROVE  \/ Kept(s, store, k)
             \/ ~(InBatch(tick[s], k) \/ InBatch(boot[s], k) \/ ByHand(manual, k))
  <2>1. CASE k = j
    BY <1>1, <1>8, <2>1 DEF OneClaim
  <2>2. CASE k # j
    BY <1>4, <1>5, <2>2, KeepsTrans DEF Kept
  <2> QED
    BY <2>1, <2>2
<1> QED
  BY <1>1, <1>7, <1>8, PersistStays

\* A patch of a job that is not excused leaves it enabled, or disabled, and its marker.
LEMMA UpdateOnce ==
    ASSUME Alone, IInv, OInv, NEW s \in Services, Callable(s), NEW j \in Jobs, NEW patch,
           Update(s, j, patch)
    PROVE  OInv'
<1> DEFINE on   == CASE patch = "enable" -> TRUE [] patch = "disable" -> FALSE
                     [] OTHER -> memory[s][j].enabled
           st   == [memory[s][j] EXCEPT !.enabled = on]
           anew == IF ~st.enabled THEN [st EXCEPT !.next = 0, !.running = "none"]
                   ELSE [st EXCEPT !.next = ComputeNext(j, st, now)]
           new  == IF patch = "edit" /\ (~st.enabled \/ st.next # 0) THEN st ELSE anew
           store == [memory[s] EXCEPT ![j] = new]
<1>1. /\ boot[s].at # "clear" /\ j \in DOMAIN memory[s] /\ Persist(s, store)
      /\ UNCHANGED <<boot, tick, manual, fresh>>
      /\ excused' = IF patch = "edit" THEN excused ELSE excused \cup {j}
  BY DEF Update, Callable
<1>2. Good(memory[s]) /\ disk' = store /\ memory'[s] = store
  BY <1>1 DEF IInv, Shapes, Stores, Persist
<1>3. DOMAIN store = DOMAIN memory[s]
  OBVIOUS
<1>4. \A k : k # j => Keeps(memory[s], store, k)
  BY DEF Keeps
<1>5. patch = "edit" => Keeps(memory[s], store, j)
  <2>1. memory[s][j] \in JobState
    BY <1>1, <1>2 DEF Good, Sound
  <2>2. store[j] = new
    BY <1>1
  <2> SUFFICES ASSUME patch = "edit"
               PROVE  /\ new.enabled = memory[s][j].enabled
                      /\ memory[s][j].enabled => new.running = memory[s][j].running
    BY <1>1, <2>2 DEF Keeps
  <2>3. on = memory[s][j].enabled
    OBVIOUS
  <2> HIDE DEF on
  <2>4. st \in JobState /\ st.enabled = on /\ st.running = memory[s][j].running
    BY <2>1, <2>3 DEF JobState
  <2> HIDE DEF st
  <2>5. /\ anew.enabled = st.enabled
        /\ st.enabled => anew.running = st.running
    BY <2>4 DEF JobState
  <2> QED
    BY <2>3, <2>4, <2>5
<1> HIDE DEF store
<1>6. Unused(s)'
  BY <1>1, <1>2, <1>3, UnusedKept
<1>7. \A k \in Jobs \ excused' : Kept(s, store, k)
  BY <1>1, <1>4, <1>5 DEF Kept
<1> QED
  BY <1>1, <1>6, <1>7, PersistStays

LEMMA RemoveJobOnce ==
    ASSUME Alone, IInv, OInv, NEW s \in Services, Callable(s), NEW j \in Jobs, RemoveJob(s, j)
    PROVE  OInv'
<1> DEFINE store == [k \in DOMAIN memory[s] \ {j} |-> memory[s][k]]
<1>1. /\ boot[s].at # "clear" /\ Persist(s, store)
      /\ UNCHANGED <<boot, tick, manual, fresh, excused>>
  BY DEF RemoveJob, Callable
<1>2. disk' = store /\ memory'[s] = store
  BY <1>1 DEF IInv, Shapes, Persist
<1>3. \A k : Kept(s, store, k)
  BY DEF Kept, Keeps
<1>4. DOMAIN store \subseteq DOMAIN memory[s]
  OBVIOUS
<1> HIDE DEF store
<1>5. Unused(s)'
  BY <1>1, <1>2, <1>4, UnusedKept
<1> QED
  BY <1>1, <1>3, <1>5, PersistStays

LEMMA ListOnce ==
    ASSUME Alone, IInv, OInv, NEW s \in Services, Callable(s), List(s)
    PROVE  OInv'
<1> DEFINE store == Maintain(memory[s], now, FALSE)
<1>1. /\ boot[s].at # "clear" /\ Persist(s, store)
      /\ UNCHANGED <<boot, tick, manual, fresh, excused>>
  BY DEF List, Callable
<1>2. disk' = store /\ memory'[s] = store /\ now \in Nat /\ Good(memory[s])
  BY <1>1 DEF IInv, Shapes, Stores, Persist
<1>3. \A k : Kept(s, store, k)
  BY <1>2, RepairsKeep DEF Kept
<1>4. DOMAIN store \subseteq DOMAIN memory[s]
  BY DEF Maintain
<1> HIDE DEF store
<1>5. Unused(s)'
  BY <1>1, <1>2, <1>4, UnusedKept
<1> QED
  BY <1>1, <1>3, <1>5, PersistStays

-----------------------------------------------------------------------------
(* Manual runs. *)

LEMMA PreflightOnce ==
    ASSUME Alone, IInv, OInv, NEW s \in Services, boot[s].at # "clear", Preflight(s),
           UNCHANGED <<disk, boot, tick, fresh, excused>>,
           \A j : Fewer(j)
    PROVE  OInv'
<1> DEFINE store == Maintain(memory[s], now, FALSE)
<1>1. now \in Nat /\ Good(memory[s]) /\ memory'[s] = store
  BY DEF IInv, Shapes, Stores, Preflight
<1>2. \A j : Keeps(memory[s], store, j)
  BY <1>1, RepairsKeep
<1>3. DOMAIN store = DOMAIN memory[s]
  BY DEF Maintain
<1> HIDE DEF store
<1>4. Unused(s)'
  BY <1>1, <1>3, UnusedKept
<1>5. Phase(s)'
  BY DEF Phase, Empty, OInv
<1>6. ASSUME NEW j
      PROVE  Stays(s, j)
  BY <1>1, <1>2, KeepsSelf DEF Stays, Kept
<1> QED
  BY <1>4, <1>5, <1>6, NoNewClaims

LEMMA EnqueueRunOnce ==
    ASSUME Alone, IInv, OInv, NEW s \in Services, Callable(s), NEW c \in Manuals,
           NEW force \in BOOLEAN, EnqueueRun(s, c, force)
    PROVE  OInv'
<1> DEFINE m == [NoRun EXCEPT !.at = "queued", !.s = s, !.force = force]
<1>1. /\ boot[s].at # "clear" /\ Preflight(s) /\ manual' = [manual EXCEPT ![c] = m]
      /\ UNCHANGED <<disk, boot, tick, fresh, excused>>
  BY DEF EnqueueRun, Callable
<1>2. m.at = "queued"
  BY DEF NoRun
<1> HIDE DEF m
<1>3. \A k : Fewer(k)
  BY <1>1, <1>2 DEF Fewer, Holds, IInv, Shapes
<1> QED
  BY <1>1, <1>3, PreflightOnce

LEMMA ManualPreflightOnce ==
    ASSUME Alone, IInv, OInv, NEW c \in Manuals, ManualPreflight(c)
    PROVE  OInv'
<1>0. PICK s : s = manual[c].s
  OBVIOUS
<1> DEFINE m == [manual[c] EXCEPT !.at = "ready", !.run = now]
<1>1. /\ manual[c].at = "queued" /\ Preflight(s)
      /\ manual' = [manual EXCEPT ![c] = m] \/ manual' = [manual EXCEPT ![c] = NoRun]
      /\ UNCHANGED <<disk, boot, tick, fresh, excused>>
  BY <1>0 DEF ManualPreflight
<1>2. s \in Services /\ boot[s].at # "clear" /\ m.at = "ready" /\ NoRun.at = "none"
  BY <1>0, <1>1 DEF IInv, ManualsOK, ManualOK, NoRun
<1> HIDE DEF m
<1>3. \A k : Fewer(k)
  BY <1>1, <1>2 DEF Fewer, Holds, IInv, Shapes
<1> QED
  BY <1>1, <1>2, <1>3, PreflightOnce

\* The reservation checks the marker again: the job is no batch's.
LEMMA ReserveOnce ==
    ASSUME Alone, IInv, OInv, NEW c \in Manuals, Reserve(c)
    PROVE  OInv'
<1>0. PICK s, j : s = manual[c].s /\ j = JobOf[c]
  OBVIOUS
<1> DEFINE store == Marked(memory[s], {j})
           m == [manual[c] EXCEPT !.at = "run"]
<1>1. manual[c].at = "ready" /\ UNCHANGED <<now, timer, boot, tick, fresh, events, cut, excused>>
  BY <1>0 DEF Reserve
<1>2. s \in Services /\ boot[s].at # "clear" /\ j \in Jobs
  BY <1>0, <1>1, CronServiceAssumption DEF IInv, ManualsOK, ManualOK
<1>3. Phase(s)'
  BY <1>1, <1>2 DEF Phase, Empty, OInv
<1>4. CASE manual' = [manual EXCEPT ![c] = NoRun] /\ UNCHANGED <<disk, memory>>
  <2>1. \A k : Fewer(k)
    BY <1>4 DEF Fewer, Holds, IInv, Shapes, NoRun
  <2> QED
    BY <1>1, <1>2, <1>3, <1>4, <2>1, StoresStay
<1>5. CASE /\ j \in DOMAIN memory[s] /\ memory[s][j].running = "none"
           /\ Persist(s, store) /\ manual' = [manual EXCEPT ![c] = m]
  <2>1. disk' = store /\ memory'[s] = store /\ Good(memory[s])
    BY <1>2, <1>5 DEF Persist, IInv, Shapes, Stores
  <2>2. \A k : Keeps(memory[s], store, k)
    BY <2>1, MarkedKeeps
  <2>3. DOMAIN store = DOMAIN memory[s] /\ store[j].running = "recent"
    <3>1. memory[s][j] \in JobState
      BY <1>5, <2>1 DEF Good, Sound
    <3> QED
      BY <1>5, <3>1 DEF Marked, JobState
  <2> HIDE DEF store
  <2>4. Unused(s)'
    BY <1>1, <1>2, <2>1, <2>3, UnusedKept
  <2>5. \A k : k # j => Fewer(k)
    BY <1>0, <1>5 DEF Fewer, Holds, IInv, Shapes
  <2>6. ASSUME NEW k \in Jobs \ excused
        PROVE  OneClaim(s, k)'
    <3>1. OneClaim(s, k) /\ Unused(s)
      BY <1>2 DEF OInv
    <3>2. CASE k = j
      <4>1. ~InBatch(tick'[s], j) /\ ~InBatch(boot'[s], j)
        BY <1>1, <1>5, <3>1, <3>2, RunnableIsFree
      <4>2. GuardedIn(disk', j) /\ GuardedIn(memory'[s], j)
        BY <2>1, <2>3 DEF GuardedIn
      <4>3. j \notin fresh'
        BY <1>1, <1>2, <1>5, <3>1 DEF Unused
      <4>4. OneHand(manual', j) \/ (Dormant(disk', j) /\ Dormant(memory'[s], j))
        <5>1. CASE store[j].enabled
          <6>1. memory[s][j].enabled
            BY <1>5, <2>2, <2>3, <5>1 DEF Keeps
          <6>2. ~ByHand(manual, j)
            BY <1>5, <3>1, <3>2, <6>1, RunnableIsFree
          <6> QED
            BY <1>5, <6>2 DEF OneHand, ByHand, Holds, IInv, Shapes
        <5> QED
          BY <2>1, <5>1 DEF Dormant
      <4> QED
        BY <3>2, <4>1, <4>2, <4>3, <4>4 DEF OneClaim
    <3>3. CASE k # j
      BY <1>1, <2>1, <2>2, <2>5, <3>1, <3>3, ClaimStays DEF Kept
    <3> QED
      BY <3>2, <3>3
  <2> QED
    BY <1>1, <1>2, <1>3, <2>4, <2>6, OInvNext
<1> QED
  BY <1>0, <1>4, <1>5 DEF Reserve

LEMMA ManualEndsOnce ==
    ASSUME Alone, IInv, OInv, NEW c \in Manuals, NEW res \in Results, ManualEnds(c, res)
    PROVE  OInv'
<1>0. PICK s : s = manual[c].s
  OBVIOUS
<1> DEFINE m == [manual[c] EXCEPT !.at = "finish",
                     !.run = [result |-> res, started |-> manual[c].run, ended |-> now]]
<1>1. /\ manual[c].at = "run" /\ manual' = [manual EXCEPT ![c] = m]
      /\ UNCHANGED <<disk, memory, boot, tick, fresh, excused>>
  BY <1>0 DEF ManualEnds
<1>2. s \in Services /\ boot[s].at # "clear"
  BY <1>0, <1>1 DEF IInv, ManualsOK, ManualOK
<1> HIDE DEF m
<1>3. \A k : Fewer(k)
  BY <1>1 DEF Fewer, Holds, IInv, Shapes
<1>4. Phase(s)'
  BY <1>1, <1>2 DEF Phase, Empty, OInv
<1> QED
  BY <1>1, <1>2, <1>3, <1>4, StoresStay

\* The run by hand is over; the jobs of others keep what the file says of them.
LEMMA FinishManualOnce ==
    ASSUME Alone, IInv, OInv, NEW c \in Manuals, FinishManual(c)
    PROVE  OInv'
<1>0. PICK s, j : s = manual[c].s /\ j = JobOf[c]
  OBVIOUS
<1> DEFINE run    == manual[c].run
           mine   == Applied(j, memory[s][j], run, manual[c].force)
           merged == IF Deletes(j, run.result) THEN [k \in DOMAIN disk \ {j} |-> disk[k]]
                     ELSE [k \in DOMAIN disk |-> IF k = j THEN mine ELSE disk[k]]
           store  == Maintain(merged, now, TRUE)
<1>1. /\ manual[c].at = "finish" /\ manual' = [manual EXCEPT ![c] = NoRun]
      /\ UNCHANGED <<boot, tick, fresh, excused>>
      /\ IF j \in DOMAIN memory[s] THEN Persist(s, store) ELSE UNCHANGED <<disk, memory>>
  BY <1>0 DEF FinishManual
<1>2. s \in Services /\ boot[s].at # "clear" /\ j \in Jobs
  BY <1>0, <1>1, CronServiceAssumption DEF IInv, ManualsOK, ManualOK
<1>3. \A k : Fewer(k)
  BY <1>1 DEF Fewer, Holds, IInv, Shapes, NoRun
<1>4. Phase(s)'
  BY <1>1, <1>2 DEF Phase, Empty, OInv
<1>5. CASE UNCHANGED <<disk, memory>>
  BY <1>1, <1>2, <1>3, <1>4, <1>5, StoresStay
<1>6. CASE j \in DOMAIN memory[s] /\ Persist(s, store)
  <2>1. now \in Nat /\ Good(disk) /\ Good(memory[s]) /\ disk' = store /\ memory'[s] = store
    BY <1>2, <1>6 DEF Persist, IInv, Shapes, Stores
  <2>2. Good(merged)
    <3>1. Sound(j, mine)
      <4>1. memory[s][j] \in JobState
        BY <1>6, <2>1 DEF Good, Sound
      <4>2. run \in RunType /\ manual[c].force \in BOOLEAN
        BY <1>1 DEF IInv, ManualsOK, ManualOK
      <4> QED
        BY <1>2, <4>1, <4>2, AppliedIsSound
    <3> HIDE DEF mine
    <3> QED
      BY <2>1, <3>1 DEF Good
  <2>3. \A k : k # j \/ (Dormant(disk, j) /\ Dormant(memory[s], j)) => Keeps(disk, merged, k)
    <3>1. ASSUME Dormant(memory[s], j) PROVE mine.enabled = FALSE
      <4>1. memory[s][j] \in JobState /\ ~memory[s][j].enabled
        BY <1>6, <2>1, <3>1 DEF Good, Sound, Dormant
      <4> QED
        BY <4>1, RestStays
    <3> HIDE DEF mine
    <3>2. DOMAIN merged \subseteq DOMAIN disk
      OBVIOUS
    <3>3. ASSUME NEW k \in DOMAIN merged
          PROVE  merged[k] = IF k = j THEN mine ELSE disk[k]
      OBVIOUS
    <3> HIDE DEF merged
    <3>4. ASSUME j \in DOMAIN disk, Dormant(disk, j) PROVE disk[j].enabled = FALSE
      BY <2>1, <3>4 DEF Good, Sound, JobState, Dormant
    <3>5. ASSUME NEW k, k # j PROVE Keeps(disk, merged, k)
      BY <3>2, <3>3, <3>5 DEF Keeps
    <3>6. ASSUME Dormant(disk, j), Dormant(memory[s], j) PROVE Keeps(disk, merged, j)
      <4>1. j \in DOMAIN merged => disk[j].enabled = FALSE /\ merged[j].enabled = FALSE
        BY <3>1, <3>2, <3>3, <3>4, <3>6
      <4> QED
        BY <3>2, <4>1 DEF Keeps
    <3> QED
      BY <3>5, <3>6
  <2>4. DOMAIN merged \subseteq DOMAIN disk
    OBVIOUS
  <2> HIDE DEF merged
  <2>5. \A k : Keeps(merged, store, k)
    BY <2>1, <2>2, RepairsKeep
  <2>6. DOMAIN store \subseteq DOMAIN disk
    BY <2>4 DEF Maintain
  <2> HIDE DEF store
  <2>7. \A k : k # j \/ (Dormant(disk, j) /\ Dormant(memory[s], j)) => Keeps(disk, store, k)
    BY <2>3, <2>5, KeepsTrans
  <2>8. Unused(s)'
    BY <1>1, <1>2, <2>1, <2>6, UnusedKept
  <2>9. ASSUME NEW k \in Jobs \ excused', OneClaim(s, k)
        PROVE  Stays(s, k)
    <3>1. CASE k = j
      <4>1. Holds(manual, c, j) /\ ~Holds(manual', c, j)
        BY <1>0, <1>1 DEF Holds, NoRun, IInv, Shapes
      <4>2. ~InBatch(tick'[s], k) /\ ~InBatch(boot'[s], k)
        BY <1>1, <2>9, <3>1, <4>1 DEF OneClaim, ByHand
      <4>3. CASE ByHand(manual', j)
        <5>1. ~OneHand(manual, j)
          BY <1>3, <4>1, <4>3 DEF OneHand, ByHand, Fewer
        <5>2. Dormant(disk, j) /\ Dormant(memory[s], j)
          BY <2>9, <3>1, <5>1 DEF OneClaim
        <5> QED
          BY <1>3, <2>1, <2>7, <3>1, <4>2, <5>2 DEF Stays, Kept
      <4> QED
        BY <1>3, <3>1, <4>2, <4>3 DEF Stays
    <3>2. CASE k # j
      BY <1>1, <1>3, <2>1, <2>7, <3>2 DEF Stays, Kept
    <3> QED
      BY <3>1, <3>2
  <2> QED
    BY <1>1, <1>2, <1>4, <2>8, <2>9, NoNewClaims
<1> QED
  BY <1>1, <1>5, <1>6

-----------------------------------------------------------------------------
(* Time, crashes, and the theorem. *)

LEMMA AdvanceOnce ==
    ASSUME OInv, UNCHANGED <<disk, memory, boot, tick, manual, fresh, excused>>
    PROVE  OInv'
<1>1. ASSUME NEW s \in Services
      PROVE  (Phase(s) => Phase(s)') /\ (Unused(s) => Unused(s)')
  BY DEF Phase, Empty, Unused
<1>2. ASSUME NEW s \in Services, NEW j, OneClaim(s, j)
      PROVE  OneClaim(s, j)'
  BY <1>2 DEF OneClaim, MarkedIn, GuardedIn, Dormant
<1> QED
  BY <1>1, <1>2 DEF OInv

\* The marker of a job ages: whatever its run does from then on is excused.
LEMMA MarkerAgesOnce ==
    ASSUME Alone, IInv, OInv, NEW j \in Outlasting, MarkerAges(j)
    PROVE  OInv'
<1>1. /\ UNCHANGED <<boot, tick, manual, fresh>> /\ disk' = Aged(disk, j)
      /\ excused' = excused \cup {j}
      /\ \A s \in Services : memory'[s] \in {memory[s], Aged(memory[s], j)}
  BY DEF MarkerAges
<1>2. ASSUME NEW store
      PROVE  DOMAIN Aged(store, j) = DOMAIN store /\ \A k : k # j => Keeps(store, Aged(store, j), k)
  BY DEF Aged, Keeps
<1>3. ASSUME NEW s \in Services
      PROVE  OInv'
  <2>1. Phase(s)'
    BY <1>1 DEF Phase, Empty, OInv
  <2>2. Unused(s)'
    BY <1>1, <1>2 DEF OInv, Unused
  <2>3. ASSUME NEW k \in Jobs \ excused', boot[s].at # "clear"
        PROVE  OneClaim(s, k)'
    <3>1. OneClaim(s, k) /\ k # j
      BY <1>1, <2>3 DEF OInv
    <3>2. Kept(s, disk', k) /\ Kept(s, memory'[s], k)
      BY <1>1, <1>2, <3>1, KeepsSelf DEF Kept
    <3> QED
      BY <1>1, <3>1, <3>2, SameHold, ClaimStays
  <2> QED
    BY <1>1, <2>1, <2>2, <2>3, OInvNext
<1> QED
  BY <1>3 DEF OInv

LEMMA CrashOnce ==
    ASSUME OInv, Crash
    PROVE  OInv'
<1>1. UNCHANGED <<disk, fresh>>
  BY DEF Crash
<1>2. ASSUME NEW s \in Services
      PROVE  /\ boot'[s].at = "clear" /\ tick'[s].at = "idle"
             /\ Empty(boot'[s]) /\ Empty(tick'[s])
             /\ boot'[s].todo \in Seq(Jobs) /\ tick'[s].todo \in Seq(Jobs)
  <2>1. boot'[s] = [Off EXCEPT !.at = "clear"] /\ tick'[s] = Idle
    BY DEF Crash
  <2> QED
    BY <2>1 DEF Off, Idle, NoRuns, Empty
<1> QED
  BY <1>1, <1>2 DEF OInv, Phase, Unused

LEMMA InitOInv == ASSUME CronInit PROVE OInv
<1>1. ASSUME NEW s \in Services
      PROVE  /\ boot[s].at = "clear" /\ tick[s].at = "idle"
             /\ Empty(boot[s]) /\ Empty(tick[s])
             /\ boot[s].todo \in Seq(Jobs) /\ tick[s].todo \in Seq(Jobs)
  <2>1. boot[s] = [Off EXCEPT !.at = "clear"] /\ tick[s] = Idle
    BY DEF CronInit
  <2> QED
    BY <2>1 DEF Off, Idle, NoRuns, Empty
<1>2. fresh \cap DOMAIN disk = {}
  BY DEF CronInit
<1> QED
  BY <1>1, <1>2 DEF OInv, Phase, Unused

LEMMA NextOInv == ASSUME Alone, IInv, OInv, [CronNext]_cronVars PROVE OInv'
<1>1. ASSUME NEW s \in Services, Starts(s) PROVE OInv'
  BY <1>1, StartClearOnce, StartPlanOnce, StartRunOnce, StartRunEndsOnce, StartOutcomesOnce,
     StartArmOnce DEF Starts
<1>2. ASSUME NEW s \in Services, Ticks(s) PROVE OInv'
  BY <1>2, TimerFiresOnce, CollectOnce, RunDueJobOnce, DueJobEndsOnce, FinishOnce,
     TickEndsOnce DEF Ticks
<1>3. ASSUME NEW s \in Services, Calls(s) PROVE OInv'
  BY <1>3, ListOnce, AddOnce, RemoveJobOnce, UpdateOnce, EnqueueRunOnce DEF Calls
<1>4. ASSUME NEW c \in Manuals, Manual(c) PROVE OInv'
  BY <1>4, ManualPreflightOnce, ReserveOnce, FinishManualOnce, ManualEndsOnce DEF Manual
<1>5. CASE Advance \/ UNCHANGED cronVars
  BY <1>5, AdvanceOnce DEF Advance, cronVars
<1> QED
  BY <1>1, <1>2, <1>3, <1>4, <1>5, MarkerAgesOnce, CrashOnce DEF CronNext

\* Of those who could be running a job, one has it.
LEMMA ClaimedOnce == ASSUME Alone, IInv, OInv PROVE OneExecutionPerJob
<1> SUFFICES ASSUME NEW j \in Jobs \ excused
             PROVE  \/ Cardinality(Executions(j)) <= 1
                    \/ Dormant(disk, j) /\ \A x \in Executions(j) : x[1] = "hand"
  BY DEF OneExecutionPerJob
<1>1. \A z \in Executions(j) :
          \/ \E s \in Services : z = <<"tick", s>> /\ InBatch(tick[s], j)
          \/ \E s \in Services : z = <<"boot", s>> /\ InBatch(boot[s], j)
          \/ \E c \in Manuals : z = <<"hand", c>> /\ Holds(manual, c, j)
  BY DEF Executions, InBatch, Holds
<1>2. ASSUME NEW s \in Services, boot[s].at = "clear"
      PROVE  ~InBatch(tick[s], j) /\ ~InBatch(boot[s], j) /\ ~ByHand(manual, j)
  <2>1. Empty(tick[s]) /\ Empty(boot[s])
    BY <1>2 DEF OInv, Phase, IInv, Asleep
  <2>2. ~ByHand(manual, j)
    BY <1>2 DEF ByHand, Holds, IInv, ManualsOK, ManualOK, Alone
  <2> QED
    BY <2>1, <2>2, EmptyHasNone
<1>3. CASE Executions(j) = {}
  BY <1>3, FS_EmptySet
<1>4. CASE Executions(j) # {}
  <2>1. PICK s \in Services : \A t \in Services : t = s
    <3>1. Services # {}
      BY <1>1, <1>4 DEF Holds, IInv, ManualsOK, ManualOK
    <3> QED
      BY <3>1 DEF Alone
  <2>2. boot[s].at # "clear"
    BY <1>1, <1>2, <1>4, <2>1 DEF ByHand
  <2>3. OneClaim(s, j)
    BY <2>2 DEF OInv
  <2>4. CASE OneHand(manual, j)
    <3>1. PICK x : x \in Executions(j)
      BY <1>4
    <3>2. ASSUME NEW y \in Executions(j) PROVE y = x
      BY <1>1, <2>1, <2>3, <2>4, <3>1 DEF OneClaim, OneHand, ByHand
    <3>3. Executions(j) = {x}
      BY <3>1, <3>2
    <3>4. Cardinality(Executions(j)) = 1
      BY <3>3, FS_Singleton
    <3> QED
      BY <3>4
  <2>5. CASE ~OneHand(manual, j)
    <3>1. ByHand(manual, j)
      BY <2>5, NoneHolds
    <3>2. ASSUME NEW x \in Executions(j) PROVE x[1] = "hand"
      BY <1>1, <2>1, <2>3, <3>1 DEF OneClaim
    <3> QED
      BY <2>3, <2>5, <3>2 DEF OneClaim
  <2> QED
    BY <2>4, <2>5
<1> QED
  BY <1>3, <1>4

\* A service that has its file for itself never runs a job twice at once: a tick, the
\* catch-up of its start and a run by hand find the marker of whoever has the job, in every
\* copy of it that a reload, a repair of the slots or a patch of another field leaves.  Only
\* forced manual runs of a disabled job, whose marker every repair clears, can overlap.  A
\* patch that enables, disables or reschedules a job, and a run of more than two hours, lift
\* the marker: of those jobs nothing is said.
THEOREM OneRunAtATime ==
    ASSUME Alone
    PROVE  CronSpec => []OneExecutionPerJob
<1>1. CronInit => IInv /\ OInv
  BY InitIInv, InitOInv
<1>2. (IInv /\ OInv) /\ [CronNext]_cronVars => (IInv /\ OInv)'
  BY NextIInv, NextOInv
<1>3. IInv /\ OInv => OneExecutionPerJob
  BY ClaimedOnce
<1> QED
  BY <1>1, <1>2, <1>3, PTL DEF CronSpec

-----------------------------------------------------------------------------
(* The slots of a service that has its file for itself.  Between sections  *)
(* memory and file differ in markers only, and in the slots of disabled    *)
(* jobs (Mirror): so a section that persists what it finds in memory takes *)
(* nothing back.                                                           *)

SamePast(a, b) == /\ b.enabled = a.enabled /\ b.lastRun = a.lastRun
                  /\ b.status = a.status /\ b.errors = a.errors
Alike(a, b)    == SamePast(a, b) /\ (a.enabled => b.next = a.next)

\* The other store has some of the jobs, with the same past and slots.
Follows(store, other) ==
    \A j \in DOMAIN other : j \in DOMAIN store /\ Alike(store[j], other[j])
Mirrors(store, other) == DOMAIN other = DOMAIN store /\ Follows(store, other)

Mirror == \A s \in Services : boot[s].at # "clear" => Mirrors(disk, memory[s])

\* A one-shot that succeeded, was skipped or used up its retries is disabled.
AtRest(j, st) ==
    /\ Kind[j] = "at"
    /\ st.status \in {"ok", "skipped"} \/ (st.status = "error" /\ st.errors > MaxAttempts)
    => ~st.enabled

Rests == \A j \in Jobs \ excused : j \in DOMAIN disk => AtRest(j, disk[j])

LEMMA AlikeIsEqual ==
    /\ \A a : Alike(a, a)
    /\ \A a, b : Alike(a, b) => Alike(b, a)
    /\ \A a, b, c : Alike(a, b) /\ Alike(b, c) => Alike(a, c)
  BY DEF Alike, SamePast

LEMMA MirrorsIsEqual ==
    /\ \A a : Mirrors(a, a)
    /\ \A a, b : Mirrors(a, b) => Mirrors(b, a)
    /\ \A a, b, c : Mirrors(a, b) /\ Mirrors(b, c) => Mirrors(a, c)
    /\ \A a, b, c : Follows(a, b) /\ Follows(b, c) => Follows(a, c)
  BY AlikeIsEqual DEF Mirrors, Follows

LEMMA MarkerIsAlike ==
    ASSUME NEW st \in JobState, NEW m
    PROVE  Alike(st, [st EXCEPT !.running = m])
  BY DEF Alike, SamePast, JobState

LEMMA SlotKeepsPast ==
    ASSUME NEW st \in JobState, NEW n
    PROVE  SamePast(st, [st EXCEPT !.next = n]) /\ [st EXCEPT !.next = n].next = n
  BY DEF SamePast, JobState

LEMMA MarkedMirrors ==
    ASSUME NEW store, Good(store), NEW J PROVE Mirrors(store, Marked(store, J))
<1> SUFFICES ASSUME NEW j \in DOMAIN store PROVE Alike(store[j], Marked(store, J)[j])
  BY DEF Mirrors, Follows, Marked
<1>1. store[j] \in JobState
  BY DEF Good, Sound
<1>2. Marked(store, J)[j] \in {store[j], [store[j] EXCEPT !.running = "recent"]}
  BY DEF Marked
<1> QED
  BY <1>1, <1>2, MarkerIsAlike, AlikeIsEqual

LEMMA AgedMirrors ==
    ASSUME NEW store, Good(store), NEW k PROVE Mirrors(store, Aged(store, k))
<1>1. ASSUME NEW j \in DOMAIN store PROVE Alike(store[j], Aged(store, k)[j])
  <2>1. store[j] \in JobState
    BY DEF Good, Sound
  <2>2. Aged(store, k)[j] \in {store[j], [store[j] EXCEPT !.running = "old"]}
    BY DEF Aged
  <2> QED
    BY <2>1, <2>2, MarkerIsAlike, AlikeIsEqual
<1>2. DOMAIN Aged(store, k) = DOMAIN store
  BY DEF Aged
<1> QED
  BY <1>1, <1>2 DEF Mirrors, Follows

LEMMA NormalizedIsAlike ==
    ASSUME NEW st \in JobState PROVE Alike(st, Normalized(st)) /\ Normalized(st) \in JobState
  BY DEF Normalized, Alike, SamePast, JobState, Markers, Times

\* A repair leaves every slot there is; with recomputeExpired it moves those that were run.
LEMMA RepairsLeaveSlots ==
    ASSUME NEW store, Good(store), NEW t \in Nat, NEW expired \in BOOLEAN, NEW j \in DOMAIN store
    PROVE  /\ SamePast(store[j], Maintain(store, t, expired)[j])
           /\ \/ Alike(store[j], Maintain(store, t, expired)[j])
              \/ expired /\ store[j].lastRun >= store[j].next
<1> DEFINE st == Normalized(store[j])
           n  == ComputeNext(j, st, t)
           M  == Maintain(store, t, expired)[j]
<1>1. j \in Jobs /\ Sound(j, store[j]) /\ Sound(j, st) /\ st \in JobState /\ store[j] \in JobState
  BY NormalizedIsSound DEF Good, Sound
<1>2. Alike(store[j], st)
  BY <1>1, NormalizedIsAlike
<1>3. n = 0 <=> ~st.enabled \/ Dead(j, st)
  BY <1>1, NextRun
<1>4. M = IF st.next = 0 \/ (expired /\ t >= st.next /\ st.running = "none"
                             /\ st.lastRun # 0 /\ st.lastRun >= st.next)
          THEN [st EXCEPT !.next = n] ELSE st
  BY DEF Maintain
<1> HIDE DEF st, n, M
<1>5. SamePast(st, [st EXCEPT !.next = n]) /\ [st EXCEPT !.next = n].next = n
  BY <1>1, SlotKeepsPast
<1>6. CASE M = st
  BY <1>2, <1>6 DEF Alike, M
<1>7. CASE st.next = 0 /\ M = [st EXCEPT !.next = n]
  <2>1. st.enabled => n = st.next
    BY <1>1, <1>3, <1>7 DEF Sound
  <2>2. Alike(st, M)
    BY <1>5, <1>7, <2>1 DEF Alike
  <2>3. Alike(store[j], M)
    BY <1>2, <2>2, AlikeIsEqual
  <2> QED
    BY <2>3 DEF Alike, M
<1>8. CASE /\ M = [st EXCEPT !.next = n]
           /\ expired /\ st.next # 0 /\ st.lastRun >= st.next
  <2>1. SamePast(store[j], M)
    BY <1>2, <1>5, <1>8 DEF Alike, SamePast
  <2>2. store[j].lastRun = st.lastRun /\ (store[j].enabled => store[j].next = st.next)
    BY <1>2 DEF Alike, SamePast
  <2>3. CASE store[j].enabled
    BY <1>8, <2>1, <2>2, <2>3 DEF M
  <2>4. CASE ~store[j].enabled
    BY <2>1, <2>4 DEF Alike, M
  <2> QED
    BY <2>3, <2>4, <1>1 DEF JobState
<1> QED
  BY <1>4, <1>6, <1>7, <1>8

LEMMA MaintainMirrors ==
    ASSUME NEW store, Good(store), NEW t \in Nat PROVE Mirrors(store, Maintain(store, t, FALSE))
<1>1. DOMAIN Maintain(store, t, FALSE) = DOMAIN store
  BY DEF Maintain
<1> QED
  BY <1>1, RepairsLeaveSlots DEF Mirrors, Follows

LEMMA RecomputeKeepsPast ==
    ASSUME NEW store, Good(store), NEW t \in Nat, NEW j \in DOMAIN store
    PROVE  SamePast(store[j], Recompute(store, t)[j])
<1> DEFINE st == Normalized(store[j])
           n  == ComputeNext(j, st, t)
<1>1. store[j] \in JobState
  BY DEF Good, Sound
<1>2. Alike(store[j], st) /\ st \in JobState
  BY <1>1, NormalizedIsAlike
<1>3. Recompute(store, t)[j] \in {st, [st EXCEPT !.next = n]}
  BY DEF Recompute
<1> HIDE DEF st, n
<1>4. SamePast(st, [st EXCEPT !.next = n])
  BY <1>2, SlotKeepsPast
<1> QED
  BY <1>2, <1>3, <1>4 DEF Alike, SamePast

\* The result of a run puts a one-shot to rest, unless it is to be retried.
LEMMA ResultsRest ==
    ASSUME NEW j \in Jobs, NEW st \in JobState, NEW run \in RunType, NEW keep \in BOOLEAN
    PROVE  AtRest(j, Applied(j, st, run, keep))
<1> DEFINE failed == run.result \in {"transient", "permanent"}
           status == IF failed THEN "error" ELSE run.result
           errors == IF ~failed THEN 0 ELSE IF st.errors > MaxAttempts THEN st.errors ELSE st.errors + 1
           st1 == [st EXCEPT !.running = "none", !.lastRun = run.started, !.status = status,
                             !.errors = errors]
<1> SUFFICES ASSUME Kind[j] = "at" PROVE AtRest(j, Applied(j, st, run, keep))
  BY DEF AtRest
<1>1. Applied(j, st, run, keep) = OneShotApplied(st1, run.result, run.ended)
  BY DEF Applied
<1>2. st1.status = status /\ st1.errors = errors /\ "enabled" \in DOMAIN st1 /\ "status" \in DOMAIN st1
      /\ DOMAIN st1 = DOMAIN st
  BY DEF JobState
<1>3. errors \in Nat /\ MaxAttempts \in Nat
  BY CronJobsAssumption DEF JobState
<1> HIDE DEF errors
<1>4. CASE run.result = "transient" /\ st1.errors <= MaxAttempts
  <2> DEFINE n == run.ended + BackoffAfter(st1.errors)
  <2>1. OneShotApplied(st1, run.result, run.ended) = [st1 EXCEPT !.next = n]
    BY <1>4 DEF OneShotApplied
  <2> HIDE DEF n
  <2>2. status = "error"
    BY <1>4
  <2> HIDE DEF status
  <2>3. [st1 EXCEPT !.next = n].status = "error" /\ [st1 EXCEPT !.next = n].errors = st1.errors
    BY <1>2, <2>2
  <2> HIDE DEF st1
  <2>4. ~(st1.errors > MaxAttempts)
    BY <1>2, <1>3, <1>4
  <2> QED
    BY <1>1, <2>1, <2>3, <2>4 DEF AtRest
<1>5. CASE ~(run.result = "transient" /\ st1.errors <= MaxAttempts)
  <2>1. OneShotApplied(st1, run.result, run.ended) = [st1 EXCEPT !.enabled = FALSE, !.next = 0]
    BY <1>5 DEF OneShotApplied
  <2> HIDE DEF st1
  <2>2. [st1 EXCEPT !.enabled = FALSE, !.next = 0].enabled = FALSE
    BY <1>2
  <2> QED
    BY <1>1, <2>1, <2>2 DEF AtRest
<1> QED
  BY <1>4, <1>5


-----------------------------------------------------------------------------
(* Memory mirrors the file.                                                *)

\* A section leaves the same store in both.
LEMMA PersistMirrors ==
    ASSUME Alone, IInv, NEW s \in Services, NEW store, Persist(s, store)
    PROVE  Mirror'
<1>1. memory'[s] = disk'
  BY DEF Persist, IInv, Shapes
<1> QED
  BY <1>1, MirrorsIsEqual DEF Alone, Mirror

LEMMA MirrorKept ==
    ASSUME Mirror, Mirrors(disk, disk'),
           \A s \in Services : boot'[s].at # "clear" =>
               boot[s].at # "clear" /\ Mirrors(memory[s], memory'[s])
    PROVE  Mirror'
  BY MirrorsIsEqual DEF Mirror

\* Sections that touch neither, or only memory.
LEMMA MirrorUnchanged ==
    ASSUME Mirror, UNCHANGED <<disk, memory>>,
           \A s \in Services : boot'[s].at # "clear" => boot[s].at # "clear"
    PROVE  Mirror'
  BY MirrorKept, MirrorsIsEqual

LEMMA PreflightMirrors ==
    ASSUME IInv, Mirror, NEW s \in Services, boot[s].at # "clear", Preflight(s),
           UNCHANGED <<disk, boot>>
    PROVE  Mirror'
<1>1. Good(memory[s]) /\ now \in Nat /\ DOMAIN memory = Services
  BY DEF IInv, Shapes, Stores
<1>2. \A t \in Services : memory'[t] = IF t = s THEN Maintain(memory[s], now, FALSE) ELSE memory[t]
  BY <1>1 DEF Preflight
<1>3. \A t \in Services : Mirrors(memory[t], memory'[t])
  BY <1>1, <1>2, MaintainMirrors, MirrorsIsEqual
<1> QED
  BY <1>3, MirrorKept, MirrorsIsEqual

\* The phases of a start, and of the services that others act on.
LEMMA NotClear ==
    ASSUME IInv
    PROVE  /\ \A s \in Services : tick[s].at # "idle" \/ s \in timer => boot[s].at # "clear"
           /\ \A c \in Manuals : manual[c].at # "none" =>
                  manual[c].s \in Services /\ boot[manual[c].s].at # "clear"
           /\ \A c \in Manuals : JobOf[c] \in Jobs
  BY CronServiceAssumption DEF IInv, Asleep, ManualsOK, ManualOK

LEMMA StartsMirror ==
    ASSUME Alone, IInv, Mirror, NEW s \in Services, Starts(s)
    PROVE  Mirror'
<1>1. CASE StartClear(s) \/ StartOutcomes(s) \/ StartArm(s)
  BY <1>1, PersistMirrors DEF StartClear, StartOutcomes, StartArm
<1>2. CASE StartPlan(s)
  <2>1. CASE \E store : Persist(s, store)
    BY <2>1, PersistMirrors
  <2>2. CASE UNCHANGED <<disk, memory>>
    BY <1>2, <2>2, MirrorUnchanged DEF StartPlan, Alone
  <2> QED
    BY <1>2, <2>1, <2>2 DEF StartPlan
<1>3. CASE StartRun(s) \/ \E res \in Results : StartRunEnds(s, res)
  <2>1. UNCHANGED <<disk, memory>> /\ boot[s].at = "run"
    BY <1>3 DEF StartRun, StartRunEnds
  <2> QED
    BY <2>1, MirrorUnchanged DEF Alone
<1> QED
  BY <1>1, <1>2, <1>3 DEF Starts

LEMMA TicksMirror ==
    ASSUME Alone, IInv, Mirror, NEW s \in Services, Ticks(s)
    PROVE  Mirror'
<1>1. CASE Collect(s) \/ Finish(s)
  BY <1>1, PersistMirrors DEF Collect, Finish
<1>2. CASE TimerFires(s) \/ TickEnds(s) \/ \E j \in Jobs, res \in Results : DueJobEnds(s, j, res)
  <2>1. UNCHANGED <<disk, memory, boot>>
    BY <1>2 DEF TimerFires, TickEnds, DueJobEnds
  <2> QED
    BY <2>1, MirrorUnchanged
<1>3. CASE RunDueJob(s)
  <2>1. /\ UNCHANGED <<disk, boot>> /\ tick[s].at = "run"
        /\ memory' \in {memory, [memory EXCEPT ![s] = Marked(@, {Head(tick[s].todo)})]}
    BY <1>3 DEF RunDueJob
  <2>2. DOMAIN memory = Services /\ Good(memory[s])
    BY <2>1, NotClear DEF IInv, Shapes, Stores
  <2>3. \A t \in Services : memory'[t] \in {memory[t], Marked(memory[t], {Head(tick[s].todo)})}
                            /\ (t # s => memory'[t] = memory[t])
    BY <2>1, <2>2
  <2>4. \A t \in Services : Mirrors(memory[t], memory'[t])
    BY <2>2, <2>3, MarkedMirrors, MirrorsIsEqual
  <2> QED
    BY <2>1, <2>4, MirrorKept, MirrorsIsEqual
<1> QED
  BY <1>1, <1>2, <1>3 DEF Ticks

LEMMA CallsMirror ==
    ASSUME Alone, IInv, Mirror, NEW s \in Services, Calls(s)
    PROVE  Mirror'
<1>1. ASSUME NEW store, Persist(s, store) PROVE Mirror'
  BY <1>1, PersistMirrors
<1>2. CASE List(s)
  BY <1>1, <1>2 DEF List
<1>3. ASSUME NEW j \in Jobs, Add(s, j) PROVE Mirror'
  BY <1>1, <1>3 DEF Add
<1>4. ASSUME NEW j \in Jobs, RemoveJob(s, j) PROVE Mirror'
  BY <1>1, <1>4 DEF RemoveJob
<1>5. ASSUME NEW j \in Jobs, NEW patch, Update(s, j, patch) PROVE Mirror'
  BY <1>1, <1>5 DEF Update
<1>6. ASSUME NEW c \in Manuals, NEW force \in BOOLEAN, EnqueueRun(s, c, force) PROVE Mirror'
  <2>1. boot[s].at # "clear"
    BY DEF Calls, Callable
  <2> QED
    BY <1>6, <2>1, PreflightMirrors DEF EnqueueRun
<1> QED
  BY <1>2, <1>3, <1>4, <1>5, <1>6 DEF Calls

LEMMA ManualsMirror ==
    ASSUME Alone, IInv, Mirror, NEW c \in Manuals, Manual(c)
    PROVE  Mirror'
<1>1. manual[c].at # "none" => manual[c].s \in Services /\ boot[manual[c].s].at # "clear"
  BY NotClear
<1>2. CASE ManualPreflight(c)
  BY <1>1, <1>2, PreflightMirrors DEF ManualPreflight
<1>3. CASE Reserve(c)
  BY <1>1, <1>3, PersistMirrors, MirrorUnchanged DEF Reserve
<1>4. CASE \E res \in Results : ManualEnds(c, res)
  BY <1>4, MirrorUnchanged DEF ManualEnds
<1>5. CASE FinishManual(c)
  BY <1>1, <1>5, PersistMirrors, MirrorUnchanged DEF FinishManual
<1> QED
  BY <1>2, <1>3, <1>4, <1>5 DEF Manual

LEMMA NextMirror ==
    ASSUME Alone, IInv, Mirror, [CronNext]_cronVars
    PROVE  Mirror'
<1>1. CASE Advance \/ UNCHANGED cronVars
  BY <1>1, MirrorUnchanged DEF Advance, cronVars
<1>2. ASSUME NEW j \in Outlasting, MarkerAges(j)
      PROVE  Mirror'
  <2>1. /\ disk' = Aged(disk, j) /\ UNCHANGED boot
        /\ \A s \in Services : memory'[s] = IF memory[s] = NoStore THEN NoStore
                                            ELSE Aged(memory[s], j)
    BY <1>2 DEF MarkerAges
  <2>2. Good(disk) /\ \A s \in Services : boot[s].at # "clear" => Good(memory[s])
    BY DEF IInv, Stores
  <2>3. \A s \in Services : boot[s].at # "clear" => Mirrors(memory[s], memory'[s])
    BY <2>1, <2>2, AgedMirrors, MirrorsIsEqual
  <2> QED
    BY <2>1, <2>2, <2>3, AgedMirrors, MirrorKept
<1>3. CASE Crash
  <2>1. \A s \in Services : boot'[s].at = "clear"
    BY <1>3 DEF Crash, Off
  <2> QED
    BY <2>1 DEF Mirror
<1> QED
  BY <1>1, <1>2, <1>3, StartsMirror, TicksMirror, CallsMirror, ManualsMirror DEF CronNext


-----------------------------------------------------------------------------
(* What a step does to a job in the file.                                  *)

\* Its slot stays, or has been run.
SlotStays(j) ==
    /\ j \in DOMAIN disk /\ SamePast(disk[j], disk'[j])
    /\ Alike(disk[j], disk'[j]) \/ disk[j].lastRun >= disk[j].next

\* It is new, or takes the result of a run, for which it was marked.
ResultComes(j) ==
    /\ AtRest(j, disk'[j])
    /\ j \in DOMAIN disk /\ disk[j].enabled => disk[j].running # "none"

\* It gets a slot from one of the calls that recompute them.
Recalculates(j) ==
    \E s \in Services : \/ StartOutcomes(s) \/ StartArm(s) \/ \E k \in fresh : Add(s, k)
                        \/ \E p \in Patches(j) : Update(s, j, p)
SlotIsRecomputed(j) ==
    /\ Recalculates(j)
    /\ \/ j \in excused'
       \/ AtRest(j, disk'[j])
       \/ j \in DOMAIN disk /\ SamePast(disk[j], disk'[j])

Proceeds(j) == j \in DOMAIN disk' => SlotStays(j) \/ ResultComes(j) \/ SlotIsRecomputed(j)

LEMMA FileFollows ==
    ASSUME NEW j, Follows(disk, disk') PROVE Proceeds(j)
  BY DEF Follows, Alike, Proceeds, SlotStays

\* What is persisted from memory takes nothing back.
LEMMA MemoryFollows ==
    ASSUME Mirror, NEW s \in Services, boot[s].at # "clear", NEW j, Follows(memory[s], disk')
    PROVE  Proceeds(j)
<1>1. Follows(disk, memory[s])
  BY DEF Mirror, Mirrors
<1>2. Follows(disk, disk')
  BY <1>1, MirrorsIsEqual
<1> QED
  BY <1>2, FileFollows

LEMMA FileUnchanged ==
    ASSUME NEW j, UNCHANGED disk PROVE Proceeds(j)
  BY MirrorsIsEqual, FileFollows DEF Mirrors

LEMMA RestGoesOn ==
    ASSUME NEW j, NEW a, NEW b, AtRest(j, a), SamePast(a, b) PROVE AtRest(j, b)
  BY DEF AtRest, SamePast

\* Outcomes put the one-shots that ran to rest; the others stay as they were.
LEMMA OutcomesRest ==
    ASSUME NEW store, Good(store), NEW runs, \A k \in DOMAIN runs : runs[k] \in RunType,
           NEW j \in DOMAIN ApplyOutcomes(store, runs)
    PROVE  /\ j \in DOMAIN store
           /\ IF j \in DOMAIN runs THEN AtRest(j, ApplyOutcomes(store, runs)[j])
              ELSE ApplyOutcomes(store, runs)[j] = store[j]
<1>1. j \in DOMAIN store
  BY DEF ApplyOutcomes
<1>2. ApplyOutcomes(store, runs)[j] = IF j \in DOMAIN runs THEN Applied(j, store[j], runs[j], FALSE)
                                      ELSE store[j]
  BY DEF ApplyOutcomes
<1>3. j \in Jobs /\ store[j] \in JobState
  BY <1>1 DEF Good, Sound
<1> QED
  BY <1>1, <1>2, <1>3, ResultsRest

LEMMA StartOutcomesProceeds ==
    ASSUME IInv, NEW s \in Services, StartOutcomes(s), NEW j
    PROVE  Proceeds(j)
<1> DEFINE applied   == ApplyOutcomes(disk, boot[s].done)
           deferred  == SelectSeq(boot[s].deferred,
                                  LAMBDA k : k \in DOMAIN applied /\ applied[k].enabled)
           later(k)  == now + (CHOOSE i \in 1..Len(deferred) : deferred[i] = k)
           staggered == [k \in DOMAIN applied |->
               IF k \in Set(deferred) THEN [applied[k] EXCEPT !.next = later(k)] ELSE applied[k]]
           store     == Maintain(staggered, now, FALSE)
<1>1. Persist(s, store)
  BY DEF StartOutcomes
<1>2. now \in Nat /\ Good(disk) /\ disk' = store /\ \A k \in DOMAIN boot[s].done : boot[s].done[k] \in RunType
  BY <1>1 DEF IInv, Shapes, Stores, Persist, BatchOK
<1>3. Good(applied)
  BY <1>2, OutcomesAreGood
<1>4. j \in DOMAIN applied =>
          /\ j \in DOMAIN disk
          /\ AtRest(j, applied[j]) \/ applied[j] = disk[j]
  <2> DEFINE runs == boot[s].done
  <2>1. \A k \in DOMAIN runs : runs[k] \in RunType
    BY <1>2
  <2> HIDE DEF runs
  <2> SUFFICES ASSUME j \in DOMAIN ApplyOutcomes(disk, runs)
               PROVE  /\ j \in DOMAIN disk
                      /\ \/ AtRest(j, ApplyOutcomes(disk, runs)[j])
                         \/ ApplyOutcomes(disk, runs)[j] = disk[j]
    BY DEF runs
  <2> QED
    BY <1>2, <2>1, OutcomesRest
<1> HIDE DEF applied, deferred
<1>5. Good(staggered)
  BY <1>2, <1>3, StaggeredIsGood
<1>6. ASSUME j \in DOMAIN applied PROVE SamePast(applied[j], staggered[j])
  <2> DEFINE n == later(j)
  <2>1. staggered[j] \in {applied[j], [applied[j] EXCEPT !.next = n]}
    BY <1>6
  <2> HIDE DEF n, staggered
  <2>2. applied[j] \in JobState
    BY <1>3, <1>6 DEF Good, Sound
  <2>3. SamePast(applied[j], applied[j])
    BY DEF SamePast
  <2>4. SamePast(applied[j], [applied[j] EXCEPT !.next = n])
    BY <2>2, SlotKeepsPast
  <2> QED
    BY <2>1, <2>3, <2>4
<1>7. DOMAIN staggered = DOMAIN applied
  OBVIOUS
<1> HIDE DEF staggered
<1>8. DOMAIN store = DOMAIN applied /\ Mirrors(staggered, store)
  BY <1>2, <1>5, <1>7, MaintainMirrors DEF Mirrors
<1> HIDE DEF store
<1> SUFFICES ASSUME j \in DOMAIN store PROVE SlotIsRecomputed(j)
  BY <1>2 DEF Proceeds
<1>9. SamePast(applied[j], store[j])
  BY <1>6, <1>7, <1>8 DEF Mirrors, Follows, Alike, SamePast
<1>10. AtRest(j, store[j]) \/ (j \in DOMAIN disk /\ SamePast(disk[j], store[j]))
  <2>1. CASE AtRest(j, applied[j])
    BY <1>9, <2>1, RestGoesOn
  <2>2. CASE j \in DOMAIN disk /\ applied[j] = disk[j]
    BY <1>9, <2>2
  <2> QED
    BY <1>4, <1>8, <2>1, <2>2
<1> QED
  BY <1>2, <1>10 DEF SlotIsRecomputed, Recalculates

LEMMA StartsProceed ==
    ASSUME IInv, Mirror, NEW s \in Services, Starts(s), NEW j
    PROVE  Proceeds(j)
<1>1. /\ Good(disk) /\ now \in Nat /\ DOMAIN memory = Services
      /\ boot[s].at # "clear" => Good(memory[s])
  BY DEF IInv, Shapes, Stores
<1>2. CASE StartClear(s)
  <2> DEFINE store == [k \in DOMAIN disk |-> [disk[k] EXCEPT !.running = "none"]]
  <2>1. disk' = store
    BY <1>2 DEF StartClear, Persist
  <2>2. \A k \in DOMAIN store : k \in DOMAIN disk /\ Alike(disk[k], store[k])
    BY <1>1, MarkerIsAlike DEF Good, Sound
  <2> QED
    BY <2>1, <2>2, FileFollows DEF Follows
<1>3. CASE StartPlan(s)
  <2>1. boot[s].at # "clear"
    BY <1>3 DEF StartPlan
  <2>2. disk' = disk \/ \E J : disk' = Marked(memory[s], J)
    BY <1>3 DEF StartPlan, Persist
  <2> QED
    BY <1>1, <2>1, <2>2, FileUnchanged, MemoryFollows, MarkedMirrors DEF Mirrors
<1>4. CASE StartRun(s) \/ \E res \in Results : StartRunEnds(s, res)
  BY <1>4, FileUnchanged DEF StartRun, StartRunEnds
<1>5. CASE StartArm(s)
  <2>1. disk' = Recompute(disk, now)
    BY <1>5 DEF StartArm, Persist
  <2>2. DOMAIN disk' = DOMAIN disk
    BY <2>1 DEF Recompute
  <2>3. j \in DOMAIN disk' => SamePast(disk[j], disk'[j])
    BY <1>1, <2>1, <2>2, RecomputeKeepsPast
  <2> QED
    BY <1>5, <2>2, <2>3 DEF Proceeds, SlotIsRecomputed, Recalculates
<1> QED
  BY <1>2, <1>3, <1>4, <1>5, StartOutcomesProceeds DEF Starts

\* Whoever is about to apply the result of a job's run has marked it.
LEMMA ClaimedIsMarked ==
    ASSUME OInv, NEW s \in Services, boot[s].at # "clear", NEW j \in Jobs \ excused,
           InBatch(tick[s], j) \/ InBatch(boot[s], j) \/ ByHand(manual, j),
           j \in DOMAIN disk, disk[j].enabled
    PROVE  disk[j].running # "none"
  BY DEF OInv, OneClaim, MarkedIn, GuardedIn

LEMMA TicksProceed ==
    ASSUME IInv, OInv, Mirror, NEW s \in Services, Ticks(s), NEW j \in Jobs \ excused
    PROVE  Proceeds(j)
<1>1. Good(disk) /\ now \in Nat
  BY DEF IInv, Shapes, Stores
<1>2. CASE TimerFires(s) \/ TickEnds(s) \/ RunDueJob(s)
           \/ \E k \in Jobs, res \in Results : DueJobEnds(s, k, res)
  BY <1>2, FileUnchanged DEF TimerFires, TickEnds, RunDueJob, DueJobEnds
<1>3. CASE Collect(s)
  <2>1. disk' = Maintain(disk, now, TRUE) \/ \E J : disk' = Marked(disk, J)
    BY <1>3 DEF Collect, Persist
  <2>2. CASE disk' = Maintain(disk, now, TRUE)
    <3>1. DOMAIN disk' = DOMAIN disk
      BY <2>2 DEF Maintain
    <3> QED
      BY <1>1, <2>2, <3>1, RepairsLeaveSlots DEF Proceeds, SlotStays
  <2>3. CASE \E J : disk' = Marked(disk, J)
    BY <1>1, <2>3, MarkedMirrors, FileFollows DEF Mirrors
  <2> QED
    BY <2>1, <2>2, <2>3
<1>4. CASE Finish(s)
  <2> DEFINE applied == ApplyOutcomes(disk, tick[s].done)
             store   == Maintain(applied, now, FALSE)
  <2>1. disk' = store /\ tick[s].at = "run"
    BY <1>4 DEF Finish, Persist
  <2>2. \A k \in DOMAIN tick[s].done : tick[s].done[k] \in RunType
    BY DEF IInv, Shapes, BatchOK
  <2>3. Good(applied)
    BY <1>1, <2>2, OutcomesAreGood
  <2>4. j \in DOMAIN applied =>
            /\ j \in DOMAIN disk
            /\ IF j \in DOMAIN tick[s].done THEN AtRest(j, applied[j]) ELSE applied[j] = disk[j]
    BY <1>1, <2>2, OutcomesRest
  <2> HIDE DEF applied
  <2>5. Mirrors(applied, store)
    BY <1>1, <2>3, MaintainMirrors
  <2> HIDE DEF store
  <2> SUFFICES ASSUME j \in DOMAIN store PROVE SlotStays(j) \/ ResultComes(j)
    BY <2>1 DEF Proceeds
  <2>6. j \in DOMAIN applied /\ Alike(applied[j], store[j])
    BY <2>5 DEF Mirrors, Follows
  <2>7. CASE j \in DOMAIN tick[s].done
    <3>1. InBatch(tick[s], j) /\ boot[s].at # "clear"
      BY <2>1, <2>7, NotClear DEF InBatch
    <3>2. AtRest(j, store[j])
      BY <2>4, <2>6, <2>7, RestGoesOn DEF Alike
    <3> QED
      BY <2>1, <3>1, <3>2, ClaimedIsMarked DEF ResultComes
  <2>8. CASE j \notin DOMAIN tick[s].done
    BY <2>1, <2>4, <2>6, <2>8 DEF SlotStays, Alike
  <2> QED
    BY <2>7, <2>8
<1> QED
  BY <1>2, <1>3, <1>4 DEF Ticks


\* add() recomputes slots; the job it adds is new.
LEMMA AddProceeds ==
    ASSUME IInv, Mirror, NEW s \in Services, boot[s].at # "clear", NEW k \in Jobs, Add(s, k), NEW j
    PROVE  Proceeds(j)
<1> DEFINE new   == NewJob(k, now)
           with  == Put(memory[s], k, new)
           store == Recompute(with, now)
<1>1. k \in fresh /\ disk' = store
  BY DEF Add, Persist
<1>2. now \in Nat /\ Good(memory[s])
  BY DEF IInv, Shapes, Stores
<1>3. Good(with)
  BY <1>2, NewJobIsSound, PutIsGood
<1>4. AtRest(k, new)
  BY DEF AtRest, NewJob
<1> HIDE DEF new
<1>5. DOMAIN store = DOMAIN with /\ DOMAIN with = DOMAIN memory[s] \cup {k}
  BY DEF Recompute, Put
<1>6. with[k] = new /\ \A i \in DOMAIN memory[s] : i # k => with[i] = memory[s][i]
  BY DEF Put
<1> HIDE DEF with
<1>7. j \in DOMAIN with => SamePast(with[j], store[j])
  BY <1>2, <1>3, RecomputeKeepsPast
<1> HIDE DEF store
<1> SUFFICES ASSUME j \in DOMAIN with PROVE SlotIsRecomputed(j)
  BY <1>1, <1>5 DEF Proceeds
<1>8. CASE j = k
  BY <1>1, <1>4, <1>6, <1>7, <1>8, RestGoesOn DEF SlotIsRecomputed, Recalculates
<1>9. CASE j # k
  <2>1. j \in DOMAIN memory[s] /\ SamePast(memory[s][j], store[j])
    BY <1>5, <1>6, <1>7, <1>9
  <2>2. j \in DOMAIN disk /\ SamePast(disk[j], memory[s][j])
    BY <2>1 DEF Mirror, Mirrors, Follows, Alike
  <2> QED
    BY <1>1, <2>1, <2>2 DEF SlotIsRecomputed, Recalculates, SamePast
<1> QED
  BY <1>8, <1>9

\* A patch of other fields leaves the past of the job alone; others excuse it.
LEMMA UpdateProceeds ==
    ASSUME IInv, Mirror, NEW s \in Services, boot[s].at # "clear", NEW k \in Jobs,
           NEW patch \in Patches(k), Update(s, k, patch), NEW j
    PROVE  Proceeds(j)
<1> DEFINE on   == CASE patch = "enable" -> TRUE [] patch = "disable" -> FALSE
                     [] OTHER -> memory[s][k].enabled
           st   == [memory[s][k] EXCEPT !.enabled = on]
           anew == IF ~st.enabled THEN [st EXCEPT !.next = 0, !.running = "none"]
                   ELSE [st EXCEPT !.next = ComputeNext(k, st, now)]
           new  == IF patch = "edit" /\ (~st.enabled \/ st.next # 0) THEN st ELSE anew
           store == [memory[s] EXCEPT ![k] = new]
<1>1. /\ k \in DOMAIN memory[s] /\ disk' = store
      /\ excused' = IF patch = "edit" THEN excused ELSE excused \cup {k}
  BY DEF Update, Persist
<1>2. Good(memory[s]) /\ Mirrors(disk, memory[s])
  BY DEF IInv, Stores, Mirror
<1> SUFFICES ASSUME j \in DOMAIN memory[s]
             PROVE  SlotStays(j) \/ SlotIsRecomputed(j)
  BY <1>1 DEF Proceeds
<1>3. j \in DOMAIN disk /\ Alike(disk[j], memory[s][j])
  BY <1>2 DEF Mirrors, Follows
<1>4. CASE j # k
  <2>1. store[j] = memory[s][j]
    BY <1>4
  <2> QED
    BY <1>1, <1>3, <2>1 DEF SlotStays, Alike
<1>5. CASE j = k /\ patch # "edit"
  BY <1>1, <1>5 DEF SlotIsRecomputed, Recalculates
<1>6. CASE j = k /\ patch = "edit"
  <2>1. memory[s][j] \in JobState
    BY <1>1, <1>2, <1>6 DEF Good, Sound
  <2>2. store[j] = new
    BY <1>1, <1>6
  <2>3. on = memory[s][j].enabled
    BY <1>6
  <2> HIDE DEF on
  <2>4. SamePast(memory[s][j], st) /\ st \in JobState
    BY <1>6, <2>1, <2>3 DEF SamePast, JobState
  <2> HIDE DEF st
  <2>5. SamePast(st, [st EXCEPT !.next = 0, !.running = "none"])
    BY <2>4 DEF SamePast, JobState
  <2>6. SamePast(st, [st EXCEPT !.next = ComputeNext(k, st, now)])
    BY <2>4, SlotKeepsPast
  <2>7. SamePast(st, new)
    BY <2>5, <2>6 DEF SamePast
  <2> HIDE DEF new
  <2>8. SamePast(disk[j], store[j])
    BY <1>3, <2>2, <2>4, <2>7 DEF Alike, SamePast
  <2> QED
    BY <1>1, <1>3, <1>6, <2>8 DEF SlotIsRecomputed, Recalculates
<1> QED
  BY <1>4, <1>5, <1>6

LEMMA CallsProceed ==
    ASSUME IInv, Mirror, NEW s \in Services, Calls(s), NEW j
    PROVE  Proceeds(j)
<1>1. boot[s].at # "clear" /\ Good(memory[s]) /\ now \in Nat
  BY DEF Calls, Callable, IInv, Shapes, Stores
<1>2. CASE List(s)
  <2>1. disk' = Maintain(memory[s], now, FALSE)
    BY <1>2 DEF List, Persist
  <2> QED
    BY <1>1, <2>1, MaintainMirrors, MemoryFollows DEF Mirrors
<1>3. ASSUME NEW k \in Jobs, RemoveJob(s, k) PROVE Proceeds(j)
  <2>1. disk' = [i \in DOMAIN memory[s] \ {k} |-> memory[s][i]]
    BY <1>3 DEF RemoveJob, Persist
  <2>2. Follows(memory[s], disk')
    BY <2>1, AlikeIsEqual DEF Follows
  <2> QED
    BY <1>1, <2>2, MemoryFollows
<1>4. ASSUME NEW c \in Manuals, NEW force \in BOOLEAN, EnqueueRun(s, c, force) PROVE Proceeds(j)
  BY <1>4, FileUnchanged DEF EnqueueRun
<1> QED
  BY <1>1, <1>2, <1>3, <1>4, AddProceeds, UpdateProceeds DEF Calls

LEMMA FinishManualProceeds ==
    ASSUME IInv, OInv, Mirror, NEW c \in Manuals, FinishManual(c), NEW j \in Jobs \ excused
    PROVE  Proceeds(j)
<1>0. PICK s, k : s = manual[c].s /\ k = JobOf[c]
  OBVIOUS
<1> DEFINE run    == manual[c].run
           mine   == Applied(k, memory[s][k], run, manual[c].force)
           merged == IF Deletes(k, run.result) THEN [i \in DOMAIN disk \ {k} |-> disk[i]]
                     ELSE [i \in DOMAIN disk |-> IF i = k THEN mine ELSE disk[i]]
           store  == Maintain(merged, now, TRUE)
<1>1. /\ manual[c].at = "finish"
      /\ IF k \in DOMAIN memory[s] THEN Persist(s, store) ELSE UNCHANGED <<disk, memory>>
  BY <1>0 DEF FinishManual
<1>2. s \in Services /\ boot[s].at # "clear" /\ k \in Jobs
  BY <1>0, <1>1, NotClear
<1>3. CASE UNCHANGED <<disk, memory>>
  BY <1>3, FileUnchanged
<1>4. CASE k \in DOMAIN memory[s] /\ Persist(s, store)
  <2>1. now \in Nat /\ Good(disk) /\ Good(memory[s]) /\ disk' = store
    BY <1>2, <1>4 DEF Persist, IInv, Shapes, Stores
  <2>2. Sound(k, mine) /\ AtRest(k, mine)
    <3>1. memory[s][k] \in JobState
      BY <1>4, <2>1 DEF Good, Sound
    <3>2. run \in RunType /\ manual[c].force \in BOOLEAN
      BY <1>1 DEF IInv, ManualsOK, ManualOK
    <3> QED
      BY <1>2, <3>1, <3>2, AppliedIsSound, ResultsRest
  <2> HIDE DEF mine
  <2>3. Good(merged)
    BY <2>1, <2>2 DEF Good
  <2>4. /\ DOMAIN merged \subseteq DOMAIN disk
        /\ j \in DOMAIN merged => merged[j] = IF j = k THEN mine ELSE disk[j]
    OBVIOUS
  <2> HIDE DEF merged
  <2>5. DOMAIN store = DOMAIN merged
    BY DEF Maintain
  <2>6. j \in DOMAIN merged =>
            /\ SamePast(merged[j], store[j])
            /\ Alike(merged[j], store[j]) \/ merged[j].lastRun >= merged[j].next
    BY <2>1, <2>3, RepairsLeaveSlots
  <2> HIDE DEF store
  <2> SUFFICES ASSUME j \in DOMAIN merged PROVE SlotStays(j) \/ ResultComes(j)
    BY <2>1, <2>5 DEF Proceeds
  <2>7. CASE j = k
    <3>1. AtRest(j, store[j])
      BY <2>2, <2>4, <2>6, <2>7, RestGoesOn
    <3>2. ByHand(manual, j)
      BY <1>0, <1>1, <2>7 DEF ByHand, Holds
    <3> QED
      BY <1>2, <2>1, <3>1, <3>2, ClaimedIsMarked DEF ResultComes
  <2>8. CASE j # k
    BY <2>1, <2>4, <2>6, <2>8 DEF SlotStays
  <2> QED
    BY <2>7, <2>8
<1> QED
  BY <1>1, <1>3, <1>4

LEMMA ManualsProceed ==
    ASSUME IInv, OInv, Mirror, NEW c \in Manuals, Manual(c), NEW j \in Jobs \ excused
    PROVE  Proceeds(j)
<1>1. CASE ManualPreflight(c) \/ \E res \in Results : ManualEnds(c, res)
  BY <1>1, FileUnchanged DEF ManualPreflight, ManualEnds
<1>2. CASE Reserve(c)
  <2>1. CASE UNCHANGED disk
    BY <2>1, FileUnchanged
  <2>2. CASE disk' = Marked(memory[manual[c].s], {JobOf[c]})
    <3>1. manual[c].s \in Services /\ boot[manual[c].s].at # "clear"
      BY <1>2, NotClear DEF Reserve
    <3>2. Good(memory[manual[c].s])
      BY <3>1 DEF IInv, Stores
    <3> QED
      BY <2>2, <3>1, <3>2, MarkedMirrors, MemoryFollows DEF Mirrors
  <2> QED
    BY <1>2, <2>1, <2>2 DEF Reserve, Persist
<1> QED
  BY <1>1, <1>2, FinishManualProceeds DEF Manual

LEMMA StepsProceed ==
    ASSUME IInv, OInv, Mirror, [CronNext]_cronVars, NEW j \in Jobs \ excused
    PROVE  Proceeds(j)
<1>1. CASE Advance \/ Crash \/ UNCHANGED cronVars
  BY <1>1, FileUnchanged DEF Advance, Crash, cronVars
<1>2. ASSUME NEW k \in Outlasting, MarkerAges(k) PROVE Proceeds(j)
  <2>1. disk' = Aged(disk, k) /\ Good(disk)
    BY <1>2 DEF MarkerAges, IInv, Stores
  <2> QED
    BY <2>1, AgedMirrors, FileFollows DEF Mirrors
<1> QED
  BY <1>1, <1>2, StartsProceed, TicksProceed, CallsProceed, ManualsProceed DEF CronNext


\* A one-shot at rest is not enabled again but by a patch, which excuses it.
LEMMA NextRests ==
    ASSUME IInv, OInv, Mirror, Rests, [CronNext]_cronVars
    PROVE  Rests'
<1>1. excused \subseteq excused'
  <2>1. CASE UNCHANGED excused
    BY <2>1
  <2>2. ASSUME NEW s \in Services, Starts(s) PROVE UNCHANGED excused
    <3>1. StartClear(s) => UNCHANGED excused
      BY DEF StartClear
    <3>5. StartPlan(s) => UNCHANGED excused
      BY DEF StartPlan
    <3>2. StartRun(s) \/ (\E res \in Results : StartRunEnds(s, res)) => UNCHANGED excused
      BY DEF StartRun, StartRunEnds
    <3>3. StartOutcomes(s) => UNCHANGED excused
      BY DEF StartOutcomes
    <3>4. StartArm(s) => UNCHANGED excused
      BY DEF StartArm
    <3> QED
      BY <2>2, <3>1, <3>2, <3>3, <3>4, <3>5 DEF Starts
  <2>3. ASSUME NEW s \in Services, Ticks(s) PROVE UNCHANGED excused
    <3>1. TimerFires(s) \/ Collect(s) \/ RunDueJob(s) => UNCHANGED excused
      BY DEF TimerFires, Collect, RunDueJob
    <3>2. (\E j \in Jobs, res \in Results : DueJobEnds(s, j, res)) => UNCHANGED excused
      BY DEF DueJobEnds
    <3>3. Finish(s) \/ TickEnds(s) => UNCHANGED excused
      BY DEF Finish, TickEnds
    <3> QED
      BY <2>3, <3>1, <3>2, <3>3 DEF Ticks
  <2>4. ASSUME NEW s \in Services, Calls(s) PROVE excused \subseteq excused'
    <3>1. List(s) => UNCHANGED excused
      BY DEF List
    <3>2. ASSUME NEW j \in Jobs, Add(s, j) \/ RemoveJob(s, j) PROVE UNCHANGED excused
      BY <3>2 DEF Add, RemoveJob
    <3>3. ASSUME NEW j \in Jobs, NEW patch, Update(s, j, patch) PROVE excused \subseteq excused'
      <4>1. excused' = IF patch = "edit" THEN excused ELSE excused \cup {j}
        BY <3>3 DEF Update
      <4> QED
        BY <4>1
    <3>4. ASSUME NEW c \in Manuals, NEW force \in BOOLEAN, EnqueueRun(s, c, force)
          PROVE  UNCHANGED excused
      BY <3>4 DEF EnqueueRun
    <3> QED
      BY <2>4, <3>1, <3>2, <3>3, <3>4 DEF Calls
  <2>5. ASSUME NEW c \in Manuals, Manual(c) PROVE UNCHANGED excused
    BY <2>5 DEF Manual, ManualPreflight, Reserve, ManualEnds, FinishManual
  <2>6. ASSUME NEW j \in Outlasting, MarkerAges(j) PROVE excused \subseteq excused'
    BY <2>6 DEF MarkerAges
  <2> QED
    BY <2>1, <2>2, <2>3, <2>4, <2>5, <2>6 DEF CronNext, Advance, Crash, cronVars
<1> SUFFICES ASSUME NEW j \in Jobs \ excused', j \in DOMAIN disk'
             PROVE  AtRest(j, disk'[j])
  BY DEF Rests
<1>2. j \in Jobs \ excused /\ Proceeds(j)
  BY <1>1, StepsProceed
<1>3. CASE j \in DOMAIN disk /\ SamePast(disk[j], disk'[j])
  BY <1>2, <1>3, RestGoesOn DEF Rests
<1>4. CASE AtRest(j, disk'[j])
  BY <1>4
<1> QED
  BY <1>2, <1>3, <1>4 DEF Proceeds, SlotStays, ResultComes, SlotIsRecomputed

LEMMA PlanBeginsNothing ==
    ASSUME NEW s \in Services, StartPlan(s), DOMAIN boot = Services
    PROVE  DOMAIN boot'[s].active = {}
<1> DEFINE store  == memory[s]
           missed == {j \in DOMAIN store \ boot[s].skip : IsMissed(j, store[j], now)}
<1>1. PICK sorted \in SetToSeqs(missed) :
        LET todo == SubSeq(sorted, 1, IF Len(sorted) < MaxImmediate THEN Len(sorted) ELSE MaxImmediate)
        IN  /\ IF missed = {} THEN UNCHANGED <<memory, disk>>
               ELSE Persist(s, Marked(store, Set(todo)))
            /\ boot' = [boot EXCEPT ![s] =
                  [Off EXCEPT !.at = IF missed = {} THEN "arm" ELSE "run", !.todo = todo,
                              !.deferred = SubSeq(sorted, Len(todo) + 1, Len(sorted))]]
  BY DEF StartPlan
<1> DEFINE a    == IF missed = {} THEN "arm" ELSE "run"
           todo == SubSeq(sorted, 1, IF Len(sorted) < MaxImmediate THEN Len(sorted) ELSE MaxImmediate)
           rest == SubSeq(sorted, Len(todo) + 1, Len(sorted))
<1>2. boot'[s] = [Off EXCEPT !.at = a, !.todo = todo, !.deferred = rest]
  BY <1>1
<1> HIDE DEF a, todo, rest
<1> QED
  BY <1>2 DEF Off, NoRuns

\* Only these two begin executions.
LEMMA OthersBegin ==
    ASSUME Alone, IInv, [CronNext]_cronVars, NEW s \in Services, ~RunDueJob(s), ~StartRun(s)
    PROVE  /\ DOMAIN tick'[s].active \subseteq DOMAIN tick[s].active
           /\ DOMAIN boot'[s].active \subseteq DOMAIN boot[s].active
<1> DEFINE Shrink == /\ DOMAIN tick'[s].active \subseteq DOMAIN tick[s].active
                     /\ DOMAIN boot'[s].active \subseteq DOMAIN boot[s].active
<1>1. /\ BatchOK(tick[s]) /\ BatchOK(boot[s]) /\ DOMAIN tick = Services /\ DOMAIN boot = Services
      /\ \A t \in Services : t = s
  BY DEF IInv, Shapes, Alone
<1>2. DOMAIN Idle.active = {} /\ DOMAIN Off.active = {}
  BY DEF Idle, Off, NoRuns
<1>3. CASE UNCHANGED <<tick, boot>>
  BY <1>3
<1>4. CASE Starts(s)
  <2>1. UNCHANGED tick
    <3>1. StartClear(s) => UNCHANGED tick
      BY DEF StartClear
    <3>2. StartPlan(s) => UNCHANGED tick
      BY DEF StartPlan
    <3>3. (\E res \in Results : StartRunEnds(s, res)) => UNCHANGED tick
      BY DEF StartRunEnds
    <3>4. StartOutcomes(s) => UNCHANGED tick
      BY DEF StartOutcomes
    <3>5. StartArm(s) => UNCHANGED tick
      BY DEF StartArm
    <3> QED
      BY <1>4, <3>1, <3>2, <3>3, <3>4, <3>5 DEF Starts
  <2>2. DOMAIN boot'[s].active \subseteq DOMAIN boot[s].active
    <3>1. CASE StartClear(s)
      BY <1>1, <3>1 DEF StartClear, BatchOK
    <3>2. CASE StartPlan(s)
      BY <1>1, <3>2, PlanBeginsNothing
    <3>3. ASSUME NEW res \in Results, StartRunEnds(s, res)
          PROVE  DOMAIN boot'[s].active \subseteq DOMAIN boot[s].active
      <4>1. PICK j \in DOMAIN boot[s].active : boot'[s] = End(boot[s], j, res)
        BY <1>1, <3>3 DEF StartRunEnds
      <4> QED
        BY <1>1, <4>1 DEF End, BatchOK
    <3>4. CASE StartOutcomes(s)
      <4>1. boot'[s] = [Off EXCEPT !.at = "arm"]
        BY <1>1, <3>4 DEF StartOutcomes
      <4>2. DOMAIN boot'[s].active = {}
        BY <4>1 DEF Off, NoRuns
      <4> QED
        BY <4>2
    <3>5. CASE StartArm(s)
      BY <1>1, <3>5 DEF StartArm, BatchOK
    <3> QED
      BY <1>4, <3>1, <3>2, <3>3, <3>4, <3>5 DEF Starts
  <2> QED
    BY <2>1, <2>2
<1>5. CASE Ticks(s)
  <2>1. UNCHANGED boot
    BY <1>5 DEF Ticks, TimerFires, Collect, RunDueJob, DueJobEnds, Finish, TickEnds
  <2>2. DOMAIN tick'[s].active \subseteq DOMAIN tick[s].active
    <3>1. CASE TimerFires(s)
      BY <1>1, <3>1 DEF TimerFires, BatchOK
    <3>2. CASE Collect(s)
      <4>1. \E a, x : tick' = [tick EXCEPT ![s].at = a, ![s].todo = x]
        BY <3>2 DEF Collect
      <4> QED
        BY <1>1, <4>1 DEF BatchOK
    <3>3. ASSUME NEW j, NEW res, DueJobEnds(s, j, res)
          PROVE  DOMAIN tick'[s].active \subseteq DOMAIN tick[s].active
      <4>1. tick'[s] = End(tick[s], j, res)
        BY <1>1, <3>3 DEF DueJobEnds
      <4> QED
        BY <1>1, <4>1 DEF End, BatchOK
    <3>4. CASE Finish(s) \/ TickEnds(s)
      <4>1. tick'[s] = Idle \/ tick'[s] = [Idle EXCEPT !.at = "end"]
        BY <1>1, <3>4 DEF Finish, TickEnds
      <4>2. DOMAIN tick'[s].active = {}
        BY <4>1 DEF Idle, NoRuns
      <4> QED
        BY <4>2
    <3> QED
      BY <1>5, <3>1, <3>2, <3>3, <3>4 DEF Ticks
  <2> QED
    BY <2>1, <2>2
<1>6. ASSUME NEW t \in Services, Calls(t) PROVE UNCHANGED <<tick, boot>>
  BY <1>6, CallsOutside
<1>7. ASSUME NEW c \in Manuals, Manual(c) PROVE UNCHANGED <<tick, boot>>
  BY <1>7 DEF Manual, ManualPreflight, Reserve, ManualEnds, FinishManual
<1>8. CASE Crash
  <2>1. tick'[s] = Idle /\ boot'[s] = [Off EXCEPT !.at = "clear"]
    BY <1>8 DEF Crash
  <2>2. DOMAIN tick'[s].active = {} /\ DOMAIN boot'[s].active = {}
    BY <2>1 DEF Idle, Off, NoRuns
  <2> QED
    BY <2>2
<1>9. CASE Advance \/ (\E j \in Outlasting : MarkerAges(j)) \/ UNCHANGED cronVars
  BY <1>3, <1>9 DEF Advance, MarkerAges, cronVars
<1>10. ASSUME NEW t \in Services, Starts(t) \/ Ticks(t) \/ Calls(t)
       PROVE  Shrink
  BY <1>1, <1>3, <1>4, <1>5, <1>6, <1>10
<1>11. ASSUME NEW c \in Manuals, Manual(c)
       PROVE  Shrink
  BY <1>3, <1>7, <1>11
<1> QED
  BY <1>8, <1>9, <1>10, <1>11 DEF CronNext

\* Executions begin with jobs that a section has marked, which are enabled.
LEMMA BeginsMarked ==
    ASSUME Alone, IInv, OInv, [CronNext]_cronVars,
           NEW j \in Jobs \ excused, Begins(j), j \in DOMAIN disk
    PROVE  disk[j].enabled
<1>1. PICK s \in Services : \/ j \in DOMAIN tick'[s].active \ DOMAIN tick[s].active
                            \/ j \in DOMAIN boot'[s].active \ DOMAIN boot[s].active
  BY DEF Begins
<1>2. boot[s].at # "clear" /\ (InBatch(tick[s], j) \/ InBatch(boot[s], j))
  <2>1. ASSUME NEW b, BatchOK(b), b.todo \in Seq(Jobs), b.todo # <<>>,
               j \in DOMAIN Begin(b, Head(b.todo)).active, j \notin DOMAIN b.active
        PROVE  InBatch(b, j)
    BY <2>1, BeginClaims DEF InBatch
  <2>2. BatchOK(tick[s]) /\ BatchOK(boot[s]) /\ DOMAIN tick = Services /\ DOMAIN boot = Services
    BY DEF IInv, Shapes
  <2>3. tick[s].todo \in Seq(Jobs) /\ boot[s].todo \in Seq(Jobs)
    BY DEF OInv, Phase
  <2>4. CASE RunDueJob(s)
    <3>1. /\ boot' = boot /\ tick'[s] = Begin(tick[s], Head(tick[s].todo))
          /\ tick[s].at = "run" /\ tick[s].todo # <<>>
      BY <2>2, <2>4 DEF RunDueJob
    <3> QED
      BY <1>1, <2>1, <2>2, <2>3, <3>1, NotClear
  <2>5. CASE StartRun(s)
    <3>1. /\ tick' = tick /\ boot'[s] = Begin(boot[s], Head(boot[s].todo))
          /\ boot[s].at = "run" /\ boot[s].todo # <<>>
      BY <2>2, <2>5 DEF StartRun
    <3> QED
      BY <1>1, <2>1, <2>2, <2>3, <3>1
  <2>6. CASE ~RunDueJob(s) /\ ~StartRun(s)
    BY <1>1, <2>6, OthersBegin
  <2> QED
    BY <2>4, <2>5, <2>6
<1> QED
  BY <1>2 DEF OInv, OneClaim, MarkedIn


LEMMA InitMirrors == ASSUME CronInit PROVE Mirror /\ Rests
<1>1. \A s \in Services : boot[s].at = "clear"
  BY DEF CronInit, Off
<1>2. ASSUME NEW j \in DOMAIN disk PROVE AtRest(j, disk[j])
  BY <1>2 DEF CronInit, NewJob, AtRest
<1> QED
  BY <1>1, <1>2 DEF Mirror, Rests

\* What the theorems about slots rest on.
CourseInv == IInv /\ OInv /\ Mirror /\ Rests

LEMMA CourseIsInvariant == Alone => (CronSpec => []CourseInv)
<1> SUFFICES ASSUME Alone PROVE CronSpec => []CourseInv
  OBVIOUS
<1>1. CronInit => CourseInv
  BY InitIInv, InitOInv, InitMirrors DEF CourseInv
<1>2. CourseInv /\ [CronNext]_cronVars => CourseInv'
  BY NextIInv, NextOInv, NextMirror, NextRests DEF CourseInv
<1> QED
  BY <1>1, <1>2, PTL DEF CronSpec

\* The two action properties, of one step.
SlotStep == \A j \in Jobs \ excused : Overtaken(j) =>
    \/ disk'[j].lastRun # disk[j].lastRun \/ disk[j].lastRun >= disk[j].next
    \/ disk[j].running # "none"
    \/ \E s \in Services : \/ StartOutcomes(s) \/ StartArm(s) \/ \E k \in fresh : Add(s, k)
                           \/ \E p \in Patches(j) : Update(s, j, p)
OneShotStep == \A j \in Jobs \ excused : Begins(j) => ~Settled(j)

\* A service that has its file for itself advances the slot of a due job only for a run of
\* it, or in a call that recomputes slots: neither the repairs of list(), of a tick or of a
\* manual run, nor what another job's result, a patch of another job, a reservation or a
\* restart persists from memory takes a due slot back.
THEOREM DueSlotsAreRun ==
    ASSUME Alone
    PROVE  CronSpec => SlotsAreRun
<1>1. CourseInv /\ [CronNext]_cronVars => SlotStep
  <2> SUFFICES ASSUME CourseInv, [CronNext]_cronVars, NEW j \in Jobs \ excused, Overtaken(j)
               PROVE  \/ disk[j].lastRun >= disk[j].next \/ disk[j].running # "none"
                      \/ Recalculates(j)
    BY DEF SlotStep, Recalculates
  <2>1. /\ j \in DOMAIN disk /\ j \in DOMAIN disk' /\ disk[j].enabled
        /\ disk[j].next < disk'[j].next
    BY DEF Overtaken
  <2>2. disk[j] \in JobState
    BY <2>1 DEF CourseInv, IInv, Stores, Good, Sound
  <2>3. ~Alike(disk[j], disk'[j])
    BY <2>1, <2>2 DEF Alike, JobState, Times
  <2>4. Proceeds(j)
    BY StepsProceed DEF CourseInv
  <2> QED
    BY <2>1, <2>3, <2>4 DEF Proceeds, SlotStays, ResultComes, SlotIsRecomputed
<1>2. CronSpec => []CourseInv
  BY CourseIsInvariant
<1>3. CronSpec => [][SlotStep]_cronVars
  BY <1>1, <1>2, PTL DEF CronSpec
<1> QED
  BY <1>3, PTL DEF SlotsAreRun, SlotStep

\* A service that has its file for itself never begins a one-shot again that has succeeded,
\* was skipped or has used up its retries: the result disables it in the file, nothing but a
\* patch enables it again, and a job that a section has claimed is enabled.
THEOREM OneShotsRunOnce ==
    ASSUME Alone
    PROVE  CronSpec => OneShotsDoNotRepeat
<1>1. CourseInv /\ [CronNext]_cronVars => OneShotStep
  <2> SUFFICES ASSUME CourseInv, [CronNext]_cronVars, NEW j \in Jobs \ excused, Begins(j), Settled(j)
               PROVE  FALSE
    BY DEF OneShotStep
  <2>1. j \in DOMAIN disk /\ ~disk[j].enabled
    BY DEF CourseInv, Rests, AtRest, Settled
  <2> QED
    BY <2>1, BeginsMarked DEF CourseInv
<1>2. CronSpec => []CourseInv
  BY CourseIsInvariant
<1>3. CronSpec => [][OneShotStep]_cronVars
  BY <1>1, <1>2, PTL DEF CronSpec
<1> QED
  BY <1>3, PTL DEF OneShotsDoNotRepeat, OneShotStep

-----------------------------------------------------------------------------
(* The types, however many services share the file.                        *)

\* Batches are of jobs.
OfJobs(b) == /\ b.todo \in Seq(Jobs)
             /\ DOMAIN b.active \subseteq Jobs /\ DOMAIN b.done \subseteq Jobs

StartPlaces == {"off", "clear", "plan", "run", "arm", "up"}
TickPlaces  == {"idle", "collect", "run", "end"}

Places == \A s \in Services : /\ boot[s].at \in StartPlaces /\ OfJobs(boot[s])
                              /\ tick[s].at \in TickPlaces /\ OfJobs(tick[s])

\* A service whose start() has not read the file has no store: everything else that leaves one
\* in memory is done by a service that has.
Unread == \A s \in Services : boot[s].at = "clear" => memory[s] = NoStore

Ranges == /\ now \in 1..MaxTime /\ timer \subseteq Services
          /\ fresh \subseteq Jobs \ Stored /\ cut \subseteq Jobs /\ events \in 0..MaxEvents

TypesInv == Places /\ Unread /\ Ranges

LEMMA BeginIsOfJobs ==
    ASSUME NEW b, BatchOK(b), OfJobs(b), b.todo # <<>>
    PROVE  /\ OfJobs(Begin(b, Head(b.todo))) /\ Begin(b, Head(b.todo)).at = b.at
           /\ Head(b.todo) \in Jobs
<1> DEFINE h == Head(b.todo)
<1>1. h \in Jobs /\ Tail(b.todo) \in Seq(Jobs)
  BY DEF OfJobs
<1>2. /\ Begin(b, h).todo = Tail(b.todo) /\ Begin(b, h).done = b.done /\ Begin(b, h).at = b.at
      /\ DOMAIN Begin(b, h).active = DOMAIN b.active \cup {h}
  BY DEF Begin, BatchOK, Put
<1> HIDE DEF h
<1>3. OfJobs(Begin(b, h))
  BY <1>1, <1>2 DEF OfJobs
<1> QED
  BY <1>1, <1>2, <1>3 DEF h

LEMMA EndIsOfJobs ==
    ASSUME NEW b, BatchOK(b), OfJobs(b), NEW j \in DOMAIN b.active, NEW res
    PROVE  OfJobs(End(b, j, res)) /\ End(b, j, res).at = b.at
<1>1. /\ End(b, j, res).todo = b.todo /\ End(b, j, res).at = b.at
      /\ DOMAIN End(b, j, res).active = DOMAIN b.active \ {j}
      /\ DOMAIN End(b, j, res).done = DOMAIN b.done \cup {j}
  BY DEF End, BatchOK, Put
<1> QED
  BY <1>1 DEF OfJobs

LEMMA EmptyIsOfJobs ==
    /\ OfJobs(Idle) /\ OfJobs(Off) /\ Idle.at = "idle"
    /\ \A a : /\ OfJobs([Idle EXCEPT !.at = a]) /\ [Idle EXCEPT !.at = a].at = a
              /\ OfJobs([Off EXCEPT !.at = a]) /\ [Off EXCEPT !.at = a].at = a
  BY DEF OfJobs, Idle, Off, NoRuns

\* A step of one service's start, or of its tick.
LEMMA StartPlaced ==
    ASSUME Shapes, Places, NEW s \in Services, NEW b, boot' = [boot EXCEPT ![s] = b],
           b.at \in StartPlaces, OfJobs(b), UNCHANGED tick
    PROVE  Places'
<1>1. boot'[s] = b /\ \A t \in Services \ {s} : boot'[t] = boot[t]
  BY DEF Shapes
<1> QED
  BY <1>1 DEF Places, OfJobs

LEMMA TickPlaced ==
    ASSUME Shapes, Places, NEW s \in Services, NEW b, tick' = [tick EXCEPT ![s] = b],
           b.at \in TickPlaces, OfJobs(b), UNCHANGED boot
    PROVE  Places'
<1>1. tick'[s] = b /\ \A t \in Services \ {s} : tick'[t] = tick[t]
  BY DEF Shapes
<1> QED
  BY <1>1 DEF Places, OfJobs

\* planStartupCatchup takes jobs of the store.
LEMMA PlanTakesJobs ==
    ASSUME NEW s, StartPlan(s), Good(memory[s])
    PROVE  \E todo \in Seq(Jobs), a \in {"arm", "run"} : \E rest :
               boot' = [boot EXCEPT ![s] = [Off EXCEPT !.at = a, !.todo = todo, !.deferred = rest]]
<1> DEFINE store  == memory[s]
           missed == {j \in DOMAIN store \ boot[s].skip : IsMissed(j, store[j], now)}
<1>1. missed \in SUBSET Jobs
  BY DEF Good
<1>2. PICK sorted \in SetToSeqs(missed) :
        LET todo == SubSeq(sorted, 1, IF Len(sorted) < MaxImmediate THEN Len(sorted) ELSE MaxImmediate)
        IN  boot' = [boot EXCEPT ![s] =
               [Off EXCEPT !.at = IF missed = {} THEN "arm" ELSE "run", !.todo = todo,
                           !.deferred = SubSeq(sorted, Len(todo) + 1, Len(sorted))]]
  BY DEF StartPlan
<1> DEFINE n == IF Len(sorted) < MaxImmediate THEN Len(sorted) ELSE MaxImmediate
           todo == SubSeq(sorted, 1, n)
           rest == SubSeq(sorted, Len(todo) + 1, Len(sorted))
           a == IF missed = {} THEN "arm" ELSE "run"
<1>3. boot' = [boot EXCEPT ![s] = [Off EXCEPT !.at = a, !.todo = todo, !.deferred = rest]]
  BY <1>2
<1>4. sorted \in Seq(Jobs)
  BY <1>1, OrderOf
<1>5. n \in 0..Len(sorted)
  BY <1>4, CronJobsAssumption
<1>6. a \in {"arm", "run"}
  OBVIOUS
<1> HIDE DEF n, a, missed
<1>7. todo \in Seq(Jobs)
  BY <1>4, <1>5
<1> HIDE DEF todo, rest
<1> QED
  BY <1>3, <1>6, <1>7

LEMMA StartsPlaced ==
    ASSUME IInv, Places, NEW s \in Services, Starts(s)
    PROVE  Places'
<1>1. Shapes /\ BatchOK(boot[s]) /\ OfJobs(boot[s]) /\ boot[s].at \in StartPlaces
  BY DEF IInv, Shapes, Places
<1>2. CASE StartClear(s)
  <2> DEFINE b == [boot[s] EXCEPT !.at = "plan",
                                  !.skip = {j \in DOMAIN disk : disk[j].running # "none"}]
  <2>1. boot' = [boot EXCEPT ![s] = b] /\ UNCHANGED tick
    BY <1>2 DEF StartClear
  <2>2. b.at \in StartPlaces /\ OfJobs(b)
    BY <1>1 DEF BatchOK, OfJobs, StartPlaces
  <2> HIDE DEF b
  <2> QED
    BY <1>1, <2>1, <2>2, StartPlaced
<1>3. CASE StartPlan(s)
  <2>1. boot[s].at = "plan" /\ UNCHANGED tick
    BY <1>3 DEF StartPlan
  <2>2. PICK todo \in Seq(Jobs), a \in {"arm", "run"} : \E rest :
          boot' = [boot EXCEPT ![s] = [Off EXCEPT !.at = a, !.todo = todo, !.deferred = rest]]
    BY <1>3, <2>1, PlanTakesJobs DEF IInv, Stores
  <2>3. PICK rest :
          boot' = [boot EXCEPT ![s] = [Off EXCEPT !.at = a, !.todo = todo, !.deferred = rest]]
    BY <2>2
  <2> DEFINE b == [Off EXCEPT !.at = a, !.todo = todo, !.deferred = rest]
  <2>4. b.at \in StartPlaces /\ OfJobs(b)
    BY DEF StartPlaces, OfJobs, Off, NoRuns
  <2> QED
    BY <1>1, <2>1, <2>3, <2>4, StartPlaced
<1>4. CASE StartRun(s)
  <2> DEFINE b == Begin(boot[s], Head(boot[s].todo))
  <2>1. boot[s].todo # <<>> /\ boot' = [boot EXCEPT ![s] = b] /\ UNCHANGED tick
    BY <1>4 DEF StartRun
  <2>2. b.at \in StartPlaces /\ OfJobs(b)
    BY <1>1, <2>1, BeginIsOfJobs
  <2> HIDE DEF b
  <2> QED
    BY <1>1, <2>1, <2>2, StartPlaced
<1>5. ASSUME NEW res \in Results, StartRunEnds(s, res)
      PROVE  Places'
  <2>1. PICK j \in DOMAIN boot[s].active : boot' = [boot EXCEPT ![s] = End(boot[s], j, res)]
    BY <1>5 DEF StartRunEnds
  <2>2. UNCHANGED tick
    BY <1>5 DEF StartRunEnds
  <2>3. End(boot[s], j, res).at \in StartPlaces /\ OfJobs(End(boot[s], j, res))
    BY <1>1, EndIsOfJobs
  <2> QED
    BY <1>1, <2>1, <2>2, <2>3, StartPlaced
<1>6. CASE StartOutcomes(s)
  <2>1. boot' = [boot EXCEPT ![s] = [Off EXCEPT !.at = "arm"]] /\ UNCHANGED tick
    BY <1>6 DEF StartOutcomes
  <2> DEFINE b == [Off EXCEPT !.at = "arm"]
  <2>2. b.at \in StartPlaces /\ OfJobs(b)
    BY EmptyIsOfJobs DEF StartPlaces
  <2> HIDE DEF b
  <2> QED
    BY <1>1, <2>1, <2>2, StartPlaced DEF b
<1>7. CASE StartArm(s)
  <2> DEFINE b == [boot[s] EXCEPT !.at = "up"]
  <2>1. boot' = [boot EXCEPT ![s] = b] /\ UNCHANGED tick
    BY <1>7 DEF StartArm
  <2>2. b.at \in StartPlaces /\ OfJobs(b)
    BY <1>1 DEF BatchOK, OfJobs, StartPlaces
  <2> HIDE DEF b
  <2> QED
    BY <1>1, <2>1, <2>2, StartPlaced
<1> QED
  BY <1>2, <1>3, <1>4, <1>5, <1>6, <1>7 DEF Starts

LEMMA TicksPlaced ==
    ASSUME IInv, Places, NEW s \in Services, Ticks(s)
    PROVE  Places'
<1>1. Shapes /\ BatchOK(tick[s]) /\ OfJobs(tick[s]) /\ tick[s].at \in TickPlaces
  BY DEF IInv, Shapes, Places
<1>2. CASE TimerFires(s)
  <2> DEFINE b == [tick[s] EXCEPT !.at = "collect"]
  <2>1. tick' = [tick EXCEPT ![s] = b] /\ UNCHANGED boot
    BY <1>2 DEF TimerFires
  <2>2. b.at \in TickPlaces /\ OfJobs(b)
    BY <1>1 DEF BatchOK, OfJobs, TickPlaces
  <2> HIDE DEF b
  <2> QED
    BY <1>1, <2>1, <2>2, TickPlaced
<1>3. CASE Collect(s)
  <2> DEFINE due == {j \in DOMAIN disk : IsRunnable(j, disk[j], now)}
  <2>1. due \in SUBSET Jobs
    BY DEF IInv, Stores, Good
  <2>2. PICK todo \in SetToSeqs(due) :
          tick' = [tick EXCEPT ![s] = [tick[s] EXCEPT !.at = IF due = {} THEN "end" ELSE "run",
                                                      !.todo = todo]]
    BY <1>3 DEF Collect
  <2>3. todo \in Seq(Jobs) /\ UNCHANGED boot
    BY <1>3, <2>1, OrderOf DEF Collect
  <2> DEFINE a == IF due = {} THEN "end" ELSE "run"
             b == [tick[s] EXCEPT !.at = a, !.todo = todo]
  <2>4. a \in TickPlaces
    BY DEF TickPlaces
  <2>5. tick' = [tick EXCEPT ![s] = b]
    BY <2>2
  <2> HIDE DEF a
  <2>6. b.at \in TickPlaces /\ OfJobs(b)
    BY <1>1, <2>3, <2>4 DEF BatchOK, OfJobs
  <2> HIDE DEF b
  <2> QED
    BY <1>1, <2>3, <2>5, <2>6, TickPlaced
<1>4. CASE RunDueJob(s)
  <2> DEFINE b == Begin(tick[s], Head(tick[s].todo))
  <2>1. tick[s].todo # <<>> /\ tick' = [tick EXCEPT ![s] = b] /\ UNCHANGED boot
    BY <1>4 DEF RunDueJob
  <2>2. b.at \in TickPlaces /\ OfJobs(b)
    BY <1>1, <2>1, BeginIsOfJobs
  <2> HIDE DEF b
  <2> QED
    BY <1>1, <2>1, <2>2, TickPlaced
<1>5. ASSUME NEW j \in Jobs, NEW res \in Results, DueJobEnds(s, j, res)
      PROVE  Places'
  <2>1. /\ j \in DOMAIN tick[s].active /\ tick' = [tick EXCEPT ![s] = End(tick[s], j, res)]
        /\ UNCHANGED boot
    BY <1>5 DEF DueJobEnds
  <2>2. End(tick[s], j, res).at \in TickPlaces /\ OfJobs(End(tick[s], j, res))
    BY <1>1, <2>1, EndIsOfJobs
  <2> QED
    BY <1>1, <2>1, <2>2, TickPlaced
<1>6. CASE Finish(s)
  <2>1. tick' = [tick EXCEPT ![s] = [Idle EXCEPT !.at = "end"]] /\ UNCHANGED boot
    BY <1>6 DEF Finish
  <2> DEFINE b == [Idle EXCEPT !.at = "end"]
  <2>2. b.at \in TickPlaces /\ OfJobs(b)
    BY EmptyIsOfJobs DEF TickPlaces
  <2> HIDE DEF b
  <2> QED
    BY <1>1, <2>1, <2>2, TickPlaced DEF b
<1>7. CASE TickEnds(s)
  <2>1. tick' = [tick EXCEPT ![s] = Idle] /\ UNCHANGED boot
    BY <1>7 DEF TickEnds
  <2> QED
    BY <1>1, <2>1, EmptyIsOfJobs, TickPlaced DEF TickPlaces
<1> QED
  BY <1>2, <1>3, <1>4, <1>5, <1>6, <1>7 DEF Ticks

\* What the calls have in common: one service's memory and timer, and new jobs that are used up.
CallsOf(s) == /\ UNCHANGED <<now, boot, tick, cut>> /\ \E m : memory' = [memory EXCEPT ![s] = m]
              /\ timer' \subseteq timer \cup {s} /\ fresh' \subseteq fresh
              /\ UNCHANGED events \/ Event

LEMMA CallsAreCalls == ASSUME NEW s \in Services, Calls(s) PROVE CallsOf(s)
<1>1. CASE List(s)
  BY <1>1 DEF List, Persist, CallsOf
<1>2. ASSUME NEW j \in Jobs, Add(s, j) PROVE CallsOf(s)
  BY <1>2 DEF Add, Persist, ArmTimer, CallsOf
<1>3. ASSUME NEW j \in Jobs, RemoveJob(s, j) PROVE CallsOf(s)
  BY <1>3 DEF RemoveJob, Persist, ArmTimer, CallsOf
<1>4. ASSUME NEW j \in Jobs, NEW patch, Update(s, j, patch) PROVE CallsOf(s)
  BY <1>4 DEF Update, Persist, ArmTimer, CallsOf
<1>5. ASSUME NEW c \in Manuals, NEW force \in BOOLEAN, EnqueueRun(s, c, force) PROVE CallsOf(s)
  BY <1>5 DEF EnqueueRun, Preflight, CallsOf
<1> QED
  BY <1>1, <1>2, <1>3, <1>4, <1>5 DEF Calls

\* Calls, manual runs and aging markers leave starts and ticks alone.
LEMMA NextPlaced == ASSUME IInv, Places, [CronNext]_cronVars PROVE Places'
<1>1. CASE UNCHANGED <<boot, tick>>
  BY <1>1 DEF Places, OfJobs
<1>2. ASSUME NEW s \in Services, Calls(s) PROVE UNCHANGED <<boot, tick>>
  BY <1>2, CallsAreCalls DEF CallsOf
<1>3. ASSUME NEW c \in Manuals, Manual(c) PROVE UNCHANGED <<boot, tick>>
  BY <1>3 DEF Manual, ManualPreflight, Reserve, FinishManual, ManualEnds
<1>4. ASSUME NEW j \in Outlasting, MarkerAges(j) PROVE UNCHANGED <<boot, tick>>
  BY <1>4 DEF MarkerAges
<1>5. Advance \/ UNCHANGED cronVars => UNCHANGED <<boot, tick>>
  BY DEF Advance, cronVars
<1>6. CASE Crash
  <2>1. \A s \in Services : boot'[s] = [Off EXCEPT !.at = "clear"] /\ tick'[s] = Idle
    BY <1>6 DEF Crash
  <2> DEFINE b == [Off EXCEPT !.at = "clear"]
  <2>2. OfJobs(b) /\ b.at = "clear" /\ OfJobs(Idle) /\ Idle.at = "idle"
    BY EmptyIsOfJobs
  <2> HIDE DEF b
  <2>3. \A s \in Services : /\ boot'[s].at = "clear" /\ OfJobs(boot'[s])
                            /\ tick'[s].at = "idle" /\ OfJobs(tick'[s])
    BY <2>1, <2>2 DEF b
  <2> QED
    BY <2>3 DEF Places, OfJobs, StartPlaces, TickPlaces
<1> QED
  BY <1>1, <1>2, <1>3, <1>4, <1>5, <1>6, StartsPlaced, TicksPlaced DEF CronNext

\* Only a service that has read the file, or reads it now, gets a store.
LEMMA StaysUnread ==
    ASSUME Unread, NEW s \in Services, boot[s].at # "clear" \/ boot'[s].at # "clear",
           \A t \in Services \ {s} : memory'[t] = memory[t] /\ boot'[t] = boot[t],
           boot'[s].at = "clear" => boot[s].at = "clear"
    PROVE  Unread'
  BY DEF Unread

LEMMA StartsUnread ==
    ASSUME IInv, Unread, NEW s \in Services, Starts(s)
    PROVE  Unread'
<1>1. \A t \in Services \ {s} : memory'[t] = memory[t]
  BY DEF Starts, StartClear, StartPlan, StartRun, StartRunEnds, StartOutcomes, StartArm, Persist,
         IInv, Shapes
<1>2. \A t \in Services \ {s} : boot'[t] = boot[t]
  BY DEF Starts, StartClear, StartPlan, StartRun, StartRunEnds, StartOutcomes, StartArm,
         IInv, Shapes
<1>3. DOMAIN boot = Services /\ BatchOK(boot[s])
  BY DEF IInv, Shapes
<1>4. boot'[s].at # "clear"
  <2>1. CASE StartClear(s)
    <3>1. boot' = [boot EXCEPT ![s] = [boot[s] EXCEPT !.at = "plan",
                       !.skip = {j \in DOMAIN disk : disk[j].running # "none"}]]
      BY <2>1 DEF StartClear
    <3> QED
      BY <1>3, <3>1 DEF BatchOK
  <2>2. CASE StartPlan(s)
    <3>1. PICK a \in {"arm", "run"} : \E todo, rest :
            boot' = [boot EXCEPT ![s] = [Off EXCEPT !.at = a, !.todo = todo, !.deferred = rest]]
      BY <2>2 DEF StartPlan
    <3> QED
      BY <1>3, <3>1 DEF Off
  <2>3. CASE StartRun(s)
    <3>1. boot[s].at = "run" /\ boot' = [boot EXCEPT ![s] = Begin(boot[s], Head(boot[s].todo))]
      BY <2>3 DEF StartRun
    <3>2. Begin(boot[s], Head(boot[s].todo)).at = "run"
      BY <1>3, <3>1, BeginIsOK DEF IInv, Shapes
    <3> QED
      BY <1>3, <3>1, <3>2
  <2>4. ASSUME NEW res \in Results, StartRunEnds(s, res)
        PROVE  boot'[s].at # "clear"
    <3>1. PICK j \in DOMAIN boot[s].active : boot' = [boot EXCEPT ![s] = End(boot[s], j, res)]
      BY <2>4 DEF StartRunEnds
    <3>2. boot[s].at = "run"
      BY <2>4 DEF StartRunEnds
    <3>3. End(boot[s], j, res).at = "run"
      BY <1>3, <3>2, EndIsOK DEF IInv, Shapes
    <3> QED
      BY <1>3, <3>1, <3>3
  <2>5. CASE StartOutcomes(s)
    <3>1. boot' = [boot EXCEPT ![s] = [Off EXCEPT !.at = "arm"]]
      BY <2>5 DEF StartOutcomes
    <3> QED
      BY <1>3, <3>1 DEF Off
  <2>6. CASE StartArm(s)
    <3>1. boot' = [boot EXCEPT ![s] = [boot[s] EXCEPT !.at = "up"]]
      BY <2>6 DEF StartArm
    <3> QED
      BY <1>3, <3>1 DEF BatchOK
  <2> QED
    BY <2>1, <2>2, <2>3, <2>4, <2>5, <2>6 DEF Starts
<1> QED
  BY <1>1, <1>2, <1>4, StaysUnread

LEMMA NextUnread == ASSUME IInv, Unread, [CronNext]_cronVars PROVE Unread'
<1>1. ASSUME NEW s \in Services, boot[s].at # "clear", UNCHANGED boot,
             \A t \in Services \ {s} : memory'[t] = memory[t]
      PROVE  Unread'
  BY <1>1 DEF Unread
<1>2. ASSUME UNCHANGED <<memory, boot>> PROVE Unread'
  BY <1>2 DEF Unread
<1>3. ASSUME NEW s \in Services, Ticks(s) PROVE Unread'
  <2>1. UNCHANGED boot /\ \A t \in Services \ {s} : memory'[t] = memory[t]
    BY <1>3 DEF Ticks, TimerFires, Collect, RunDueJob, DueJobEnds, Finish, TickEnds, Persist,
                IInv, Shapes
  <2>2. s \in timer \/ tick[s].at # "idle"
    BY <1>3 DEF Ticks, TimerFires, Collect, RunDueJob, DueJobEnds, Finish, TickEnds
  <2> QED
    BY <1>1, <2>1, <2>2, NotClear
<1>4. ASSUME NEW s \in Services, Calls(s) PROVE Unread'
  <2>1. UNCHANGED boot /\ \E m : memory' = [memory EXCEPT ![s] = m]
    BY <1>4, CallsAreCalls DEF CallsOf
  <2>2. \A t \in Services \ {s} : memory'[t] = memory[t]
    BY <2>1 DEF IInv, Shapes
  <2> QED
    BY <1>1, <1>4, <2>1, <2>2 DEF Calls, Callable
<1>5. ASSUME NEW c \in Manuals, Manual(c) PROVE Unread'
  <2> DEFINE s == manual[c].s
  <2>1. manual[c].at # "none"
    BY <1>5 DEF Manual, ManualPreflight, Reserve, FinishManual, ManualEnds
  <2>2. s \in Services /\ boot[s].at # "clear"
    BY <2>1, NotClear
  <2>3. UNCHANGED boot /\ \A t \in Services \ {s} : memory'[t] = memory[t]
    BY <1>5 DEF Manual, ManualPreflight, Reserve, FinishManual, ManualEnds, Preflight, Persist,
                IInv, Shapes
  <2> HIDE DEF s
  <2> QED
    BY <1>1, <2>2, <2>3
<1>6. ASSUME NEW j \in Outlasting, MarkerAges(j) PROVE Unread'
  <2>1. UNCHANGED boot /\ \A s \in Services : memory[s] = NoStore => memory'[s] = NoStore
    BY <1>6 DEF MarkerAges
  <2> QED
    BY <2>1 DEF Unread
<1>7. CASE Crash
  BY <1>7 DEF Crash, Unread
<1>8. CASE Advance \/ UNCHANGED cronVars
  BY <1>2, <1>8 DEF Advance, cronVars
<1> QED
  BY <1>3, <1>4, <1>5, <1>6, <1>7, <1>8, StartsUnread DEF CronNext

LEMMA NextRanges == ASSUME IInv, Ranges, [CronNext]_cronVars PROVE Ranges'
<1>1. ASSUME now' = now \/ (now < MaxTime /\ now' = now + 1),
             timer' \subseteq timer \cup Services, fresh' \subseteq fresh,
             cut' \subseteq cut \cup Jobs, events' = events \/ Event
      PROVE  Ranges'
  BY <1>1, CronServiceAssumption DEF Ranges, Event
<1>2. ASSUME NEW s \in Services, Starts(s) PROVE Ranges'
  BY <1>1, <1>2 DEF Starts, StartClear, StartPlan, StartRun, StartRunEnds, StartOutcomes,
                    StartArm, ArmTimer
<1>3. ASSUME NEW s \in Services, Ticks(s) PROVE Ranges'
  BY <1>1, <1>3 DEF Ticks, TimerFires, Collect, RunDueJob, DueJobEnds, Finish, TickEnds, ArmTimer
<1>4. ASSUME NEW s \in Services, Calls(s) PROVE Ranges'
  BY <1>1, <1>4, CallsAreCalls DEF CallsOf
<1>5. ASSUME NEW c \in Manuals, Manual(c) PROVE Ranges'
  <2>1. manual[c].at # "none" => manual[c].s \in Services
    BY NotClear
  <2>2. UNCHANGED <<now, fresh, events, cut>>
    BY <1>5 DEF Manual, ManualPreflight, Reserve, FinishManual, ManualEnds
  <2>3. timer' \subseteq timer \cup Services
    BY <1>5, <2>1 DEF Manual, ManualPreflight, Reserve, FinishManual, ManualEnds, ArmTimer
  <2> QED
    BY <1>1, <2>2, <2>3
<1>6. ASSUME NEW j \in Outlasting, MarkerAges(j) PROVE Ranges'
  BY <1>1, <1>6 DEF MarkerAges
<1>7. CASE Crash
  BY <1>1, <1>7 DEF Crash
<1>8. CASE Advance \/ UNCHANGED cronVars
  BY <1>1, <1>8 DEF Advance, cronVars
<1> QED
  BY <1>2, <1>3, <1>4, <1>5, <1>6, <1>7, <1>8 DEF CronNext

LEMMA InitTypes == ASSUME CronInit PROVE TypesInv
<1> USE DEF CronInit
<1>1. Ranges
  BY CronServiceAssumption DEF Ranges
<1>2. Unread
  BY DEF Unread
<1>3. \A s \in Services : /\ boot[s].at = "clear" /\ OfJobs(boot[s])
                          /\ tick[s].at = "idle" /\ OfJobs(tick[s])
  BY EmptyIsOfJobs
<1> QED
  BY <1>1, <1>2, <1>3 DEF TypesInv, Places, StartPlaces, TickPlaces

\* A good store is a store; what a service has in memory is one, once it has read the file.
LEMMA TypesFollow == ASSUME IInv, TypesInv PROVE CronTypeOK
<1>1. IsStore(disk) /\ \A s \in Services : memory[s] = NoStore \/ IsStore(memory[s])
  BY DEF IInv, TypesInv, Stores, Unread, Good, Sound, IsStore
<1>2. ASSUME NEW s \in Services
      PROVE  Batch(boot[s], StartPlaces) /\ Batch(tick[s], TickPlaces)
  BY DEF TypesInv, Places, OfJobs, Batch, Set
<1>3. \A c \in Manuals : manual[c].at \in {"none", "queued", "ready", "run", "finish"}
  BY DEF IInv, ManualsOK, ManualOK
<1> QED
  BY <1>1, <1>2, <1>3 DEF CronTypeOK, TypesInv, Ranges, StartPlaces, TickPlaces

\* The file and the memory of every service that has read it hold stores, batches and manual
\* runs are of jobs and in their phases, and only services have timers: however many services
\* share the file, and whatever they reload or persist over one another.
THEOREM CronTypesHold == CronSpec => []CronTypeOK
<1> DEFINE Inv == IInv /\ TypesInv
<1>1. CronInit => Inv
  BY InitIInv, InitTypes
<1>2. Inv /\ [CronNext]_cronVars => Inv'
  BY NextIInv, NextPlaced, NextUnread, NextRanges DEF TypesInv
<1>3. Inv => CronTypeOK
  BY TypesFollow
<1> QED
  BY <1>1, <1>2, <1>3, PTL DEF CronSpec

=============================================================================
