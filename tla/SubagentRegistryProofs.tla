----------------------- MODULE SubagentRegistryProofs -----------------------
(***************************************************************************)
(* Proofs about the registry of subagent runs, for any runs, sessions and  *)
(* nesting, any limit of retries and any number of steers, kills, sweeps   *)
(* and crashes.                                                            *)
(*                                                                         *)
(* What is known of a run is spread over its record, the copy of it on     *)
(* disk, its announce flow, timers, calls and pending completions; but it  *)
(* is only the run's own.  The invariant is therefore a conjunction over   *)
(* runs, and a step is looked at through the eyes of one run at a time.    *)
(***************************************************************************)
EXTENDS SubagentRegistry, TLAPS

Stages == {"none", "announce", "deliver", "closing", "giveup"}
States == {"none", "running", "failing", "failed", "finished", "lost"}

\* A map of records.
Store(st) == DOMAIN st \subseteq Runs /\ \A i \in DOMAIN st : st[i] \in Record

\* What a record may say, in memory and on disk, of a run whose announce flow is at f, that
\* was announced n times and whose agent is in state a: once its announce has begun it has
\* ended, is marked and neither killed nor steered; a kill settles it; an outcome "error"
\* stands only for a run that has failed for good; only an announce uses up retries, and
\* none begins when they are used up.
Decent(r, f, n, a) ==
    /\ f # "none" \/ n > 0 => r.ended /\ r.suppress = "none" /\ (r.handled \/ r.done)
    /\ r.suppress = "killed" => r.ended /\ r.handled /\ r.done
    /\ r.outcome = "error" /\ r.suppress # "killed" => a \in {"failed", "lost"}
    /\ r.retries > 0 => r.ended /\ r.suppress = "none"
    /\ r.retries >= MaxRetries => (r.handled \/ r.done) /\ f \notin {"announce", "deliver"}

RecordsDecent(k) ==
    /\ k \in DOMAIN runs => Decent(runs[k], flow[k], announced[k], agent[k])
    /\ k \in DOMAIN disk => Decent(disk[k], flow[k], announced[k], agent[k])

\* A run whose agent has not started is unknown everywhere.
UnknownBefore(k) ==
    agent[k] = "none" =>
        /\ k \notin DOMAIN runs /\ k \notin DOMAIN disk /\ flow[k] = "none" /\ announced[k] = 0
        /\ completing[k] = 0 /\ k \notin errors /\ k \notin steered
        /\ \A q \in Kinds : <<k, q>> \notin calls

\* A flow that has spoken only closes.
SpeaksOnce(k) == announced[k] <= 1 /\ (announced[k] > 0 => flow[k] \in {"none", "closing"})

\* A replaced run is forgotten.
ReplacedIsGone(k) ==
    k \in steered => /\ k \notin DOMAIN runs /\ k \notin DOMAIN disk
                     /\ flow[k] = "none" /\ announced[k] = 0

\* A pending error is that of an agent which may still be tried again.
ErrorsPend(k) == k \in errors /\ k \in DOMAIN runs => agent[k] = "failing"

\* Marks in memory tell the truth, unless a crash has cut short what they stand for: a
\* completion is that of an ended run, a run whose announce is on has a flow, and a run marked
\* for a steer has a call.
Marks(r, f, c, whole, called) ==
    /\ c > 0 => r.ended
    /\ whole /\ r.handled /\ ~r.done => f # "none"
    /\ whole /\ r.suppress = "steer" => called

\* Who has an ended run in hand.  A retry timer alone is not enough: when it fires, a run that
\* is marked as resumed is passed over.
Hand(r, f, c, whole, lifts, retries) ==
    whole /\ r.ended /\ ~r.done =>
        c > 0 \/ f # "none" \/ r.suppress = "steer" \/ lifts \/ retries

MarksHold(k) ==
    k \in DOMAIN runs =>
        /\ Marks(runs[k], flow[k], completing[k], k \notin cut, <<k, "steer">> \in calls)
        /\ Hand(runs[k], flow[k], completing[k], k \notin cut, <<k, "clearing">> \in timers,
                <<k, "plain">> \in timers /\ k \notin resumed)

Fine(k) ==
    /\ RecordsDecent(k) /\ UnknownBefore(k) /\ SpeaksOnce(k) /\ ReplacedIsGone(k)
    /\ ErrorsPend(k) /\ MarksHold(k)

Typed ==
    /\ Store(runs) /\ Store(disk)
    /\ resumed \subseteq Runs /\ timers \subseteq Runs \X {"plain", "clearing"}
    /\ errors \subseteq Runs /\ waits \subseteq Runs /\ completing \in [Runs -> Nat]
    /\ flow \in [Runs -> Stages]
    /\ calls \subseteq Runs \X Kinds /\ sessions \subseteq Sessions /\ sweeping \subseteq Sessions
    /\ agent \in [Runs -> States]
    /\ events \in 0..MaxEvents /\ announced \in [Runs -> Nat]
    /\ cut \subseteq Runs /\ steered \subseteq Runs

RegInv == Typed /\ \A k \in Runs : Fine(k)

-----------------------------------------------------------------------------
(* resumeSubagentRun, through the eyes of one run. *)

Chosen(store, J, base, k) == k \in (J \cap DOMAIN store) \ base.resumed

Passed(store, J, base, k) ==
    /\ k \in DOMAIN runs' <=> k \in DOMAIN store
    /\ k \in DOMAIN store => runs'[k] = store[k]
    /\ flow'[k] = base.flow[k]
    /\ Chosen(store, J, base, k) =>
          \/ store[k].done \/ ~store[k].ended \/ store[k].suppress = "steer" \/ store[k].handled
          \/ <<k, "clearing">> \in timers'

Pruned(base, k) == k \notin DOMAIN runs' /\ flow'[k] = base.flow[k]

Spent(store, base, k) ==
    /\ k \in DOMAIN runs' /\ k \in DOMAIN store /\ store[k].retries >= MaxRetries
    /\ runs'[k] = [store[k] EXCEPT !.done = TRUE] /\ flow'[k] = base.flow[k]

Begun(store, k) ==
    /\ k \in DOMAIN runs' /\ k \in DOMAIN store
    /\ store[k].ended /\ ~store[k].handled /\ ~store[k].done /\ store[k].suppress # "steer"
    /\ ~(store[k].retries >= MaxRetries)
    /\ runs'[k] = [store[k] EXCEPT !.handled = TRUE] /\ flow'[k] = "announce"

\* A resume passes a run over, prunes it as an orphan, settles it for its retries, or begins
\* its announce; a chosen run that is passed over is settled, not ended, parked or busy, or
\* has a timer that lifts its mark.
LEMMA ResumeMoves ==
    ASSUME NEW store, NEW J, NEW base, Store(store), base.flow \in [Runs -> Stages],
           Resume(store, J, base), NEW k \in Runs
    PROVE  /\ \/ Passed(store, J, base, k) \/ Pruned(base, k)
              \/ Spent(store, base, k) \/ Begun(store, k)
           /\ <<k, "clearing">> \in base.timers => <<k, "clearing">> \in timers'
           /\ <<k, "plain">> \in timers' <=> <<k, "plain">> \in base.timers
           /\ k \in resumed' => k \in base.resumed \/ Chosen(store, J, base, k)
<1> DEFINE With(f) == {i \in (J \cap DOMAIN store) \ base.resumed : Fate(store, i) = f}
           New == [i \in DOMAIN store \ With("orphan") |->
                       IF i \in With("spent") THEN [store[i] EXCEPT !.done = TRUE]
                       ELSE IF i \in With("announce") THEN [store[i] EXCEPT !.handled = TRUE]
                       ELSE store[i]]
<1>1. /\ runs' = New
      /\ resumed' = UNION {base.resumed, With("backoff"), With("wait"), With("parked"), With("announce")}
      /\ timers' = base.timers \cup {<<i, "clearing">> : i \in With("backoff")}
      /\ flow' = [i \in Runs |-> IF i \in With("announce") THEN "announce" ELSE base.flow[i]]
  BY DEF Resume
<1>2. /\ <<k, "clearing">> \in base.timers => <<k, "clearing">> \in timers'
      /\ <<k, "plain">> \in timers' <=> <<k, "plain">> \in base.timers
      /\ k \in With("backoff") => <<k, "clearing">> \in timers'
  BY <1>1
<1>3. k \in resumed' => k \in base.resumed \/ Chosen(store, J, base, k)
  BY <1>1 DEF Chosen
<1>4. flow'[k] = IF k \in With("announce") THEN "announce" ELSE base.flow[k]
  BY <1>1
<1>5. DOMAIN runs' = DOMAIN store \ With("orphan")
  BY <1>1
<1>6. k \in DOMAIN runs' =>
          runs'[k] = IF k \in With("spent") THEN [store[k] EXCEPT !.done = TRUE]
                     ELSE IF k \in With("announce") THEN [store[k] EXCEPT !.handled = TRUE]
                     ELSE store[k]
  BY <1>1
<1>7. CASE ~Chosen(store, J, base, k)
  <2>1. \A f : k \notin With(f)
    BY <1>7 DEF Chosen
  <2> HIDE DEF With
  <2> QED
    BY <1>2, <1>3, <1>4, <1>5, <1>6, <1>7, <2>1 DEF Passed
<1>8. CASE Chosen(store, J, base, k)
  <2>1. \A f : k \in With(f) <=> Fate(store, k) = f
    BY <1>8 DEF Chosen
  <2>2. k \in DOMAIN store
    BY <1>8 DEF Chosen
  <2> HIDE DEF With
  <2>3. CASE Fate(store, k) = "orphan"
    BY <1>2, <1>3, <1>4, <1>5, <2>1, <2>3 DEF Pruned
  <2>4. CASE Fate(store, k) = "spent"
    <3>1. store[k].retries >= MaxRetries
      BY <2>4 DEF Fate
    <3> QED
      BY <1>2, <1>3, <1>4, <1>5, <1>6, <2>1, <2>2, <2>4, <3>1 DEF Spent
  <2>5. CASE Fate(store, k) = "announce"
    <3>1. /\ store[k].ended /\ ~store[k].handled /\ ~store[k].done /\ store[k].suppress # "steer"
          /\ ~(store[k].retries >= MaxRetries)
      BY <2>5 DEF Fate, MayBegin
    <3> QED
      BY <1>2, <1>3, <1>4, <1>5, <1>6, <2>1, <2>2, <2>5, <3>1 DEF Begun
  <2>6. CASE Fate(store, k) \notin {"orphan", "spent", "announce"}
    <3>1. \/ store[k].done \/ ~store[k].ended \/ store[k].suppress = "steer" \/ store[k].handled
          \/ Fate(store, k) = "backoff"
      BY <2>2, <2>6 DEF Fate, MayBegin
    <3>2. k \in With("backoff") \/ Fate(store, k) # "backoff"
      BY <2>1
    <3> QED
      BY <1>2, <1>3, <1>4, <1>5, <1>6, <2>1, <2>2, <2>6, <3>1, <3>2 DEF Passed
  <2> QED
    BY <2>3, <2>4, <2>5, <2>6
<1> QED
  BY <1>7, <1>8

\* What must be true of a run when a resume begins, the chosen runs being nobody's, and what
\* is true of it afterwards.
CanResume(store, J, base, k, n, a, c, whole, called) ==
    k \in DOMAIN store =>
        /\ Decent(store[k], base.flow[k], n, a)
        /\ Marks(store[k], base.flow[k], c, whole, called)
        /\ Hand(store[k], base.flow[k], c, whole, <<k, "clearing">> \in base.timers,
                \/ <<k, "plain">> \in base.timers /\ k \notin base.resumed
                \/ Chosen(store, J, base, k))

HasResumed(store, base, k, n, a, c, whole, called) ==
    /\ k \in DOMAIN runs' =>
           /\ k \in DOMAIN store /\ runs'[k] \in Record
           /\ Decent(runs'[k], flow'[k], n, a)
           /\ Marks(runs'[k], flow'[k], c, whole, called)
           /\ Hand(runs'[k], flow'[k], c, whole, <<k, "clearing">> \in timers',
                   <<k, "plain">> \in timers' /\ k \notin resumed')
    /\ flow'[k] = base.flow[k] \/ (flow'[k] = "announce" /\ n = 0 /\ k \in DOMAIN store)

LEMMA ResumeIsFine ==
    ASSUME NEW store, NEW J, NEW base, Store(store), base.flow \in [Runs -> Stages],
           Resume(store, J, base), NEW k \in Runs,
           NEW n \in Nat, NEW a, NEW c \in Nat, NEW whole \in BOOLEAN, NEW called \in BOOLEAN,
           CanResume(store, J, base, k, n, a, c, whole, called)
    PROVE  HasResumed(store, base, k, n, a, c, whole, called)
<1> USE DEF CanResume, HasResumed
<1>1. /\ \/ Passed(store, J, base, k) \/ Pruned(base, k)
         \/ Spent(store, base, k) \/ Begun(store, k)
      /\ <<k, "clearing">> \in base.timers => <<k, "clearing">> \in timers'
      /\ <<k, "plain">> \in timers' <=> <<k, "plain">> \in base.timers
      /\ k \in resumed' => k \in base.resumed \/ Chosen(store, J, base, k)
  BY ResumeMoves
<1>2. k \in DOMAIN store => store[k] \in Record
  BY DEF Store
<1>3. CASE Passed(store, J, base, k)
  <2>1. CASE k \notin DOMAIN store
    BY <1>3, <2>1 DEF Passed
  <2>2. CASE k \in DOMAIN store
    <3>1. /\ k \in DOMAIN runs' /\ runs'[k] = store[k] /\ flow'[k] = base.flow[k]
          /\ Decent(runs'[k], flow'[k], n, a)
          /\ Marks(runs'[k], flow'[k], c, whole, called)
      BY <1>3, <2>2 DEF Passed
    <3>2. Hand(runs'[k], flow'[k], c, whole, <<k, "clearing">> \in timers',
               <<k, "plain">> \in timers' /\ k \notin resumed')
      BY <1>1, <1>2, <1>3, <2>2, <3>1 DEF Passed, Hand, Marks
    <3> QED
      BY <1>2, <2>2, <3>1, <3>2
  <2> QED
    BY <2>1, <2>2
<1>4. CASE Pruned(base, k)
  BY <1>4 DEF Pruned
<1>5. CASE Spent(store, base, k)
  <2>1. /\ k \in DOMAIN store /\ store[k] \in Record /\ flow'[k] = base.flow[k]
        /\ runs'[k] = [store[k] EXCEPT !.done = TRUE]
    BY <1>2, <1>5 DEF Spent
  <2>2. /\ runs'[k] \in Record /\ runs'[k].done /\ runs'[k].ended = store[k].ended
        /\ runs'[k].suppress = store[k].suppress /\ runs'[k].handled = store[k].handled
        /\ runs'[k].outcome = store[k].outcome /\ runs'[k].retries = store[k].retries
    BY <2>1 DEF Record
  <2>3. /\ Decent(runs'[k], flow'[k], n, a) /\ Marks(runs'[k], flow'[k], c, whole, called)
        /\ Hand(runs'[k], flow'[k], c, whole, <<k, "clearing">> \in timers',
                <<k, "plain">> \in timers' /\ k \notin resumed')
    BY <2>1, <2>2 DEF Decent, Marks, Hand
  <2> QED
    BY <2>1, <2>2, <2>3
<1>6. CASE Begun(store, k)
  <2>1. /\ k \in DOMAIN store /\ store[k] \in Record /\ flow'[k] = "announce"
        /\ runs'[k] = [store[k] EXCEPT !.handled = TRUE]
        /\ store[k].ended /\ ~store[k].handled /\ ~store[k].done /\ store[k].suppress # "steer"
        /\ ~(store[k].retries >= MaxRetries)
    BY <1>2, <1>6 DEF Begun
  <2>2. /\ runs'[k] \in Record /\ runs'[k].done = store[k].done /\ runs'[k].ended = store[k].ended
        /\ runs'[k].suppress = store[k].suppress /\ runs'[k].handled
        /\ runs'[k].outcome = store[k].outcome /\ runs'[k].retries = store[k].retries
    BY <2>1 DEF Record
  <2>3. store[k].suppress = "none" /\ n = 0
    <3>1. store[k].suppress \in {"none", "steer", "killed"}
      BY <2>1 DEF Record
    <3> QED
      BY <2>1, <3>1 DEF Decent
  <2>4. /\ Decent(runs'[k], flow'[k], n, a) /\ Marks(runs'[k], flow'[k], c, whole, called)
        /\ Hand(runs'[k], flow'[k], c, whole, <<k, "clearing">> \in timers',
                <<k, "plain">> \in timers' /\ k \notin resumed')
    BY <2>1, <2>2, <2>3 DEF Decent, Marks, Hand
  <2> QED
    BY <2>1, <2>2, <2>3, <2>4
<1> QED
  BY <1>1, <1>3, <1>4, <1>5, <1>6

\* A resume keeps the types of what it writes.
LEMMA ResumeTypes ==
    ASSUME NEW store, NEW J \in SUBSET Runs, NEW base, Store(store),
           base.flow \in [Runs -> Stages], base.resumed \subseteq Runs,
           base.timers \subseteq Runs \X {"plain", "clearing"}, base.waits \subseteq Runs,
           Resume(store, J, base)
    PROVE  /\ Store(runs') /\ flow' \in [Runs -> Stages] /\ resumed' \subseteq Runs
           /\ timers' \subseteq Runs \X {"plain", "clearing"} /\ waits' \subseteq Runs
<1>1. DOMAIN runs' \subseteq DOMAIN store
  BY DEF Resume
<1>2. ASSUME NEW k \in DOMAIN runs' PROVE runs'[k] \in Record
  <2>1. k \in Runs /\ k \in DOMAIN store /\ store[k] \in Record
    BY <1>1, <1>2 DEF Store
  <2>2. Passed(store, J, base, k) \/ Pruned(base, k) \/ Spent(store, base, k) \/ Begun(store, k)
    BY <2>1, ResumeMoves
  <2>3. runs'[k] \in {store[k], [store[k] EXCEPT !.done = TRUE], [store[k] EXCEPT !.handled = TRUE]}
    BY <1>2, <2>1, <2>2 DEF Passed, Pruned, Spent, Begun
  <2> QED
    BY <2>1, <2>3 DEF Record
<1>3. flow' \in [Runs -> Stages]
  BY DEF Resume, Stages
<1>4. /\ resumed' \subseteq Runs /\ timers' \subseteq Runs \X {"plain", "clearing"}
      /\ waits' \subseteq Runs
  BY DEF Resume
<1> QED
  BY <1>1, <1>2, <1>3, <1>4 DEF Store

-----------------------------------------------------------------------------
(* What a step leaves alone. *)

SameRecord(k) ==
    /\ k \in DOMAIN runs' <=> k \in DOMAIN runs
    /\ k \in DOMAIN runs => runs'[k] = runs[k]

\* The copy on disk stays, goes, or becomes the record that this step leaves in memory.
DiskFollows(k) ==
    k \in DOMAIN disk' => \/ k \in DOMAIN disk /\ disk'[k] = disk[k]
                          \/ k \in DOMAIN runs' /\ disk'[k] = runs'[k]

Still(k) ==
    /\ flow'[k] = flow[k] /\ announced'[k] = announced[k] /\ completing'[k] = completing[k]
    /\ agent'[k] = agent[k]
    /\ k \in errors' => k \in errors
    /\ k \in steered' <=> k \in steered
    /\ k \in cut' <=> k \in cut
    /\ \A q \in Kinds : <<k, q>> \in calls' <=> <<k, q>> \in calls
    /\ <<k, "clearing">> \in timers' <=> <<k, "clearing">> \in timers
    /\ <<k, "plain">> \in timers' <=> <<k, "plain">> \in timers
    /\ k \in resumed' => k \in resumed

LEMMA StillIsFine ==
    ASSUME NEW k \in Runs, Fine(k), SameRecord(k), DiskFollows(k), Still(k)
    PROVE  Fine(k)'
<1>1. k \in DOMAIN runs' => Decent(runs'[k], flow'[k], announced'[k], agent'[k])
  BY DEF Fine, RecordsDecent, SameRecord, Still
<1>2. k \in DOMAIN disk' => Decent(disk'[k], flow'[k], announced'[k], agent'[k])
  BY <1>1 DEF Fine, RecordsDecent, DiskFollows, Still
<1>3. UnknownBefore(k)' /\ SpeaksOnce(k)' /\ ReplacedIsGone(k)' /\ ErrorsPend(k)'
  BY DEF Fine, UnknownBefore, SpeaksOnce, ReplacedIsGone, ErrorsPend, SameRecord, DiskFollows, Still
<1>4. MarksHold(k)'
  <2>1. k \in DOMAIN runs' => Marks(runs[k], flow[k], completing[k], k \notin cut, <<k, "steer">> \in calls)
                              /\ runs'[k] = runs[k]
    BY DEF Fine, MarksHold, SameRecord
  <2>2. k \in DOMAIN runs' => Hand(runs[k], flow[k], completing[k], k \notin cut, <<k, "clearing">> \in timers,
                                   <<k, "plain">> \in timers /\ k \notin resumed)
    BY DEF Fine, MarksHold, SameRecord
  <2> QED
    BY <2>1, <2>2 DEF MarksHold, Marks, Hand, Still, Kinds
<1> QED
  BY <1>1, <1>2, <1>3, <1>4 DEF Fine, RecordsDecent

\* Persisting makes the copy on disk the record in memory.
LEMMA PersistFollows ==
    ASSUME disk' = runs'
    PROVE  \A k : DiskFollows(k)
BY DEF DiskFollows

LEMMA StutterKeeps == RegInv /\ UNCHANGED regVars => RegInv'
<1> SUFFICES ASSUME RegInv, UNCHANGED regVars PROVE RegInv'
  OBVIOUS
<1>1. Typed'
  BY DEF RegInv, Typed, Store, regVars
<1>2. ASSUME NEW k \in Runs PROVE Fine(k)'
  BY StillIsFine DEF RegInv, SameRecord, DiskFollows, Still, regVars
<1> QED
  BY <1>1, <1>2 DEF RegInv

-----------------------------------------------------------------------------
(* Runs begin, end, and their completions go on. *)

LEMMA InitIsFine == RegInit => RegInv
<1> SUFFICES ASSUME RegInit PROVE RegInv
  OBVIOUS
<1>1. DOMAIN runs = {} /\ DOMAIN disk = {}
  BY DEF RegInit
<1>2. Typed
  BY <1>1, SubagentAssumption DEF RegInit, Typed, Store, Stages, States, SubagentAssumption
<1>3. ASSUME NEW k \in Runs PROVE Fine(k)
  BY <1>1 DEF RegInit, Fine, RecordsDecent, UnknownBefore, SpeaksOnce, ReplacedIsGone, ErrorsPend, MarksHold
<1> QED
  BY <1>2, <1>3 DEF RegInv

\* A new record.
LEMMA NewRunIsFine ==
    ASSUME NEW woken \in BOOLEAN, NEW a, NEW whole \in BOOLEAN, NEW called, NEW lifts, NEW retries
    PROVE  /\ NewRun(woken) \in Record
           /\ Decent(NewRun(woken), "none", 0, a)
           /\ Marks(NewRun(woken), "none", 0, whole, called)
           /\ Hand(NewRun(woken), "none", 0, whole, lifts, retries)
<1>1. MaxRetries \in Nat \ {0}
  BY SubagentAssumption DEF SubagentAssumption
<1>2. NewRun(woken) \in Record
  BY <1>1 DEF NewRun, Record
<1> QED
  BY <1>1, <1>2 DEF NewRun, Decent, Marks, Hand

\* A run comes into being: its record is new, in memory and on disk, and its agent runs.
LEMMA NewcomerIsFine ==
    ASSUME NEW j \in Runs, Fine(j), Typed, agent[j] = "none", NEW woken \in BOOLEAN,
           j \in DOMAIN runs', runs'[j] = NewRun(woken), disk' = runs',
           agent'[j] = "running", flow'[j] = flow[j], announced'[j] = announced[j],
           completing'[j] = completing[j], j \in errors' => j \in errors,
           j \in steered' => j \in steered, \A q \in Kinds : <<j, q>> \in calls' => <<j, q>> \in calls
    PROVE  Fine(j)'
<1>1. /\ flow'[j] = "none" /\ announced'[j] = 0 /\ completing'[j] = 0
      /\ j \notin errors' /\ j \notin steered' /\ \A q \in Kinds : <<j, q>> \notin calls'
  BY DEF Fine, UnknownBefore
<1>2. Decent(runs'[j], flow'[j], announced'[j], agent'[j]) /\ disk'[j] = runs'[j]
  BY <1>1, NewRunIsFine
<1>3. MarksHold(j)'
  BY <1>1, NewRunIsFine DEF MarksHold
<1> QED
  BY <1>1, <1>2, <1>3
  DEF Fine, RecordsDecent, UnknownBefore, SpeaksOnce, ReplacedIsGone, ErrorsPend

LEMMA RegisterIsFine == ASSUME NEW i \in Runs, Register(i), RegInv PROVE RegInv'
<1>1. /\ runs' = Put(runs, i, NewRun(FALSE)) /\ disk' = runs'
      /\ waits' = waits \cup {i}
      /\ agent' = [agent EXCEPT ![i] = "running"] /\ sessions' = sessions \cup {Home[i]}
      /\ UNCHANGED <<resumed, timers, errors, completing, flow, calls, sweeping, events,
                     announced, cut, steered>>
  BY DEF Register, Persist
<1>2. agent[i] = "none"
  BY DEF Register
<1>3. i \notin DOMAIN runs /\ Home[i] \in Sessions
  BY <1>2, SubagentAssumption DEF RegInv, Fine, UnknownBefore, SubagentAssumption
<1>4. /\ DOMAIN runs' = DOMAIN runs \cup {i} /\ runs'[i] = NewRun(FALSE)
      /\ \A k \in DOMAIN runs : runs'[k] = runs[k]
  BY <1>1, <1>3 DEF Put
<1>5. Typed'
  <2>1. Store(runs')
    BY <1>4, NewRunIsFine DEF RegInv, Typed, Store
  <2>2. agent' \in [Runs -> States]
    BY <1>1 DEF RegInv, Typed, States
  <2> QED
    BY <1>1, <1>3, <2>1, <2>2 DEF RegInv, Typed
<1>6. ASSUME NEW k \in Runs PROVE Fine(k)'
  <2>1. CASE k = i
    BY <1>1, <1>2, <1>4, <2>1, NewcomerIsFine DEF RegInv, Typed
  <2>2. CASE k # i
    <3>1. SameRecord(k) /\ DiskFollows(k)
      BY <1>1, <1>4, <2>2, PersistFollows DEF SameRecord
    <3>2. Still(k)
      BY <1>1, <2>2 DEF Still, RegInv, Typed
    <3> QED
      BY <3>1, <3>2, StillIsFine DEF RegInv
  <2> QED
    BY <2>1, <2>2
<1> QED
  BY <1>5, <1>6 DEF RegInv

\* What completeSubagentRun makes of the record of a run.
LEMMA EndedRecord ==
    ASSUME NEW store, Store(store), NEW i \in DOMAIN store, NEW outcome \in {"ok", "error"},
           agent \in [Runs -> States]
    PROVE  /\ DOMAIN Ended(store, i, outcome) = DOMAIN store
           /\ \A k \in DOMAIN store : k # i => Ended(store, i, outcome)[k] = store[k]
           /\ Ended(store, i, outcome)[i] \in Record
           /\ Ended(store, i, outcome)[i].ended /\ Ended(store, i, outcome)[i].outcome = outcome
           /\ Ended(store, i, outcome)[i].retries = store[i].retries
           /\ \/ /\ Ended(store, i, outcome)[i].suppress = store[i].suppress
                 /\ Ended(store, i, outcome)[i].handled = store[i].handled
                 /\ Ended(store, i, outcome)[i].done = store[i].done
              \/ /\ store[i].suppress = "killed"
                 /\ Ended(store, i, outcome)[i].suppress = "none"
                 /\ ~Ended(store, i, outcome)[i].handled /\ ~Ended(store, i, outcome)[i].done
<1> DEFINE r     == store[i]
           again == outcome = "ok" /\ r.suppress = "killed" /\ (r.handled \/ r.done)
           open  == IF again THEN [r EXCEPT !.suppress = "none", !.handled = FALSE, !.done = FALSE] ELSE r
           e     == [open EXCEPT !.ended = TRUE, !.outcome = outcome, !.old = @ /\ ~again,
                                 !.late = open.done /\ (@ \/ agent[i] \in {"running", "failing"})]
<1>1. r \in Record
  BY DEF Store
<1>2. Ended(store, i, outcome) = [store EXCEPT ![i] = e]
  BY DEF Ended
<1>3. Ended(store, i, outcome)[i] = e
  BY <1>2
<1>4. open \in Record /\ open.retries = r.retries
  <2>1. CASE again
    BY <1>1, <2>1 DEF Record
  <2>2. CASE ~again
    BY <1>1, <2>2
  <2> QED
    BY <2>1, <2>2
<1>5. \/ open.suppress = r.suppress /\ open.handled = r.handled /\ open.done = r.done
      \/ r.suppress = "killed" /\ open.suppress = "none" /\ ~open.handled /\ ~open.done
  BY <1>1 DEF Record
<1>6. /\ e \in Record /\ e.ended /\ e.outcome = outcome /\ e.retries = open.retries
      /\ e.suppress = open.suppress /\ e.handled = open.handled /\ e.done = open.done
  <2> HIDE DEF open, again
  <2>1. (open.old /\ ~again) \in BOOLEAN
    BY <1>4 DEF Record
  <2>2. (open.done /\ (open.late \/ agent[i] \in {"running", "failing"})) \in BOOLEAN
    BY <1>4 DEF Record
  <2> DEFINE old  == open.old /\ ~again
             late == open.done /\ (open.late \/ agent[i] \in {"running", "failing"})
  <2> DEFINE closed == [open EXCEPT !.ended = TRUE, !.outcome = outcome]
  <2>3. old \in BOOLEAN /\ late \in BOOLEAN
    BY <2>1, <2>2
  <2> HIDE DEF old, late
  <2>4. /\ closed \in Record /\ closed.ended /\ closed.outcome = outcome
        /\ closed.retries = open.retries /\ closed.suppress = open.suppress
        /\ closed.handled = open.handled /\ closed.done = open.done
    BY <1>4 DEF Record
  <2>5. e = [closed EXCEPT !.old = old, !.late = late]
    BY <1>4 DEF Record, old, late
  <2> HIDE DEF e, closed
  <2> QED
    BY <2>3, <2>4, <2>5 DEF Record
<1> HIDE DEF e, open, again
<1> QED
  BY <1>2, <1>3, <1>4, <1>5, <1>6

\* A completion, of a run whose agent has ended or may be outlasting its wait.
LEMMA CompleteIsFine ==
    ASSUME NEW i \in Runs, NEW outcome \in {"ok", "error"}, Complete(i, outcome), RegInv,
           agent' \in [Runs -> States], \A k \in Runs \ {i} : agent'[k] = agent[k],
           agent[i] # "none" => agent'[i] # "none",
           agent[i] \in {"failed", "lost"} => agent'[i] \in {"failed", "lost"},
           outcome = "error" /\ i \in DOMAIN runs => agent'[i] \in {"failed", "lost"},
           UNCHANGED <<resumed, timers, flow, calls, sessions, sweeping, events, announced, cut, steered>>,
           waits' \subseteq Runs, Store(disk'),
           \A k \in Runs \ {i} : DiskFollows(k) \/ (k \in DOMAIN runs /\ disk'[k] = runs[k]),
           i \in DOMAIN disk' =>
               /\ i \in DOMAIN disk \cup DOMAIN runs
               /\ Decent(disk'[i], flow[i], announced[i], agent'[i])
    PROVE  RegInv'
<1>1. errors' = errors \ {i}
  BY DEF Complete
<1>2. CASE i \in DOMAIN runs
  <2>1. /\ runs' = Ended(runs, i, outcome)
        /\ completing' = [completing EXCEPT ![i] = @ + 1]
    BY <1>2 DEF Complete
  <2>2. agent \in [Runs -> States] /\ Store(runs)
    BY DEF RegInv, Typed
  <2>3. /\ DOMAIN runs' = DOMAIN runs
        /\ \A k \in DOMAIN runs : k # i => runs'[k] = runs[k]
        /\ runs'[i] \in Record
        /\ runs'[i].ended /\ runs'[i].outcome = outcome
        /\ runs'[i].retries = runs[i].retries
        /\ \/ /\ runs'[i].suppress = runs[i].suppress
              /\ runs'[i].handled = runs[i].handled
              /\ runs'[i].done = runs[i].done
           \/ /\ runs[i].suppress = "killed"
              /\ runs'[i].suppress = "none"
              /\ ~runs'[i].handled /\ ~runs'[i].done
    BY <1>2, <2>1, <2>2, EndedRecord
  <2>4. Typed'
    <3>1. Store(runs')
      BY <2>2, <2>3 DEF Store
    <3>2. completing' \in [Runs -> Nat]
      BY <2>1 DEF RegInv, Typed
    <3> QED
      BY <1>1, <3>1, <3>2 DEF RegInv, Typed
  <2>5. ASSUME NEW k \in Runs PROVE Fine(k)'
    <3>1. CASE k # i
      <4>1. SameRecord(k) /\ DiskFollows(k)
        BY <2>3, <3>1 DEF SameRecord, DiskFollows
      <4>2. Still(k)
        BY <1>1, <2>1, <3>1 DEF Still, RegInv, Typed
      <4> QED
        BY <4>1, <4>2, StillIsFine DEF RegInv
    <3>2. CASE k = i
      <4>1. Fine(i) /\ Decent(runs[i], flow[i], announced[i], agent[i]) /\ announced[i] \in Nat
        BY <1>2 DEF RegInv, Typed, Fine, RecordsDecent
      <4>2. Decent(runs'[i], flow'[i], announced'[i], agent'[i])
        BY <1>2, <2>2, <2>3, <4>1, SubagentAssumption DEF Decent, Store, Record, SubagentAssumption
      <4>3. RecordsDecent(i)'
        BY <4>2 DEF RecordsDecent
      <4>4. MarksHold(i)'
        <5>1. completing'[i] > 0
          BY <2>1 DEF RegInv, Typed
        <5>2. Marks(runs'[i], flow'[i], completing'[i], i \notin cut', <<i, "steer">> \in calls')
          BY <1>2, <2>3, <4>1 DEF Marks, Fine, MarksHold
        <5>3. Hand(runs'[i], flow'[i], completing'[i], i \notin cut', <<i, "clearing">> \in timers',
                   <<i, "plain">> \in timers' /\ i \notin resumed')
          BY <5>1 DEF Hand
        <5> QED
          BY <5>2, <5>3 DEF MarksHold
      <4>5. UnknownBefore(i)'
        BY <1>2, <4>1 DEF Fine, UnknownBefore
      <4>6. ReplacedIsGone(i)' /\ SpeaksOnce(i)' /\ ErrorsPend(i)'
        BY <1>1, <1>2, <4>1 DEF Fine, ReplacedIsGone, SpeaksOnce, ErrorsPend
      <4> QED
        BY <3>2, <4>3, <4>4, <4>5, <4>6 DEF Fine
    <3> QED
      BY <3>1, <3>2
  <2> QED
    BY <2>4, <2>5 DEF RegInv
<1>3. CASE i \notin DOMAIN runs
  <2>1. UNCHANGED <<runs, completing>>
    BY <1>3 DEF Complete
  <2>2. Typed'
    BY <1>1, <2>1 DEF RegInv, Typed
  <2>3. ASSUME NEW k \in Runs PROVE Fine(k)'
    <3>1. CASE k # i
      <4>1. SameRecord(k) /\ DiskFollows(k)
        BY <2>1, <3>1 DEF SameRecord, DiskFollows
      <4>2. Still(k)
        BY <1>1, <2>1, <3>1 DEF Still, RegInv, Typed
      <4> QED
        BY <4>1, <4>2, StillIsFine DEF RegInv
    <3>2. CASE k = i
      <4>1. Fine(i)
        BY DEF RegInv
      <4>2. RecordsDecent(i)' /\ MarksHold(i)'
        BY <1>3, <2>1 DEF RecordsDecent, MarksHold
      <4>3. UnknownBefore(i)' /\ ReplacedIsGone(i)' /\ SpeaksOnce(i)' /\ ErrorsPend(i)'
        BY <1>1, <1>3, <2>1, <4>1 DEF Fine, UnknownBefore, ReplacedIsGone, SpeaksOnce, ErrorsPend
      <4> QED
        BY <3>2, <4>2, <4>3 DEF Fine
    <3> QED
      BY <3>1, <3>2
  <2> QED
    BY <2>2, <2>3 DEF RegInv
<1> QED
  BY <1>2, <1>3

LEMMA WaitReturnsIsFine ==
    ASSUME NEW i \in Runs, NEW answer \in {"ok", "error"}, WaitReturns(i, answer), RegInv
    PROVE  RegInv'
<1>1. /\ i \in DOMAIN runs /\ waits' = waits \ {i}
      /\ agent' = IF answer = "error" THEN [agent EXCEPT ![i] = "failed"] ELSE agent
      /\ disk' = [runs EXCEPT ![i].ended = TRUE, ![i].outcome = answer]
      /\ Complete(i, answer)
      /\ UNCHANGED <<resumed, timers, flow, calls, sessions, sweeping, events, announced, cut, steered>>
  BY DEF WaitReturns
<1>2. /\ agent' \in [Runs -> States] /\ \A k \in Runs \ {i} : agent'[k] = agent[k]
      /\ agent[i] # "none" => agent'[i] # "none"
      /\ agent[i] \in {"failed", "lost"} => agent'[i] \in {"failed", "lost"}
      /\ answer = "error" => agent'[i] \in {"failed", "lost"}
  BY <1>1 DEF RegInv, Typed, States
<1>3. /\ DOMAIN disk' = DOMAIN runs /\ \A k \in DOMAIN runs : k # i => disk'[k] = runs[k]
      /\ disk'[i] = [runs[i] EXCEPT !.ended = TRUE, !.outcome = answer]
  BY <1>1
<1>4. runs[i] \in Record /\ Decent(runs[i], flow[i], announced[i], agent[i])
  BY <1>1 DEF RegInv, Typed, Store, Fine, RecordsDecent
<1>5. /\ disk'[i] \in Record /\ disk'[i].ended /\ disk'[i].outcome = answer
      /\ disk'[i].suppress = runs[i].suppress /\ disk'[i].handled = runs[i].handled
      /\ disk'[i].done = runs[i].done /\ disk'[i].retries = runs[i].retries
  BY <1>3, <1>4 DEF Record
<1>6. Decent(disk'[i], flow[i], announced[i], agent'[i])
  BY <1>2, <1>4, <1>5 DEF Decent
<1>7. Store(disk') /\ waits' \subseteq Runs
  BY <1>1, <1>3, <1>5 DEF RegInv, Typed, Store
<1>8. \A k \in Runs \ {i} : DiskFollows(k) \/ (k \in DOMAIN runs /\ disk'[k] = runs[k])
  BY <1>3 DEF DiskFollows
<1> QED
  BY <1>1, <1>2, <1>6, <1>7, <1>8, CompleteIsFine

LEMMA CompletionGoesOnIsFine ==
    ASSUME NEW i \in Runs, CompletionGoesOn(i), RegInv PROVE RegInv'
<1>1. /\ completing[i] > 0 /\ completing' = [completing EXCEPT ![i] = @ - 1]
      /\ disk' = runs'
      /\ UNCHANGED <<resumed, timers, errors, waits, calls, sessions, sweeping, agent, events,
                     announced, cut, steered>>
  BY DEF CompletionGoesOn, Persist
<1>2. /\ completing' \in [Runs -> Nat] /\ completing'[i] = completing[i] - 1
      /\ \A k \in Runs \ {i} : completing'[k] = completing[k]
  BY <1>1 DEF RegInv, Typed
<1>3. Fine(i) /\ announced[i] \in Nat /\ Store(runs) /\ flow \in [Runs -> Stages]
  BY DEF RegInv, Typed
<1>4. CASE MayBegin(runs, i) /\ runs[i].suppress # "steer"
  <2>1. /\ i \in DOMAIN runs /\ ~runs[i].done /\ ~runs[i].handled /\ runs[i].suppress # "steer"
        /\ runs' = [runs EXCEPT ![i].handled = TRUE]
        /\ flow' = [flow EXCEPT ![i] = "announce"]
    BY <1>4 DEF CompletionGoesOn, MayBegin
  <2>2. /\ DOMAIN runs' = DOMAIN runs /\ \A k \in DOMAIN runs : k # i => runs'[k] = runs[k]
        /\ runs'[i] = [runs[i] EXCEPT !.handled = TRUE] /\ runs[i] \in Record
    BY <1>3, <2>1 DEF Store
  <2>3. /\ runs'[i] \in Record /\ runs'[i].handled /\ runs'[i].ended = runs[i].ended
        /\ runs'[i].done = runs[i].done /\ runs'[i].suppress = runs[i].suppress
        /\ runs'[i].outcome = runs[i].outcome /\ runs'[i].retries = runs[i].retries
    BY <2>2 DEF Record
  <2>4. /\ flow' \in [Runs -> Stages] /\ flow'[i] = "announce"
        /\ \A k \in Runs \ {i} : flow'[k] = flow[k]
    BY <1>3, <2>1 DEF Stages
  <2>5. Typed'
    <3>1. Store(runs')
      BY <1>3, <2>2, <2>3 DEF Store
    <3> QED
      BY <1>1, <1>2, <2>4, <3>1 DEF RegInv, Typed
  <2>6. /\ Decent(runs[i], flow[i], announced[i], agent[i]) /\ runs[i].ended
        /\ runs[i].suppress \in {"none", "steer", "killed"}
    BY <1>1, <1>3, <2>1, <2>2 DEF Fine, RecordsDecent, MarksHold, Marks, Record
  <2>7. announced[i] = 0 /\ Decent(runs'[i], flow'[i], announced'[i], agent'[i])
    <3>1. announced[i] = 0 /\ runs[i].suppress = "none"
      BY <1>3, <2>1, <2>6 DEF Decent
    <3> QED
      BY <1>1, <2>1, <2>3, <2>4, <2>6, <3>1 DEF Decent
  <2>8. Fine(i)'
    <3>1. RecordsDecent(i)'
      BY <1>1, <2>7 DEF RecordsDecent
    <3>2. MarksHold(i)'
      BY <2>1, <2>3, <2>4, <2>6 DEF MarksHold, Marks, Hand
    <3>3. UnknownBefore(i)' /\ SpeaksOnce(i)' /\ ReplacedIsGone(i)' /\ ErrorsPend(i)'
      BY <1>1, <1>3, <2>1, <2>2, <2>7
      DEF Fine, UnknownBefore, SpeaksOnce, ReplacedIsGone, ErrorsPend
    <3> QED
      BY <3>1, <3>2, <3>3 DEF Fine
  <2>9. ASSUME NEW k \in Runs, k # i PROVE Fine(k)'
    <3>1. SameRecord(k) /\ DiskFollows(k) /\ Still(k)
      BY <1>1, <1>2, <2>2, <2>4, <2>9, PersistFollows DEF SameRecord, Still
    <3> QED
      BY <3>1, StillIsFine DEF RegInv
  <2> QED
    BY <2>5, <2>8, <2>9 DEF RegInv
<1>5. CASE ~(MayBegin(runs, i) /\ runs[i].suppress # "steer")
  <2>1. UNCHANGED <<runs, flow>>
    BY <1>5 DEF CompletionGoesOn
  <2>2. Typed'
    BY <1>1, <1>2, <2>1 DEF RegInv, Typed
  <2>3. ASSUME NEW k \in Runs PROVE SameRecord(k) /\ DiskFollows(k)
    BY <1>1, <2>1, PersistFollows DEF SameRecord
  <2>4. Fine(i)'
    <3>1. RecordsDecent(i)'
      BY <1>1, <1>3, <2>1 DEF Fine, RecordsDecent
    <3>2. UnknownBefore(i)' /\ SpeaksOnce(i)' /\ ReplacedIsGone(i)' /\ ErrorsPend(i)'
      BY <1>1, <1>2, <1>3, <2>1 DEF Fine, UnknownBefore, SpeaksOnce, ReplacedIsGone, ErrorsPend, RegInv, Typed
    <3>3. MarksHold(i)'
      <4>1. CASE i \in DOMAIN runs
        <5>1. Marks(runs[i], flow[i], completing'[i], i \notin cut, <<i, "steer">> \in calls)
          BY <1>1, <1>2, <1>3, <4>1 DEF Fine, MarksHold, Marks
        <5>2. runs[i].done \/ runs[i].handled \/ runs[i].suppress = "steer"
          BY <1>5, <4>1 DEF MayBegin
        <5>3. Hand(runs[i], flow[i], completing'[i], i \notin cut, <<i, "clearing">> \in timers,
                   <<i, "plain">> \in timers /\ i \notin resumed)
          BY <5>1, <5>2 DEF Marks, Hand
        <5> QED
          BY <1>1, <2>1, <5>1, <5>3 DEF MarksHold
      <4>2. CASE i \notin DOMAIN runs
        BY <2>1, <4>2 DEF MarksHold
      <4> QED
        BY <4>1, <4>2
    <3> QED
      BY <3>1, <3>2, <3>3 DEF Fine
  <2>5. ASSUME NEW k \in Runs, k # i PROVE Fine(k)'
    <3>1. Still(k)
      BY <1>1, <1>2, <2>1, <2>5 DEF Still
    <3> QED
      BY <2>3, <3>1, StillIsFine DEF RegInv
  <2> QED
    BY <2>2, <2>4, <2>5 DEF RegInv
<1> QED
  BY <1>4, <1>5

\* The events of a lifecycle that do not complete the run move its agent only.
LEMMA AgentStartsIsFine ==
    ASSUME NEW i \in Runs, AgentStarts(i), RegInv PROVE RegInv'
<1>1. /\ agent[i] = "failing" /\ agent' = [agent EXCEPT ![i] = "running"]
      /\ IF i \in DOMAIN runs THEN disk' = runs /\ errors' = errors \ {i} ELSE UNCHANGED <<errors, disk>>
      /\ UNCHANGED <<runs, resumed, timers, waits, completing, flow, calls, sessions, sweeping,
                     events, announced, cut, steered>>
  BY DEF AgentStarts
<1>2. Typed'
  <2>1. agent' \in [Runs -> States] /\ errors' \subseteq Runs /\ Store(disk')
    BY <1>1 DEF RegInv, Typed, States
  <2> QED
    BY <1>1, <2>1 DEF RegInv, Typed
<1>3. ASSUME NEW k \in Runs PROVE SameRecord(k) /\ DiskFollows(k)
  BY <1>1 DEF SameRecord, DiskFollows
<1>4. ASSUME NEW k \in Runs, k # i PROVE Fine(k)'
  <2>1. Still(k)
    BY <1>1, <1>4 DEF Still, RegInv, Typed
  <2> QED
    BY <1>3, <2>1, StillIsFine DEF RegInv
<1>5. Fine(i)'
  <2>1. Fine(i) /\ agent'[i] = "running"
    BY <1>1 DEF RegInv, Typed
  <2>2. /\ i \in DOMAIN runs' => Decent(runs'[i], flow'[i], announced'[i], agent'[i])
        /\ i \in DOMAIN disk => Decent(disk[i], flow'[i], announced'[i], agent'[i])
    BY <1>1, <2>1 DEF Fine, RecordsDecent, Decent
  <2>3. RecordsDecent(i)'
    BY <1>3, <2>2 DEF DiskFollows, RecordsDecent
  <2>4. UnknownBefore(i)' /\ SpeaksOnce(i)' /\ ReplacedIsGone(i)' /\ ErrorsPend(i)' /\ MarksHold(i)'
    BY <1>1, <1>3, <2>1
    DEF Fine, UnknownBefore, SpeaksOnce, ReplacedIsGone, ErrorsPend, MarksHold, DiskFollows
  <2> QED
    BY <2>3, <2>4 DEF Fine
<1> QED
  BY <1>2, <1>4, <1>5 DEF RegInv

LEMMA AgentErrsIsFine ==
    ASSUME NEW i \in Runs, AgentErrs(i), RegInv PROVE RegInv'
<1>1. /\ agent[i] = "running" /\ agent' = [agent EXCEPT ![i] = "failing"]
      /\ errors' = IF i \in DOMAIN runs THEN errors \cup {i} ELSE errors
      /\ UNCHANGED <<runs, disk, resumed, timers, waits, completing, flow, calls, sessions, sweeping,
                     events, announced, cut, steered>>
  BY DEF AgentErrs
<1>2. Typed'
  <2>1. agent' \in [Runs -> States] /\ errors' \subseteq Runs
    BY <1>1 DEF RegInv, Typed, States
  <2> QED
    BY <1>1, <2>1 DEF RegInv, Typed
<1>3. ASSUME NEW k \in Runs, k # i PROVE Fine(k)'
  <2>1. SameRecord(k) /\ DiskFollows(k) /\ Still(k)
    BY <1>1, <1>3 DEF SameRecord, DiskFollows, Still, RegInv, Typed
  <2> QED
    BY <2>1, StillIsFine DEF RegInv
<1>4. Fine(i)'
  <2>1. Fine(i) /\ agent'[i] = "failing"
    BY <1>1 DEF RegInv, Typed
  <2>2. RecordsDecent(i)'
    BY <1>1, <2>1 DEF Fine, RecordsDecent, Decent
  <2>3. UnknownBefore(i)' /\ SpeaksOnce(i)' /\ ReplacedIsGone(i)' /\ ErrorsPend(i)' /\ MarksHold(i)'
    BY <1>1, <2>1 DEF Fine, UnknownBefore, SpeaksOnce, ReplacedIsGone, ErrorsPend, MarksHold
  <2> QED
    BY <2>2, <2>3 DEF Fine
<1> QED
  BY <1>2, <1>3, <1>4 DEF RegInv

\* A run that has left the map has its end noted by nobody.
LEMMA UnnotedIsFine ==
    ASSUME NEW i \in Runs, RegInv, agent' \in [Runs -> States],
           \A k \in Runs \ {i} : agent'[k] = agent[k],
           agent[i] # "none", agent'[i] # "none",
           agent[i] \in {"failed", "lost"} => agent'[i] \in {"failed", "lost"},
           errors' \subseteq errors, i \in DOMAIN runs => i \notin errors',
           UNCHANGED <<runs, disk, resumed, timers, waits, completing, flow, calls, sessions,
                       sweeping, events, announced, cut, steered>>
    PROVE  RegInv'
<1>1. Typed'
  BY DEF RegInv, Typed
<1>2. ASSUME NEW k \in Runs, k # i PROVE Fine(k)'
  <2>1. SameRecord(k) /\ DiskFollows(k) /\ Still(k)
    BY <1>2 DEF SameRecord, DiskFollows, Still
  <2> QED
    BY <2>1, StillIsFine DEF RegInv
<1>3. Fine(i)'
  <2>1. Fine(i)
    BY DEF RegInv
  <2>2. RecordsDecent(i)'
    BY <2>1 DEF Fine, RecordsDecent, Decent
  <2>3. UnknownBefore(i)' /\ SpeaksOnce(i)' /\ ReplacedIsGone(i)' /\ ErrorsPend(i)' /\ MarksHold(i)'
    BY <2>1 DEF Fine, UnknownBefore, SpeaksOnce, ReplacedIsGone, ErrorsPend, MarksHold
  <2> QED
    BY <2>2, <2>3 DEF Fine
<1> QED
  BY <1>1, <1>2, <1>3 DEF RegInv

LEMMA AgentEndsIsFine ==
    ASSUME NEW i \in Runs, AgentEnds(i), RegInv PROVE RegInv'
<1>1. /\ agent[i] = "running" /\ agent' = [agent EXCEPT ![i] = "finished"]
      /\ IF i \in DOMAIN runs THEN Complete(i, "ok") ELSE UNCHANGED <<runs, errors, completing>>
      /\ UNCHANGED <<disk, resumed, timers, waits, flow, calls, sessions, sweeping, events,
                     announced, cut, steered>>
  BY DEF AgentEnds
<1>2. /\ agent' \in [Runs -> States] /\ agent'[i] = "finished"
      /\ \A k \in Runs \ {i} : agent'[k] = agent[k]
  BY <1>1 DEF RegInv, Typed, States
<1>3. CASE i \notin DOMAIN runs
  BY <1>1, <1>2, <1>3, UnnotedIsFine
<1>4. CASE i \in DOMAIN runs
  <2>1. Complete(i, "ok") /\ agent[i] \notin {"failed", "lost"}
    BY <1>1, <1>4
  <2>2. Store(disk') /\ waits' \subseteq Runs /\ \A k \in Runs : DiskFollows(k)
    BY <1>1 DEF RegInv, Typed, DiskFollows
  <2>3. i \in DOMAIN disk' =>
            /\ i \in DOMAIN disk \cup DOMAIN runs
            /\ Decent(disk'[i], flow[i], announced[i], agent'[i])
    <3>1. i \in DOMAIN disk => Decent(disk[i], flow[i], announced[i], agent[i])
      BY DEF RegInv, Fine, RecordsDecent
    <3> QED
      BY <1>1, <1>4, <2>1, <3>1 DEF Decent
  <2> QED
    BY <1>1, <1>2, <2>1, <2>2, <2>3, CompleteIsFine
<1> QED
  BY <1>3, <1>4

LEMMA ErrorTimerFiresIsFine ==
    ASSUME NEW i \in Runs, ErrorTimerFires(i), RegInv PROVE RegInv'
<1>1. /\ i \in errors
      /\ agent' = [agent EXCEPT ![i] = IF @ = "failing" THEN "failed" ELSE @]
      /\ IF i \in DOMAIN runs /\ runs[i].outcome # "ok" THEN Complete(i, "error")
         ELSE errors' = errors \ {i} /\ UNCHANGED <<runs, completing>>
      /\ UNCHANGED <<disk, resumed, timers, waits, flow, calls, sessions, sweeping, events,
                     announced, cut, steered>>
  BY DEF ErrorTimerFires
<1>2. /\ agent' \in [Runs -> States] /\ agent'[i] = IF agent[i] = "failing" THEN "failed" ELSE agent[i]
      /\ \A k \in Runs \ {i} : agent'[k] = agent[k]
  BY <1>1 DEF RegInv, Typed, States
<1>3. agent[i] # "none" /\ (i \in DOMAIN runs => agent[i] = "failing")
  BY <1>1 DEF RegInv, Fine, UnknownBefore, ErrorsPend
<1>4. CASE i \in DOMAIN runs /\ runs[i].outcome # "ok"
  <2>1. Complete(i, "error") /\ agent'[i] = "failed"
    BY <1>1, <1>2, <1>3, <1>4
  <2>2. Store(disk') /\ waits' \subseteq Runs /\ \A k \in Runs : DiskFollows(k)
    BY <1>1 DEF RegInv, Typed, DiskFollows
  <2>3. i \in DOMAIN disk' =>
            /\ i \in DOMAIN disk \cup DOMAIN runs
            /\ Decent(disk'[i], flow[i], announced[i], agent'[i])
    <3>1. i \in DOMAIN disk => Decent(disk[i], flow[i], announced[i], agent[i])
      BY DEF RegInv, Fine, RecordsDecent
    <3> QED
      BY <1>1, <1>4, <2>1, <3>1 DEF Decent
  <2> QED
    BY <1>1, <1>2, <2>1, <2>2, <2>3, CompleteIsFine
<1>5. CASE ~(i \in DOMAIN runs /\ runs[i].outcome # "ok")
  <2>1. errors' = errors \ {i} /\ UNCHANGED <<runs, completing>>
    BY <1>1, <1>5
  <2> QED
    BY <1>1, <1>2, <1>3, <2>1, UnnotedIsFine
<1> QED
  BY <1>4, <1>5

-----------------------------------------------------------------------------
(* The announce flow. *)

\* An announce that failed, or was put off, unmarks its run and leaves a timer, or gives up.
LEMMA NotAnnouncedIsFine ==
    ASSUME NEW i \in Runs, RegInv, flow[i] \in {"announce", "deliver"}, NotAnnounced(i),
           sessions' \subseteq Sessions, events' \in 0..MaxEvents,
           UNCHANGED <<errors, waits, completing, calls, sweeping, agent, announced, cut, steered>>
    PROVE  RegInv'
<1>1. Fine(i) /\ announced[i] = 0 /\ announced \in [Runs -> Nat] /\ Store(runs)
      /\ flow \in [Runs -> Stages]
  BY DEF RegInv, Typed, Fine, SpeaksOnce
<1>2. CASE i \notin DOMAIN runs
  <2>1. /\ flow' = [flow EXCEPT ![i] = "none"] /\ UNCHANGED <<runs, disk, resumed, timers>>
    BY <1>2 DEF NotAnnounced
  <2>2. /\ flow' \in [Runs -> Stages] /\ flow'[i] = "none"
        /\ \A k \in Runs \ {i} : flow'[k] = flow[k]
    BY <1>1, <2>1 DEF Stages
  <2>3. Typed'
    BY <2>1, <2>2 DEF RegInv, Typed
  <2>4. ASSUME NEW k \in Runs, k # i PROVE Fine(k)'
    <3>1. SameRecord(k) /\ DiskFollows(k) /\ Still(k)
      BY <2>1, <2>2, <2>4 DEF SameRecord, DiskFollows, Still
    <3> QED
      BY <3>1, StillIsFine DEF RegInv
  <2>5. Fine(i)'
    <3>1. RecordsDecent(i)'
      BY <1>1, <1>2, <2>1, <2>2 DEF Fine, RecordsDecent, Decent
    <3>2. UnknownBefore(i)' /\ SpeaksOnce(i)' /\ ReplacedIsGone(i)' /\ ErrorsPend(i)' /\ MarksHold(i)'
      BY <1>1, <1>2, <2>1, <2>2
      DEF Fine, UnknownBefore, SpeaksOnce, ReplacedIsGone, ErrorsPend, MarksHold
    <3> QED
      BY <3>1, <3>2 DEF Fine
  <2> QED
    BY <2>3, <2>4, <2>5 DEF RegInv
<1>3. CASE i \in DOMAIN runs
  <2> DEFINE pending == Pending(Snapshot, Home[i])
             tries   == runs[i].retries + (IF pending THEN 0 ELSE 1)
             giveUp  == runs[i].old \/ (~pending /\ tries >= MaxRetries)
             tried   == [runs[i] EXCEPT !.retries = tries, !.cool = IF giveUp /\ pending THEN @ ELSE TRUE]
             gone    == [tried EXCEPT !.wake = FALSE]
             again   == [tried EXCEPT !.handled = FALSE, !.wake = @ \/ pending]
  <2>1. \/ /\ giveUp /\ runs' = [runs EXCEPT ![i] = gone]
           /\ flow' = [flow EXCEPT ![i] = "giveup"]
           /\ UNCHANGED <<disk, resumed, timers>>
        \/ /\ ~giveUp /\ runs' = [runs EXCEPT ![i] = again]
           /\ disk' = runs' /\ resumed' = resumed \ {i}
           /\ timers' = timers \cup {<<i, "plain">>}
           /\ flow' = [flow EXCEPT ![i] = "none"]
    BY <1>3 DEF NotAnnounced, Persist
  <2>2. /\ runs[i] \in Record /\ MaxRetries \in Nat \ {0}
        /\ runs[i].ended /\ runs[i].suppress = "none" /\ (runs[i].handled \/ runs[i].done)
        /\ runs[i].retries \in 0..MaxRetries /\ ~(runs[i].retries >= MaxRetries)
        /\ runs[i].outcome = "error" => agent[i] \in {"failed", "lost"}
    <3>1. runs[i] \in Record /\ MaxRetries \in Nat \ {0}
      BY <1>1, <1>3, SubagentAssumption DEF Store, SubagentAssumption
    <3>2. Decent(runs[i], flow[i], announced[i], agent[i])
      BY <1>1, <1>3 DEF Fine, RecordsDecent
    <3> QED
      BY <3>1, <3>2 DEF Decent, Record
  <2>3. pending \in BOOLEAN
    BY DEF Pending
  <2>4. tries \in 0..MaxRetries /\ (~giveUp => ~(tries >= MaxRetries))
    <3> HIDE DEF pending
    <3> QED
      BY <2>2, <2>3
  <2>5. /\ tried \in Record /\ tried.ended = runs[i].ended /\ tried.suppress = runs[i].suppress
        /\ tried.handled = runs[i].handled /\ tried.done = runs[i].done
        /\ tried.outcome = runs[i].outcome /\ tried.retries = tries
    <3> HIDE DEF tries, giveUp, pending
    <3>1. (IF giveUp /\ pending THEN runs[i].cool ELSE TRUE) \in BOOLEAN
      BY <2>2 DEF Record
    <3> QED
      BY <2>2, <2>4, <3>1 DEF Record
  <2>6. /\ gone \in Record /\ gone.ended = tried.ended /\ gone.suppress = tried.suppress
        /\ gone.handled = tried.handled /\ gone.done = tried.done
        /\ gone.outcome = tried.outcome /\ gone.retries = tried.retries
    <3> HIDE DEF tried
    <3> QED
      BY <2>5 DEF Record
  <2>7. /\ again \in Record /\ again.ended = tried.ended /\ again.suppress = tried.suppress
        /\ ~again.handled /\ again.done = tried.done
        /\ again.outcome = tried.outcome /\ again.retries = tried.retries
    <3> HIDE DEF tried, pending
    <3>1. (tried.wake \/ pending) \in BOOLEAN
      BY <2>5 DEF Record
    <3> QED
      BY <2>5, <3>1 DEF Record
  <2> HIDE DEF tried, gone, again
  <2>8. /\ runs'[i] \in Record /\ runs'[i].ended /\ runs'[i].suppress = "none"
        /\ runs'[i].outcome = runs[i].outcome /\ runs'[i].retries = tries
        /\ \/ /\ flow'[i] = "giveup" /\ (runs'[i].handled \/ runs'[i].done)
              /\ UNCHANGED <<disk, resumed, timers>>
           \/ /\ flow'[i] = "none" /\ ~giveUp /\ disk' = runs' /\ i \notin resumed'
              /\ resumed' \subseteq resumed /\ timers' = timers \cup {<<i, "plain">>}
    <3> HIDE DEF tries, giveUp, pending
    <3>1. CASE giveUp
      <4>1. runs'[i] = gone /\ flow'[i] = "giveup" /\ UNCHANGED <<disk, resumed, timers>>
        BY <1>1, <1>3, <2>1, <3>1
      <4> QED
        BY <2>2, <2>5, <2>6, <4>1
    <3>2. CASE ~giveUp
      <4>1. /\ runs'[i] = again /\ flow'[i] = "none" /\ disk' = runs' /\ resumed' = resumed \ {i}
            /\ timers' = timers \cup {<<i, "plain">>}
        BY <1>1, <1>3, <2>1, <3>2
      <4> QED
        BY <2>2, <2>5, <2>7, <3>2, <4>1
    <3> QED
      BY <3>1, <3>2
  <2>9. /\ DOMAIN runs' = DOMAIN runs /\ \A k \in DOMAIN runs : k # i => runs'[k] = runs[k]
        /\ flow' \in [Runs -> Stages] /\ \A k \in Runs \ {i} : flow'[k] = flow[k]
    BY <1>1, <2>1 DEF Stages
  <2>10. Typed'
    <3>1. Store(runs') /\ Store(disk')
      BY <1>1, <2>8, <2>9 DEF RegInv, Typed, Store
    <3>2. resumed' \subseteq Runs /\ timers' \subseteq Runs \X {"plain", "clearing"}
      BY <2>8 DEF RegInv, Typed
    <3> QED
      BY <2>9, <3>1, <3>2 DEF RegInv, Typed
  <2>11. ASSUME NEW k \in Runs, k # i PROVE Fine(k)'
    <3>1. SameRecord(k) /\ DiskFollows(k) /\ Still(k)
      BY <2>8, <2>9, <2>11 DEF SameRecord, DiskFollows, Still
    <3> QED
      BY <3>1, StillIsFine DEF RegInv
  <2>12. Fine(i)'
    <3>1. Decent(runs'[i], flow'[i], announced'[i], agent'[i])
      <4> HIDE DEF tries, giveUp, pending
      <4>1. flow'[i] \notin {"announce", "deliver"}
        BY <2>8
      <4>2. tries >= MaxRetries => runs'[i].handled \/ runs'[i].done
        BY <2>4, <2>8
      <4> QED
        <5>1. runs'[i].retries >= MaxRetries => runs'[i].handled \/ runs'[i].done
          BY <2>8, <4>2
        <5>2. runs'[i].outcome = "error" => agent'[i] \in {"failed", "lost"}
          BY <2>2, <2>8
        <5>3. announced'[i] = 0 /\ runs'[i].ended /\ runs'[i].suppress = "none"
          BY <1>1, <2>8
        <5>4. flow'[i] # "none" => runs'[i].handled \/ runs'[i].done
          BY <2>8
        <5> QED
          BY <4>1, <5>1, <5>2, <5>3, <5>4 DEF Decent
    <3>2. i \in DOMAIN disk' => Decent(disk'[i], flow'[i], announced'[i], agent'[i])
      <4>1. i \in DOMAIN disk => Decent(disk[i], flow[i], announced[i], agent[i])
        BY <1>1 DEF Fine, RecordsDecent
      <4> QED
        BY <1>1, <2>8, <3>1, <4>1 DEF Decent
    <3>3. MarksHold(i)'
      BY <1>1, <1>3, <2>2, <2>7, <2>8, <2>1 DEF MarksHold, Marks, Hand
    <3>4. UnknownBefore(i)' /\ SpeaksOnce(i)' /\ ReplacedIsGone(i)' /\ ErrorsPend(i)'
      BY <1>1, <1>3, <2>9 DEF Fine, UnknownBefore, SpeaksOnce, ReplacedIsGone, ErrorsPend
    <3> QED
      BY <3>1, <3>2, <3>3, <3>4 DEF Fine, RecordsDecent
  <2> QED
    BY <2>10, <2>11, <2>12 DEF RegInv
<1> QED
  BY <1>2, <1>3

\* An announce that succeeded goes on to close its run.
LEMMA AnnouncedIsFine ==
    ASSUME NEW i \in Runs, RegInv, flow[i] \in {"announce", "deliver"}, Announced(i),
           sessions' \subseteq Sessions, events' \in 0..MaxEvents, announced' \in [Runs -> Nat], announced'[i] <= 1,
           \A k \in Runs \ {i} : announced'[k] = announced[k],
           UNCHANGED <<errors, waits, completing, calls, sweeping, agent, cut, steered>>
    PROVE  RegInv'
<1>1. /\ Fine(i) /\ announced[i] \in Nat /\ announced'[i] \in Nat /\ Store(runs)
      /\ flow \in [Runs -> Stages]
  BY DEF RegInv, Typed
<1>2. /\ runs' = [k \in DOMAIN runs |-> IF k = i THEN [runs[k] EXCEPT !.wake = FALSE] ELSE runs[k]]
      /\ flow' = [flow EXCEPT ![i] = IF i \in DOMAIN runs THEN "closing" ELSE "none"]
      /\ UNCHANGED <<disk, resumed, timers>>
  BY DEF Announced
<1>3. /\ DOMAIN runs' = DOMAIN runs /\ \A k \in DOMAIN runs : k # i => runs'[k] = runs[k]
      /\ i \in DOMAIN runs => runs'[i] = [runs[i] EXCEPT !.wake = FALSE]
      /\ flow' \in [Runs -> Stages] /\ \A k \in Runs \ {i} : flow'[k] = flow[k]
      /\ flow'[i] = IF i \in DOMAIN runs THEN "closing" ELSE "none"
  BY <1>1, <1>2 DEF Stages
<1>4. i \in DOMAIN runs =>
        /\ runs'[i] \in Record /\ runs'[i].ended = runs[i].ended
        /\ runs'[i].suppress = runs[i].suppress /\ runs'[i].handled = runs[i].handled
        /\ runs'[i].done = runs[i].done /\ runs'[i].outcome = runs[i].outcome
        /\ runs'[i].retries = runs[i].retries
  BY <1>1, <1>3 DEF Store, Record
<1>5. Typed'
  <2>1. Store(runs')
    BY <1>1, <1>3, <1>4 DEF Store
  <2> QED
    BY <1>2, <1>3, <2>1 DEF RegInv, Typed
<1>6. ASSUME NEW k \in Runs, k # i PROVE Fine(k)'
  <2>1. SameRecord(k) /\ DiskFollows(k) /\ Still(k)
    BY <1>2, <1>3, <1>6 DEF SameRecord, DiskFollows, Still
  <2> QED
    BY <2>1, StillIsFine DEF RegInv
<1>7. Fine(i)'
  <2>1. i \in DOMAIN runs => Decent(runs'[i], flow'[i], announced'[i], agent'[i])
    BY <1>1, <1>3, <1>4 DEF Fine, RecordsDecent, Decent
  <2>2. i \in DOMAIN disk => Decent(disk[i], flow'[i], announced'[i], agent'[i])
    BY <1>1, <1>3 DEF Fine, RecordsDecent, Decent
  <2>3. MarksHold(i)'
    BY <1>1, <1>2, <1>3, <1>4 DEF Fine, MarksHold, Marks, Hand
  <2>4. UnknownBefore(i)' /\ SpeaksOnce(i)' /\ ReplacedIsGone(i)' /\ ErrorsPend(i)'
    BY <1>1, <1>2, <1>3 DEF Fine, UnknownBefore, SpeaksOnce, ReplacedIsGone, ErrorsPend
  <2> QED
    BY <1>2, <1>3, <2>1, <2>2, <2>3, <2>4 DEF Fine, RecordsDecent
<1> QED
  BY <1>5, <1>6, <1>7 DEF RegInv

LEMMA FlowStopsIsFine ==
    ASSUME NEW i \in Runs, FlowStops(i), RegInv PROVE RegInv'
BY NotAnnouncedIsFine DEF FlowStops, RegInv, Typed

\* The session goes or stays.
LEMMA DropSessionTypes ==
    ASSUME NEW i \in Runs, DropSession(i), RegInv
    PROVE  sessions' \subseteq Sessions /\ events' \in 0..MaxEvents
<1>1. sessions \subseteq Sessions /\ events \in 0..MaxEvents
  BY DEF RegInv, Typed
<1> QED
  BY <1>1, SubagentAssumption DEF DropSession, Event

LEMMA FlowFailsIsFine ==
    ASSUME NEW i \in Runs, FlowFails(i), RegInv PROVE RegInv'
<1>1. sessions' \subseteq Sessions /\ events' \in 0..MaxEvents
  BY DropSessionTypes DEF FlowFails
<1> QED
  BY <1>1, NotAnnouncedIsFine DEF FlowFails

LEMMA FlowIsIgnoredIsFine ==
    ASSUME NEW i \in Runs, FlowIsIgnored(i), RegInv PROVE RegInv'
<1>1. sessions' \subseteq Sessions /\ events' \in 0..MaxEvents
  BY DropSessionTypes DEF FlowIsIgnored
<1>2. announced' \in [Runs -> Nat] /\ announced'[i] <= 1
      /\ \A k \in Runs \ {i} : announced'[k] = announced[k]
  BY DEF FlowIsIgnored, RegInv, Typed, Fine, SpeaksOnce
<1> QED
  BY <1>1, <1>2, AnnouncedIsFine DEF FlowIsIgnored

LEMMA FlowSucceedsIsFine ==
    ASSUME NEW i \in Runs, FlowSucceeds(i), RegInv PROVE RegInv'
<1>1. sessions' \subseteq Sessions /\ events' \in 0..MaxEvents
  BY DropSessionTypes DEF FlowSucceeds
<1>2. announced[i] = 0
  BY DEF FlowSucceeds, RegInv, Typed, Fine, SpeaksOnce
<1>3. announced' = announced \/ announced' = [announced EXCEPT ![i] = @ + 1]
  BY DEF FlowSucceeds
<1>4. announced' \in [Runs -> Nat] /\ announced'[i] <= 1
      /\ \A k \in Runs \ {i} : announced'[k] = announced[k]
  BY <1>2, <1>3 DEF RegInv, Typed
<1> QED
  BY <1>1, <1>4, AnnouncedIsFine DEF FlowSucceeds

LEMMA FlowGoesOnIsFine ==
    ASSUME NEW i \in Runs, FlowGoesOn(i), RegInv PROVE RegInv'
<1>1. /\ flow[i] = "announce" /\ flow' = [flow EXCEPT ![i] = "deliver"]
      /\ UNCHANGED <<runs, disk, resumed, timers, errors, waits, completing, calls, sessions,
                     sweeping, agent, events, announced, cut, steered>>
  BY DEF FlowGoesOn, MayAnnounce
<1>2. /\ flow' \in [Runs -> Stages] /\ flow'[i] = "deliver"
      /\ \A k \in Runs \ {i} : flow'[k] = flow[k]
  BY <1>1 DEF RegInv, Typed, Stages
<1>3. Typed'
  BY <1>1, <1>2 DEF RegInv, Typed
<1>4. ASSUME NEW k \in Runs, k # i PROVE Fine(k)'
  <2>1. SameRecord(k) /\ DiskFollows(k) /\ Still(k)
    BY <1>1, <1>2, <1>4 DEF SameRecord, DiskFollows, Still
  <2> QED
    BY <2>1, StillIsFine DEF RegInv
<1>5. Fine(i)'
  <2>1. Fine(i)
    BY DEF RegInv
  <2>2. RecordsDecent(i)'
    BY <1>1, <1>2, <2>1 DEF Fine, RecordsDecent, Decent
  <2>3. UnknownBefore(i)' /\ SpeaksOnce(i)' /\ ReplacedIsGone(i)' /\ ErrorsPend(i)' /\ MarksHold(i)'
    BY <1>1, <1>2, <2>1
    DEF Fine, UnknownBefore, SpeaksOnce, ReplacedIsGone, ErrorsPend, MarksHold, Marks, Hand
  <2> QED
    BY <2>2, <2>3 DEF Fine
<1> QED
  BY <1>3, <1>4, <1>5 DEF RegInv

\* Run j takes the place of run i, whose flow, if it had one, has ended, and whose call, if it
\* was called, has returned.
LEMMA ReplaceIsFine ==
    ASSUME NEW i \in Runs, NEW j \in Runs, NEW woken \in BOOLEAN, Replace(i, j, woken), RegInv,
           agent[i] # "none", flow' \in [Runs -> Stages], \A k \in Runs \ {i} : flow'[k] = flow[k],
           flow'[i] = flow[i] \/ flow'[i] = "none",
           calls' \subseteq Runs \X Kinds,
           \A k \in Runs \ {i} : \A q \in Kinds : <<k, q>> \in calls' <=> <<k, q>> \in calls,
           steered' \in {steered, steered \cup {i}},
           i \in steered' => flow'[i] = "none" /\ announced[i] = 0,
           UNCHANGED <<timers, completing, sweeping, events, announced, cut>>
    PROVE  RegInv'
<1>1. /\ agent[j] = "none" /\ Home[j] = Home[i]
      /\ runs' = Put(Without(runs, i), j, NewRun(woken)) /\ disk' = runs'
      /\ errors' = errors \ {i} /\ resumed' = resumed \ {i}
      /\ waits' = waits \cup {j}
      /\ agent' = [agent EXCEPT ![j] = "running"] /\ sessions' = sessions \cup {Home[i]}
  BY DEF Replace, Persist
<1>2. i # j /\ j \notin DOMAIN runs /\ Home[i] \in Sessions
  BY <1>1, SubagentAssumption DEF RegInv, Fine, UnknownBefore, SubagentAssumption
<1>3. /\ DOMAIN runs' = (DOMAIN runs \ {i}) \cup {j} /\ runs'[j] = NewRun(woken)
      /\ \A k \in DOMAIN runs : k # i => runs'[k] = runs[k]
  BY <1>1, <1>2 DEF Put, Without
<1>4. /\ agent' \in [Runs -> States] /\ agent'[j] = "running"
      /\ \A k \in Runs \ {j} : agent'[k] = agent[k]
  BY <1>1 DEF RegInv, Typed, States
<1>5. Typed'
  <2>1. Store(runs')
    BY <1>3, NewRunIsFine DEF RegInv, Typed, Store
  <2> QED
    BY <1>1, <1>2, <1>4, <2>1 DEF RegInv, Typed
<1>6. ASSUME NEW k \in Runs PROVE Fine(k)'
  <2>1. CASE k = j
    BY <1>1, <1>2, <1>3, <1>4, <2>1, NewcomerIsFine DEF RegInv, Typed
  <2>2. CASE k = i
    <3>1. k \notin DOMAIN runs' /\ k \notin DOMAIN disk' /\ agent'[k] # "none" /\ Fine(k)
      BY <1>1, <1>2, <1>3, <1>4, <2>2 DEF RegInv
    <3>2. SpeaksOnce(k)'
      BY <2>2, <3>1 DEF Fine, SpeaksOnce
    <3> QED
      BY <2>2, <3>1, <3>2
      DEF Fine, RecordsDecent, UnknownBefore, ReplacedIsGone, ErrorsPend, MarksHold
  <2>3. CASE k # i /\ k # j
    <3>1. SameRecord(k) /\ DiskFollows(k)
      BY <1>1, <1>3, <2>3, PersistFollows DEF SameRecord
    <3>2. Still(k)
      BY <1>1, <1>4, <2>3 DEF Still
    <3> QED
      BY <3>1, <3>2, StillIsFine DEF RegInv
  <2> QED
    BY <2>1, <2>2, <2>3
<1> QED
  BY <1>5, <1>6 DEF RegInv

LEMMA FlowWakesIsFine ==
    ASSUME NEW i \in Runs, NEW j \in Runs, FlowWakes(i, j), RegInv PROVE RegInv'
<1>1. /\ i \in DOMAIN runs /\ flow' = [flow EXCEPT ![i] = "none"] /\ Replace(i, j, TRUE)
      /\ UNCHANGED <<timers, completing, calls, sweeping, events, announced, cut, steered>>
  BY DEF FlowWakes
<1>2. agent[i] # "none" /\ i \notin steered
  BY <1>1 DEF RegInv, Fine, UnknownBefore, ReplacedIsGone
<1>3. /\ flow' \in [Runs -> Stages] /\ flow'[i] = "none"
      /\ \A k \in Runs \ {i} : flow'[k] = flow[k]
      /\ calls' \subseteq Runs \X Kinds
  BY <1>1 DEF RegInv, Typed, Stages
<1> QED
  BY <1>1, <1>2, <1>3, ReplaceIsFine

LEMMA CallReturnsIsFine ==
    ASSUME NEW i \in Runs, NEW kind \in Kinds, NEW j \in Runs, CallReturns(i, kind, j), RegInv
    PROVE  RegInv'
<1>1. /\ <<i, kind>> \in calls /\ calls' = calls \ {<<i, kind>>} /\ Replace(i, j, FALSE)
      /\ steered' = IF i \in DOMAIN runs /\ runs[i].suppress = "steer" /\ kind = "steer"
                    THEN steered \cup {i} ELSE steered
      /\ UNCHANGED <<timers, completing, flow, sweeping, events, announced, cut>>
  BY DEF CallReturns
<1>2. agent[i] # "none" /\ announced[i] \in Nat /\ Fine(i)
  BY <1>1 DEF RegInv, Typed, Fine, UnknownBefore
<1>3. i \in steered' => flow[i] = "none" /\ announced[i] = 0
  BY <1>1, <1>2 DEF Fine, ReplacedIsGone, RecordsDecent, Decent
<1>4. /\ flow' \in [Runs -> Stages] /\ calls' \subseteq Runs \X Kinds
      /\ \A k \in Runs \ {i} : \A q \in Kinds : <<k, q>> \in calls' <=> <<k, q>> \in calls
      /\ steered' \in {steered, steered \cup {i}} /\ steered' \subseteq Runs
  BY <1>1 DEF RegInv, Typed
<1> QED
  BY <1>1, <1>2, <1>3, <1>4, ReplaceIsFine

-----------------------------------------------------------------------------
(* Steps that resume runs. *)

\* A step that resumes runs of a map: what it starts from must be true of each run.
LEMMA ResumingIsFine ==
    ASSUME RegInv, NEW store, NEW J \in SUBSET Runs, NEW base, Store(store),
           base.flow \in [Runs -> Stages], base.resumed \subseteq Runs,
           base.timers \subseteq Runs \X {"plain", "clearing"}, base.waits \subseteq Runs,
           Resume(store, J, base),
           UNCHANGED <<sessions, announced, steered>>,
           sweeping' \subseteq Sessions, events' \in 0..MaxEvents, cut' \subseteq Runs,
           errors' \subseteq errors, calls' \subseteq calls,
           completing' \in [Runs -> Nat], \A k \in Runs : completing'[k] \in {completing[k], 0},
           agent' \in [Runs -> States], \A k \in Runs : agent'[k] = "none" => agent[k] = "none",
           \A k \in Runs : base.flow[k] \in {flow[k], "none"},
           \A k \in Runs : k \in DOMAIN store =>
               /\ k \in DOMAIN runs \cup DOMAIN disk
               /\ k \in errors' => agent'[k] = "failing"
               /\ CanResume(store, J, base, k, announced[k], agent'[k], completing'[k], k \notin cut',
                            <<k, "steer">> \in calls'),
           Store(disk'),
           \A k \in Runs : k \in DOMAIN disk' =>
               /\ k \in DOMAIN runs \cup DOMAIN disk
               /\ \/ Decent(disk'[k], flow'[k], announced[k], agent'[k])
                  \/ k \in DOMAIN runs' /\ disk'[k] = runs'[k]
    PROVE  RegInv'
<1>1. /\ Store(runs') /\ flow' \in [Runs -> Stages] /\ resumed' \subseteq Runs
      /\ timers' \subseteq Runs \X {"plain", "clearing"} /\ waits' \subseteq Runs
  BY ResumeTypes
<1>2. Typed'
  BY <1>1 DEF RegInv, Typed
<1>3. ASSUME NEW k \in Runs PROVE Fine(k)'
  <2>1. Fine(k) /\ announced[k] \in Nat /\ completing'[k] \in Nat
    BY DEF RegInv, Typed
  <2>2. HasResumed(store, base, k, announced[k], agent'[k], completing'[k], k \notin cut',
                   <<k, "steer">> \in calls')
    <3> DEFINE whole == k \notin cut'
               called == <<k, "steer">> \in calls'
               c == completing'[k]
               a == agent'[k]
               n == announced[k]
    <3>1. whole \in BOOLEAN /\ called \in BOOLEAN /\ c \in Nat /\ n \in Nat
      BY <2>1
    <3>2. CanResume(store, J, base, k, n, a, c, whole, called)
      <4>1. CASE k \in DOMAIN store
        BY <4>1
      <4>2. CASE k \notin DOMAIN store
        BY <4>2 DEF CanResume
      <4> QED
        BY <4>1, <4>2
    <3> HIDE DEF whole, called, c, a, n
    <3>3. HasResumed(store, base, k, n, a, c, whole, called)
      BY <3>1, <3>2, ResumeIsFine
    <3> QED
      BY <3>3 DEF whole, called, c, a, n
  <2>3. RecordsDecent(k)'
    BY <2>2 DEF RecordsDecent, HasResumed
  <2>4. MarksHold(k)'
    BY <2>2 DEF MarksHold, HasResumed
  <2>5. /\ k \in DOMAIN runs' => k \in DOMAIN store
        /\ \/ flow'[k] = flow[k] \/ flow'[k] = "none"
           \/ flow'[k] = "announce" /\ announced[k] = 0 /\ k \in DOMAIN store
    BY <2>2 DEF HasResumed
  <2>6. UnknownBefore(k)'
    BY <2>1, <2>5 DEF Fine, UnknownBefore
  <2>7. SpeaksOnce(k)'
    BY <2>1, <2>5 DEF Fine, SpeaksOnce
  <2>8. ErrorsPend(k)'
    BY <2>5 DEF ErrorsPend
  <2>9. ReplacedIsGone(k)'
    BY <2>1, <2>5 DEF Fine, ReplacedIsGone
  <2> QED
    BY <2>3, <2>4, <2>6, <2>7, <2>8, <2>9 DEF Fine
<1> QED
  BY <1>2, <1>3 DEF RegInv

LEMMA CloseIsFine == ASSUME NEW i \in Runs, Close(i), RegInv PROVE RegInv'
<1> DEFINE delete == flow[i] = "closing" /\ Home[i] \in Deleting
           store  == IF delete THEN Without(runs, i)
                     ELSE [k \in DOMAIN runs |-> IF k = i THEN [runs[k] EXCEPT !.done = TRUE] ELSE runs[k]]
           others == {k \in DOMAIN store \ {i} : store[k].ended /\ MayBegin(store, k)
                                                 /\ store[k].suppress # "steer"}
           base   == [Now EXCEPT !.resumed = @ \ others, !.flow[i] = "none"]
<1>1. /\ flow[i] \in {"closing", "giveup"}
      /\ errors' = IF delete THEN errors \ {i} ELSE errors
      /\ Resume(store, others, base) /\ disk' = runs'
      /\ UNCHANGED <<completing, calls, sessions, sweeping, agent, events, announced, cut, steered>>
  BY DEF Close, Persist
<1>2. Store(runs) /\ \A k \in Runs : Fine(k)
  BY DEF RegInv, Typed
<1>3. /\ DOMAIN store \subseteq DOMAIN runs
      /\ \A k \in DOMAIN store : k # i => store[k] = runs[k]
      /\ i \in DOMAIN store => i \in DOMAIN runs /\ store[i] = [runs[i] EXCEPT !.done = TRUE]
  BY DEF Without
<1>4. i \in DOMAIN store =>
        /\ store[i] \in Record /\ store[i].done /\ store[i].ended = runs[i].ended
        /\ store[i].suppress = runs[i].suppress /\ store[i].handled = runs[i].handled
        /\ store[i].outcome = runs[i].outcome /\ store[i].retries = runs[i].retries
  <2> HIDE DEF store
  <2> QED
    BY <1>2, <1>3 DEF Store, Record
<1>5. /\ base.resumed = resumed \ others /\ base.timers = timers /\ base.waits = waits
      /\ base.flow = [flow EXCEPT ![i] = "none"]
  <2> HIDE DEF others
  <2> QED
    BY DEF Now
<1>6. others \subseteq Runs
  <2> HIDE DEF store
  <2> QED
    BY <1>2, <1>3 DEF Store
<1> HIDE DEF store, others, base
<1>7. Store(store)
  BY <1>2, <1>3, <1>4 DEF Store
<1>8. /\ base.flow \in [Runs -> Stages] /\ base.flow[i] = "none"
      /\ \A k \in Runs \ {i} : base.flow[k] = flow[k]
      /\ base.timers = timers /\ base.resumed \subseteq resumed /\ base.waits = waits
  BY <1>5 DEF RegInv, Typed, Stages
<1>9. ASSUME NEW k \in Runs, k \in DOMAIN store
      PROVE  /\ k \in errors' => agent'[k] = "failing"
             /\ CanResume(store, others, base, k, announced[k], agent'[k], completing'[k],
                          k \notin cut', <<k, "steer">> \in calls')
  <2>1. Fine(k) /\ k \in DOMAIN runs
    BY <1>2, <1>3, <1>9
  <2>2. k \in errors' => agent'[k] = "failing"
    BY <1>1, <2>1 DEF Fine, ErrorsPend
  <2>3. CASE k # i
    BY <1>1, <1>3, <1>8, <1>9, <2>1, <2>2, <2>3 DEF CanResume, Fine, RecordsDecent, MarksHold, Marks, Hand
  <2>4. CASE k = i
    <3>1. Decent(runs[i], flow[i], announced[i], agent[i])
      BY <2>1, <2>4 DEF Fine, RecordsDecent
    <3>2. Decent(store[i], base.flow[i], announced[i], agent'[i])
      BY <1>1, <1>4, <1>8, <1>9, <2>4, <3>1 DEF Decent
    <3>3. runs[i].ended /\ runs[i].suppress = "none"
      BY <1>1, <3>1 DEF Decent
    <3>4. /\ Marks(store[k], base.flow[k], completing'[k], k \notin cut', <<k, "steer">> \in calls')
          /\ Hand(store[k], base.flow[k], completing'[k], k \notin cut',
                  <<k, "clearing">> \in base.timers,
                  \/ <<k, "plain">> \in base.timers /\ k \notin base.resumed
                  \/ Chosen(store, others, base, k))
      BY <1>4, <1>9, <2>4, <3>3 DEF Marks, Hand
    <3> QED
      BY <2>2, <2>4, <3>2, <3>4 DEF CanResume
  <2> QED
    BY <2>3, <2>4
<1>10. /\ Store(disk')
       /\ \A k \in Runs : k \in DOMAIN disk' =>
             k \in DOMAIN runs /\ k \in DOMAIN runs' /\ disk'[k] = runs'[k]
  <2>1. Store(runs')
    BY <1>1, <1>6, <1>7, <1>8, ResumeTypes DEF RegInv, Typed
  <2>2. DOMAIN runs' \subseteq DOMAIN store
    BY <1>1 DEF Resume
  <2> QED
    BY <1>1, <1>3, <2>1, <2>2
<1>11. \A k \in Runs : base.flow[k] \in {flow[k], "none"}
  BY <1>8
<1>12. /\ sweeping' \subseteq Sessions /\ events' \in 0..MaxEvents /\ cut' \subseteq Runs
       /\ errors' \subseteq errors /\ calls' \subseteq calls
       /\ completing' \in [Runs -> Nat] /\ \A k \in Runs : completing'[k] \in {completing[k], 0}
       /\ agent' \in [Runs -> States] /\ \A k \in Runs : agent'[k] = "none" => agent[k] = "none"
       /\ base.resumed \subseteq Runs /\ base.timers \subseteq Runs \X {"plain", "clearing"}
       /\ base.waits \subseteq Runs /\ others \in SUBSET Runs
  BY <1>1, <1>6, <1>8 DEF RegInv, Typed
<1> QED
  BY <1>1, <1>3, <1>7, <1>8, <1>9, <1>10, <1>11, <1>12, ResumingIsFine

LEMMA RetryTimerFiresIsFine ==
    ASSUME NEW i \in Runs, NEW kind \in {"plain", "clearing"}, RetryTimerFires(i, kind), RegInv
    PROVE  RegInv'
<1> DEFINE marks == IF kind = "clearing" THEN resumed \ {i} ELSE resumed
           left  == timers \ {<<i, kind>>}
<1>0. PICK over \in BOOLEAN : Retry(i, over, marks, left)
  BY DEF RetryTimerFires
<1> DEFINE store == Elapsed(runs, i, over)
           base  == [Now EXCEPT !.timers = left, !.resumed = marks]
<1>1. /\ Resume(store, {i}, base)
      /\ disk' = IF runs' = store THEN Elapsed(disk, i, over) ELSE runs'
      /\ UNCHANGED <<errors, completing, calls, sessions, sweeping, agent, events,
                     announced, cut, steered>>
  BY <1>0 DEF Retry
<1>2. Store(runs) /\ Store(disk) /\ \A k \in Runs : Fine(k)
  BY DEF RegInv, Typed
<1>3. ASSUME NEW st, Store(st)
      PROVE  /\ DOMAIN Elapsed(st, i, over) = DOMAIN st /\ Store(Elapsed(st, i, over))
             /\ \A k \in DOMAIN st :
                  /\ Elapsed(st, i, over)[k].ended = st[k].ended /\ Elapsed(st, i, over)[k].done = st[k].done
                  /\ Elapsed(st, i, over)[k].suppress = st[k].suppress /\ Elapsed(st, i, over)[k].handled = st[k].handled
                  /\ Elapsed(st, i, over)[k].outcome = st[k].outcome /\ Elapsed(st, i, over)[k].retries = st[k].retries
  <2>1. CASE ~over \/ i \notin DOMAIN st
    BY <1>3, <2>1 DEF Elapsed
  <2>2. CASE over /\ i \in DOMAIN st
    <3>1. Elapsed(st, i, over) = [st EXCEPT ![i].cool = FALSE] /\ st[i] \in Record
      BY <1>3, <2>2 DEF Elapsed, Store
    <3>2. /\ DOMAIN Elapsed(st, i, over) = DOMAIN st
          /\ \A k \in DOMAIN st : k # i => Elapsed(st, i, over)[k] = st[k]
          /\ Elapsed(st, i, over)[i] = [st[i] EXCEPT !.cool = FALSE]
      BY <2>2, <3>1
    <3>3. /\ Elapsed(st, i, over)[i] \in Record
          /\ Elapsed(st, i, over)[i].ended = st[i].ended /\ Elapsed(st, i, over)[i].done = st[i].done
          /\ Elapsed(st, i, over)[i].suppress = st[i].suppress /\ Elapsed(st, i, over)[i].handled = st[i].handled
          /\ Elapsed(st, i, over)[i].outcome = st[i].outcome /\ Elapsed(st, i, over)[i].retries = st[i].retries
      BY <3>1, <3>2 DEF Record
    <3> QED
      BY <1>3, <3>2, <3>3 DEF Store
  <2> QED
    BY <2>1, <2>2
<1>4. /\ DOMAIN store = DOMAIN runs /\ Store(store)
      /\ \A k \in DOMAIN runs :
           /\ store[k].ended = runs[k].ended /\ store[k].done = runs[k].done
           /\ store[k].suppress = runs[k].suppress /\ store[k].handled = runs[k].handled
           /\ store[k].outcome = runs[k].outcome /\ store[k].retries = runs[k].retries
  BY <1>2, <1>3
<1>5. /\ base.timers = timers \ {<<i, kind>>} /\ base.waits = waits /\ base.flow = flow
      /\ base.resumed = IF kind = "clearing" THEN resumed \ {i} ELSE resumed
  BY DEF Now
<1> HIDE DEF store, base
<1>6. ASSUME NEW k \in Runs, k \in DOMAIN store
      PROVE  /\ k \in errors' => agent'[k] = "failing"
             /\ CanResume(store, {i}, base, k, announced[k], agent'[k], completing'[k],
                          k \notin cut', <<k, "steer">> \in calls')
  <2>1. Fine(k) /\ k \in DOMAIN runs
    BY <1>2, <1>4, <1>6
  <2>2. k \in errors' => agent'[k] = "failing"
    BY <1>1, <2>1 DEF Fine, ErrorsPend
  <2>3. Decent(store[k], base.flow[k], announced[k], agent'[k])
    BY <1>1, <1>4, <1>5, <2>1 DEF Fine, RecordsDecent, Decent
  <2>4. Marks(store[k], base.flow[k], completing'[k], k \notin cut', <<k, "steer">> \in calls')
    BY <1>1, <1>4, <1>5, <2>1 DEF Fine, MarksHold, Marks
  <2>5. Hand(store[k], base.flow[k], completing'[k], k \notin cut',
             <<k, "clearing">> \in base.timers,
             \/ <<k, "plain">> \in base.timers /\ k \notin base.resumed
             \/ Chosen(store, {i}, base, k))
    <3>1. Hand(runs[k], flow[k], completing[k], k \notin cut, <<k, "clearing">> \in timers,
               <<k, "plain">> \in timers /\ k \notin resumed)
      BY <2>1 DEF Fine, MarksHold
    <3>2. CASE k # i
      <4>1. /\ <<k, "clearing">> \in base.timers <=> <<k, "clearing">> \in timers
            /\ <<k, "plain">> \in base.timers <=> <<k, "plain">> \in timers
            /\ k \in base.resumed <=> k \in resumed
        BY <1>5, <3>2
      <4> QED
        BY <1>1, <1>4, <1>5, <2>1, <3>1, <4>1 DEF Hand
    <3>3. CASE k = i /\ i \in base.resumed
      <4>1. kind = "plain" /\ i \in resumed
        BY <1>5, <3>3
      <4>2. <<i, "clearing">> \in base.timers <=> <<i, "clearing">> \in timers
        BY <1>5, <4>1
      <4> QED
        BY <1>1, <1>4, <1>5, <2>1, <3>1, <3>3, <4>1, <4>2 DEF Hand
    <3>4. CASE k = i /\ i \notin base.resumed
      <4>1. Chosen(store, {i}, base, k)
        BY <1>6, <3>4 DEF Chosen
      <4> QED
        BY <4>1 DEF Hand
    <3> QED
      BY <3>2, <3>3, <3>4
  <2> QED
    BY <2>2, <2>3, <2>4, <2>5 DEF CanResume
<1>7. /\ Store(disk')
      /\ \A k \in Runs : k \in DOMAIN disk' =>
            /\ k \in DOMAIN runs \cup DOMAIN disk
            /\ \/ Decent(disk'[k], flow'[k], announced[k], agent'[k])
               \/ k \in DOMAIN runs' /\ disk'[k] = runs'[k]
  <2>1. Store(runs')
    BY <1>1, <1>4, <1>5, ResumeTypes DEF RegInv, Typed
  <2>2. DOMAIN runs' \subseteq DOMAIN runs
    BY <1>1, <1>4 DEF Resume
  <2>3. CASE runs' # store
    BY <1>1, <2>1, <2>2, <2>3
  <2>4. CASE runs' = store
    <3>1. disk' = Elapsed(disk, i, over)
      BY <1>1, <2>4
    <3>2. Store(disk') /\ DOMAIN disk' = DOMAIN disk
      BY <1>2, <1>3, <3>1
    <3>3. ASSUME NEW k \in Runs, k \in DOMAIN disk
          PROVE  Decent(disk'[k], flow'[k], announced[k], agent'[k])
      <4>1. Passed(store, {i}, base, k) \/ Pruned(base, k) \/ Spent(store, base, k) \/ Begun(store, k)
        BY <1>1, <1>4, <1>5, ResumeMoves DEF RegInv, Typed
      <4>2. ~Begun(store, k)
        <5> SUFFICES ASSUME Begun(store, k) PROVE FALSE
          OBVIOUS
        <5>1. store[k] \in Record /\ store[k] = [store[k] EXCEPT !.handled = TRUE] /\ ~store[k].handled
          BY <1>4, <2>4 DEF Begun, Store
        <5> QED
          BY <5>1 DEF Record
      <4>3. flow'[k] = flow[k]
        BY <1>5, <4>1, <4>2 DEF Passed, Pruned, Spent
      <4>4. Decent(disk[k], flow[k], announced[k], agent[k])
        BY <1>2, <3>3 DEF Fine, RecordsDecent
      <4>5. /\ disk'[k].ended = disk[k].ended /\ disk'[k].done = disk[k].done
            /\ disk'[k].suppress = disk[k].suppress /\ disk'[k].handled = disk[k].handled
            /\ disk'[k].outcome = disk[k].outcome /\ disk'[k].retries = disk[k].retries
        BY <1>2, <1>3, <3>1, <3>3
      <4> QED
        BY <1>1, <4>3, <4>4, <4>5 DEF Decent
    <3> QED
      BY <3>2, <3>3
  <2> QED
    BY <2>3, <2>4
<1>8. /\ sweeping' \subseteq Sessions /\ events' \in 0..MaxEvents /\ cut' \subseteq Runs
      /\ errors' \subseteq errors /\ calls' \subseteq calls
      /\ completing' \in [Runs -> Nat] /\ \A k \in Runs : completing'[k] \in {completing[k], 0}
      /\ agent' \in [Runs -> States] /\ \A k \in Runs : agent'[k] = "none" => agent[k] = "none"
      /\ base.resumed \subseteq Runs /\ base.timers \subseteq Runs \X {"plain", "clearing"}
      /\ base.waits \subseteq Runs /\ base.flow \in [Runs -> Stages] /\ {i} \in SUBSET Runs
      /\ \A k \in Runs : base.flow[k] \in {flow[k], "none"}
  BY <1>1, <1>5 DEF RegInv, Typed
<1> QED
  BY <1>1, <1>4, <1>6, <1>7, <1>8, ResumingIsFine

LEMMA CallFailsIsFine ==
    ASSUME NEW i \in Runs, NEW kind \in Kinds, CallFails(i, kind), RegInv PROVE RegInv'
<1>1. /\ calls' = calls \ {<<i, kind>>}
      /\ UNCHANGED <<errors, completing, sessions, sweeping, agent, events, announced, cut, steered>>
  BY DEF CallFails
<1>2. Store(runs) /\ \A k \in Runs : Fine(k)
  BY DEF RegInv, Typed
<1>3. CASE kind = "steer" /\ i \in DOMAIN runs /\ runs[i].suppress = "steer"
  <2> DEFINE store == [runs EXCEPT ![i].suppress = "none"]
             J     == IF runs[i].ended /\ ~runs[i].done THEN {i} ELSE {}
             base  == [Now EXCEPT !.resumed = @ \ {i}]
  <2>1. Resume(store, J, base) /\ disk' = runs'
    BY <1>3 DEF CallFails, Persist
  <2>2. runs[i] \in Record /\ Decent(runs[i], flow[i], announced[i], agent[i]) /\ announced[i] \in Nat
    BY <1>2, <1>3 DEF Store, Fine, RecordsDecent, RegInv, Typed
  <2>3. /\ DOMAIN store = DOMAIN runs /\ \A k \in DOMAIN runs : k # i => store[k] = runs[k]
        /\ store[i] = [runs[i] EXCEPT !.suppress = "none"]
    BY <1>3
  <2>4. /\ store[i] \in Record /\ store[i].suppress = "none" /\ store[i].ended = runs[i].ended
        /\ store[i].done = runs[i].done /\ store[i].handled = runs[i].handled
        /\ store[i].outcome = runs[i].outcome /\ store[i].retries = runs[i].retries
    <3> HIDE DEF store
    <3> QED
      BY <2>2, <2>3 DEF Record
  <2>5. /\ base.timers = timers /\ base.waits = waits /\ base.flow = flow
        /\ base.resumed = resumed \ {i}
    BY DEF Now
  <2>6. J \in SUBSET Runs /\ (runs[i].ended /\ ~runs[i].done => i \in J)
    OBVIOUS
  <2> HIDE DEF store, base, J
  <2>7. Store(store)
    BY <1>2, <2>3, <2>4 DEF Store
  <2>8. ASSUME NEW k \in Runs, k \in DOMAIN store
        PROVE  /\ k \in errors' => agent'[k] = "failing"
               /\ CanResume(store, J, base, k, announced[k], agent'[k], completing'[k],
                            k \notin cut', <<k, "steer">> \in calls')
    <3>1. Fine(k) /\ k \in DOMAIN runs
      BY <1>2, <2>3, <2>8
    <3>2. k \in errors' => agent'[k] = "failing"
      BY <1>1, <3>1 DEF Fine, ErrorsPend
    <3>3. CASE k # i
      <4>1. /\ Decent(runs[k], flow[k], announced[k], agent[k])
            /\ Marks(runs[k], flow[k], completing[k], k \notin cut, <<k, "steer">> \in calls)
            /\ Hand(runs[k], flow[k], completing[k], k \notin cut, <<k, "clearing">> \in timers,
                    <<k, "plain">> \in timers /\ k \notin resumed)
        BY <3>1 DEF Fine, RecordsDecent, MarksHold
      <4>2. store[k] = runs[k] /\ (k \in base.resumed <=> k \in resumed)
            /\ (<<k, "steer">> \in calls' <=> <<k, "steer">> \in calls)
        BY <1>1, <2>3, <2>5, <3>1, <3>3
      <4> QED
        BY <1>1, <2>5, <3>2, <4>1, <4>2 DEF CanResume, Marks, Hand
    <3>4. CASE k = i
      <4>1. Decent(store[i], flow[i], announced[i], agent'[i])
        BY <1>1, <1>3, <2>2, <2>4 DEF Decent
      <4>2. Marks(store[i], flow[i], completing'[i], i \notin cut', <<i, "steer">> \in calls')
        BY <1>1, <2>4, <3>1, <3>4 DEF Fine, MarksHold, Marks
      <4>3. runs[i].ended /\ ~runs[i].done => Chosen(store, J, base, i)
        BY <2>5, <2>6, <2>8, <3>4 DEF Chosen
      <4>4. Hand(store[i], flow[i], completing'[i], i \notin cut',
                 <<i, "clearing">> \in base.timers,
                 \/ <<i, "plain">> \in base.timers /\ i \notin base.resumed
                 \/ Chosen(store, J, base, i))
        BY <2>4, <4>3 DEF Hand
      <4> QED
        BY <2>5, <3>2, <3>4, <4>1, <4>2, <4>4 DEF CanResume
    <3> QED
      BY <3>3, <3>4
  <2>9. /\ Store(disk')
        /\ \A k \in Runs : k \in DOMAIN disk' =>
              k \in DOMAIN runs /\ k \in DOMAIN runs' /\ disk'[k] = runs'[k]
    <3>1. Store(runs')
      BY <2>1, <2>5, <2>6, <2>7, ResumeTypes DEF RegInv, Typed
    <3>2. DOMAIN runs' \subseteq DOMAIN store
      BY <2>1 DEF Resume
    <3> QED
      BY <2>1, <2>3, <3>1, <3>2
  <2>10. /\ sweeping' \subseteq Sessions /\ events' \in 0..MaxEvents /\ cut' \subseteq Runs
         /\ errors' \subseteq errors /\ calls' \subseteq calls
         /\ completing' \in [Runs -> Nat] /\ \A k \in Runs : completing'[k] \in {completing[k], 0}
         /\ agent' \in [Runs -> States] /\ \A k \in Runs : agent'[k] = "none" => agent[k] = "none"
         /\ base.resumed \subseteq Runs /\ base.timers \subseteq Runs \X {"plain", "clearing"}
         /\ base.waits \subseteq Runs /\ base.flow \in [Runs -> Stages]
         /\ \A k \in Runs : base.flow[k] \in {flow[k], "none"}
    BY <1>1, <2>5 DEF RegInv, Typed
  <2> QED
    BY <1>1, <2>1, <2>3, <2>6, <2>7, <2>8, <2>9, <2>10, ResumingIsFine
<1>4. CASE ~(kind = "steer" /\ i \in DOMAIN runs /\ runs[i].suppress = "steer")
  <2>1. UNCHANGED <<runs, disk, resumed, timers, waits, flow>>
    BY <1>4 DEF CallFails
  <2>2. Typed'
    BY <1>1, <2>1 DEF RegInv, Typed
  <2>3. ASSUME NEW k \in Runs, k # i PROVE Fine(k)'
    <3>1. SameRecord(k) /\ DiskFollows(k) /\ Still(k)
      BY <1>1, <2>1, <2>3 DEF SameRecord, DiskFollows, Still
    <3> QED
      BY <3>1, StillIsFine DEF RegInv
  <2>4. Fine(i)'
    <3>1. RecordsDecent(i)' /\ SpeaksOnce(i)' /\ ReplacedIsGone(i)' /\ ErrorsPend(i)'
      BY <1>1, <1>2, <2>1 DEF Fine, RecordsDecent, SpeaksOnce, ReplacedIsGone, ErrorsPend
    <3>2. UnknownBefore(i)'
      BY <1>1, <1>2, <2>1 DEF Fine, UnknownBefore
    <3>3. i \in DOMAIN runs /\ runs[i].suppress = "steer" =>
              (<<i, "steer">> \in calls => <<i, "steer">> \in calls')
      BY <1>1, <1>4
    <3>4. MarksHold(i)'
      BY <1>1, <1>2, <2>1, <3>3 DEF Fine, MarksHold, Marks, Hand
    <3> QED
      BY <3>1, <3>2, <3>4 DEF Fine
  <2> QED
    BY <2>2, <2>3, <2>4 DEF RegInv
<1> QED
  BY <1>3, <1>4

LEMMA CrashIsFine == ASSUME Crash, RegInv PROVE RegInv'
<1> DEFINE base == [resumed |-> {}, timers |-> {}, waits |-> {}, flow |-> [i \in Runs |-> "none"]]
<1>1. /\ Resume(disk, DOMAIN disk, base) /\ disk' = runs'
      /\ errors' = {} /\ calls' = {} /\ sweeping' = {}
      /\ completing' = [i \in Runs |-> 0]
      /\ agent' = [i \in Runs |-> IF agent[i] = "none" THEN "none" ELSE "lost"]
      /\ cut' = cut \cup {i \in DOMAIN disk : disk[i].suppress = "steer" \/ (disk[i].handled /\ ~disk[i].done)}
      /\ UNCHANGED <<sessions, announced, steered>>
      /\ events < MaxEvents /\ events' = events + 1
  BY DEF Crash, Persist, Event
<1>2. Store(disk) /\ \A k \in Runs : Fine(k)
  BY DEF RegInv, Typed
<1>3. /\ base.timers = {} /\ base.waits = {} /\ base.resumed = {}
      /\ base.flow \in [Runs -> Stages] /\ \A k \in Runs : base.flow[k] = "none"
  BY DEF Stages
<1> HIDE DEF base
<1>4. ASSUME NEW k \in Runs, k \in DOMAIN disk
      PROVE  CanResume(disk, DOMAIN disk, base, k, announced[k], agent'[k], completing'[k],
                       k \notin cut', <<k, "steer">> \in calls')
  <2>1. Decent(disk[k], flow[k], announced[k], agent[k]) /\ agent[k] # "none"
    BY <1>2, <1>4 DEF Fine, RecordsDecent, UnknownBefore
  <2>2. Decent(disk[k], base.flow[k], announced[k], agent'[k])
    BY <1>1, <1>3, <2>1 DEF Decent
  <2>3. Marks(disk[k], base.flow[k], completing'[k], k \notin cut', <<k, "steer">> \in calls')
    BY <1>1, <1>4 DEF Marks
  <2>4. Chosen(disk, DOMAIN disk, base, k)
    BY <1>3, <1>4 DEF Chosen
  <2> QED
    BY <2>2, <2>3, <2>4 DEF CanResume, Hand
<1>5. /\ Store(disk')
      /\ \A k \in Runs : k \in DOMAIN disk' =>
            k \in DOMAIN disk /\ k \in DOMAIN runs' /\ disk'[k] = runs'[k]
  <2>1. DOMAIN disk \in SUBSET Runs
    BY <1>2 DEF Store
  <2>2. Store(runs')
    BY <1>1, <1>2, <1>3, <2>1, ResumeTypes
  <2>3. DOMAIN runs' \subseteq DOMAIN disk
    BY <1>1 DEF Resume
  <2> QED
    BY <1>1, <2>2, <2>3
<1>6. /\ sweeping' \subseteq Sessions /\ events' \in 0..MaxEvents /\ cut' \subseteq Runs
      /\ errors' \subseteq errors /\ calls' \subseteq calls
      /\ completing' \in [Runs -> Nat] /\ \A k \in Runs : completing'[k] \in {completing[k], 0}
      /\ agent' \in [Runs -> States] /\ \A k \in Runs : agent'[k] = "none" => agent[k] = "none"
      /\ base.resumed \subseteq Runs /\ base.timers \subseteq Runs \X {"plain", "clearing"}
      /\ base.waits \subseteq Runs /\ DOMAIN disk \in SUBSET Runs
      /\ \A k \in Runs : base.flow[k] \in {flow[k], "none"}
      /\ \A k \in Runs : k \notin errors'
  <2>1. MaxEvents \in Nat
    BY SubagentAssumption DEF SubagentAssumption
  <2>2. events' \in 0..MaxEvents
    BY <1>1, <2>1 DEF RegInv, Typed
  <2>3. cut' \subseteq Runs /\ DOMAIN disk \in SUBSET Runs
    BY <1>1, <1>2 DEF RegInv, Typed, Store
  <2> QED
    BY <1>1, <1>3, <2>2, <2>3 DEF RegInv, Typed, States
<1> QED
  BY <1>1, <1>2, <1>3, <1>4, <1>5, <1>6, ResumingIsFine

-----------------------------------------------------------------------------
(* Steers, kills, sweeps, time. *)

LEMMA SteerIsFine == ASSUME NEW i \in Runs, Steer(i), RegInv PROVE RegInv'
<1>1. /\ events < MaxEvents /\ events' = events + 1
      /\ i \in DOMAIN runs /\ ~runs[i].ended
      /\ runs' = [runs EXCEPT ![i].suppress = "steer"] /\ disk' = runs'
      /\ calls' = calls \cup {<<i, "steer">>}
      /\ UNCHANGED <<resumed, timers, errors, waits, completing, flow, sessions, sweeping, agent,
                     announced, cut, steered>>
  BY DEF Steer, Event, Persist
<1>2. runs[i] \in Record /\ Fine(i) /\ Decent(runs[i], flow[i], announced[i], agent[i])
  BY <1>1 DEF RegInv, Typed, Store, Fine, RecordsDecent
<1>3. /\ DOMAIN runs' = DOMAIN runs /\ \A k \in DOMAIN runs : k # i => runs'[k] = runs[k]
      /\ runs'[i] = [runs[i] EXCEPT !.suppress = "steer"]
  BY <1>1
<1>4. /\ runs'[i] \in Record /\ runs'[i].suppress = "steer" /\ runs'[i].ended = runs[i].ended
      /\ runs'[i].done = runs[i].done /\ runs'[i].handled = runs[i].handled
      /\ runs'[i].outcome = runs[i].outcome /\ runs'[i].retries = runs[i].retries
  BY <1>2, <1>3 DEF Record
<1>5. Typed'
  <2>1. Store(runs')
    BY <1>3, <1>4 DEF RegInv, Typed, Store
  <2>2. events' \in 0..MaxEvents
    BY <1>1, SubagentAssumption DEF RegInv, Typed, SubagentAssumption
  <2>3. calls' \subseteq Runs \X Kinds
    BY <1>1 DEF RegInv, Typed, Kinds
  <2> QED
    BY <1>1, <2>1, <2>2, <2>3 DEF RegInv, Typed
<1>6. ASSUME NEW k \in Runs, k # i PROVE Fine(k)'
  <2>1. SameRecord(k) /\ DiskFollows(k) /\ Still(k)
    BY <1>1, <1>3, <1>6, PersistFollows DEF SameRecord, Still
  <2> QED
    BY <2>1, StillIsFine DEF RegInv
<1>7. Fine(i)'
  <2>1. Decent(runs'[i], flow'[i], announced'[i], agent'[i])
    BY <1>1, <1>2, <1>4, SubagentAssumption DEF Decent, Record, SubagentAssumption
  <2>2. MarksHold(i)'
    BY <1>1, <1>2, <1>4 DEF Fine, MarksHold, Marks, Hand
  <2>3. UnknownBefore(i)' /\ SpeaksOnce(i)' /\ ReplacedIsGone(i)' /\ ErrorsPend(i)'
    BY <1>1, <1>2, <1>3 DEF Fine, UnknownBefore, SpeaksOnce, ReplacedIsGone, ErrorsPend
  <2> QED
    BY <1>1, <2>1, <2>2, <2>3 DEF Fine, RecordsDecent
<1> QED
  BY <1>5, <1>6, <1>7 DEF RegInv

LEMMA RecoverIsFine == ASSUME NEW i \in Runs, Recover(i), RegInv PROVE RegInv'
<1>1. /\ i \in DOMAIN runs /\ calls' = calls \cup {<<i, "recover">>}
      /\ UNCHANGED <<runs, disk, resumed, timers, errors, waits, completing, flow, sessions,
                     sweeping, agent, events, announced, cut, steered>>
  BY DEF Recover
<1>2. Typed'
  <2>1. calls' \subseteq Runs \X Kinds
    BY <1>1 DEF RegInv, Typed, Kinds
  <2> QED
    BY <1>1, <2>1 DEF RegInv, Typed
<1>3. ASSUME NEW k \in Runs, k # i PROVE Fine(k)'
  <2>1. SameRecord(k) /\ DiskFollows(k) /\ Still(k)
    BY <1>1, <1>3 DEF SameRecord, DiskFollows, Still
  <2> QED
    BY <2>1, StillIsFine DEF RegInv
<1>4. Fine(i)'
  <2>1. Fine(i) /\ (<<i, "steer">> \in calls' <=> <<i, "steer">> \in calls)
    BY <1>1 DEF RegInv
  <2> QED
    BY <1>1, <2>1 DEF Fine, RecordsDecent, UnknownBefore, SpeaksOnce, ReplacedIsGone, ErrorsPend,
       MarksHold, Marks, Hand
<1> QED
  BY <1>2, <1>3, <1>4 DEF RegInv

LEMMA KillIsFine == ASSUME NEW s \in Sessions, Kill(s), RegInv PROVE RegInv'
<1> DEFINE J == {i \in DOMAIN runs : Home[i] = s /\ ~runs[i].ended}
<1>1. /\ events < MaxEvents /\ events' = events + 1
      /\ runs' = [i \in DOMAIN runs |->
             IF i \in J THEN [runs[i] EXCEPT !.ended = TRUE, !.outcome = "error", !.handled = TRUE,
                                            !.done = TRUE, !.suppress = "killed"]
             ELSE runs[i]]
      /\ disk' = runs' /\ errors' = errors \ J
      /\ UNCHANGED <<resumed, timers, waits, completing, flow, calls, sessions, sweeping, agent,
                     announced, cut, steered>>
  BY DEF Kill, Event, Persist
<1>2. J \subseteq DOMAIN runs /\ \A k \in J : ~runs[k].ended
  OBVIOUS
<1> HIDE DEF J
<1>3. /\ DOMAIN runs' = DOMAIN runs /\ \A k \in DOMAIN runs \ J : runs'[k] = runs[k]
      /\ \A k \in J : runs'[k] = [runs[k] EXCEPT !.ended = TRUE, !.outcome = "error", !.handled = TRUE,
                                                 !.done = TRUE, !.suppress = "killed"]
  BY <1>1, <1>2
<1>4. ASSUME NEW k \in J
      PROVE  /\ runs[k] \in Record /\ runs'[k] \in Record /\ runs'[k].suppress = "killed"
             /\ runs'[k].ended /\ runs'[k].done /\ runs'[k].handled
             /\ runs'[k].retries = runs[k].retries
  <2>1. runs[k] \in Record
    BY <1>2 DEF RegInv, Typed, Store
  <2> QED
    BY <1>3, <2>1 DEF Record
<1>5. Typed'
  <2>1. Store(runs')
    BY <1>3, <1>4 DEF RegInv, Typed, Store
  <2>2. events' \in 0..MaxEvents
    <3>1. events < MaxEvents /\ events' = events + 1
      BY <1>1
    <3> QED
      BY <3>1, SubagentAssumption DEF RegInv, Typed, SubagentAssumption
  <2>3. errors' \subseteq Runs
    BY <1>1 DEF RegInv, Typed
  <2> QED
    BY <1>1, <2>1, <2>2, <2>3 DEF RegInv, Typed
<1>6. ASSUME NEW k \in Runs PROVE Fine(k)'
  <2>1. CASE k \notin J
    <3>1. SameRecord(k) /\ DiskFollows(k) /\ Still(k)
      BY <1>1, <1>3, <2>1, PersistFollows DEF SameRecord, Still
    <3> QED
      BY <3>1, StillIsFine DEF RegInv
  <2>2. CASE k \in J
    <3>1. /\ k \in DOMAIN runs /\ ~runs[k].ended /\ Fine(k) /\ announced[k] \in Nat
          /\ Decent(runs[k], flow[k], announced[k], agent[k])
      BY <1>2, <2>2 DEF RegInv, Typed, Fine, RecordsDecent
    <3>2. flow[k] = "none" /\ announced[k] = 0 /\ runs[k].retries = 0
      BY <1>4, <2>2, <3>1 DEF Decent, Record
    <3>3. Decent(runs'[k], flow'[k], announced'[k], agent'[k])
      <4>1. flow'[k] = "none" /\ announced'[k] = 0
        BY <1>1, <3>2
      <4>2. runs'[k].retries = 0 /\ ~(0 >= MaxRetries)
        BY <1>4, <2>2, <3>2, SubagentAssumption DEF SubagentAssumption
      <4> QED
        BY <1>4, <2>2, <4>1, <4>2 DEF Decent
    <3>4. MarksHold(k)'
      BY <1>4, <2>2 DEF MarksHold, Marks, Hand
    <3>5. UnknownBefore(k)' /\ SpeaksOnce(k)' /\ ReplacedIsGone(k)' /\ ErrorsPend(k)'
      BY <1>1, <1>3, <2>2, <3>1 DEF Fine, UnknownBefore, SpeaksOnce, ReplacedIsGone, ErrorsPend
    <3> QED
      BY <1>1, <3>3, <3>4, <3>5 DEF Fine, RecordsDecent
  <2> QED
    BY <2>1, <2>2
<1> QED
  BY <1>5, <1>6 DEF RegInv

LEMMA SweepDeletesIsFine == ASSUME NEW i \in Runs, SweepDeletes(i), RegInv PROVE RegInv'
<1>1. /\ events < MaxEvents /\ events' = events + 1 /\ i \in DOMAIN runs
      /\ runs' = Without(runs, i) /\ errors' = errors \ {i}
      /\ sweeping' = sweeping \cup {Home[i]}
      /\ UNCHANGED <<disk, resumed, timers, waits, completing, flow, calls, sessions, agent,
                     announced, cut, steered>>
  BY DEF SweepDeletes, Event
<1>2. /\ DOMAIN runs' = DOMAIN runs \ {i}
      /\ \A k \in DOMAIN runs : k # i => runs'[k] = runs[k]
  BY <1>1 DEF Without
<1>3. Typed'
  <2>1. Store(runs')
    BY <1>2 DEF RegInv, Typed, Store
  <2>2. events' \in 0..MaxEvents
    BY <1>1, SubagentAssumption DEF RegInv, Typed, SubagentAssumption
  <2>3. errors' \subseteq Runs /\ sweeping' \subseteq Sessions
    BY <1>1, SubagentAssumption DEF RegInv, Typed, SubagentAssumption
  <2> QED
    BY <1>1, <2>1, <2>2, <2>3 DEF RegInv, Typed
<1>4. ASSUME NEW k \in Runs, k # i PROVE Fine(k)'
  <2>1. SameRecord(k) /\ DiskFollows(k) /\ Still(k)
    BY <1>1, <1>2, <1>4 DEF SameRecord, DiskFollows, Still
  <2> QED
    BY <2>1, StillIsFine DEF RegInv
<1>5. Fine(i)'
  <2>1. Fine(i) /\ i \notin DOMAIN runs'
    BY <1>2 DEF RegInv
  <2> QED
    BY <1>1, <2>1 DEF Fine, RecordsDecent, UnknownBefore, SpeaksOnce, ReplacedIsGone, ErrorsPend,
       MarksHold
<1> QED
  BY <1>3, <1>4, <1>5 DEF RegInv

LEMMA SweepEndsIsFine == ASSUME NEW s \in Sessions, SweepEnds(s), RegInv PROVE RegInv'
<1>1. /\ sweeping' = sweeping \ {s} /\ sessions' = sessions \ {s} /\ disk' = runs
      /\ UNCHANGED <<runs, resumed, timers, errors, waits, completing, flow, calls, agent, events,
                     announced, cut, steered>>
  BY DEF SweepEnds
<1>2. Typed'
  BY <1>1 DEF RegInv, Typed
<1>3. ASSUME NEW k \in Runs PROVE Fine(k)'
  <2>1. SameRecord(k) /\ DiskFollows(k) /\ Still(k)
    BY <1>1 DEF SameRecord, DiskFollows, Still
  <2> QED
    BY <2>1, StillIsFine DEF RegInv
<1> QED
  BY <1>2, <1>3 DEF RegInv

\* Time changes no mark.
LEMMA ExpireIsFine == ASSUME NEW i \in Runs, Expire(i), RegInv PROVE RegInv'
<1>1. /\ i \in DOMAIN runs /\ runs' = [runs EXCEPT ![i].old = TRUE]
      /\ disk' = IF i \in DOMAIN disk THEN [disk EXCEPT ![i].old = @ \/ disk[i].ended] ELSE disk
      /\ UNCHANGED <<resumed, timers, errors, waits, completing, flow, calls, sessions, sweeping,
                     agent, events, announced, cut, steered>>
  BY DEF Expire
<1>2. /\ Store(runs) /\ Store(disk) /\ Fine(i)
  BY DEF RegInv, Typed
<1>3. /\ DOMAIN runs' = DOMAIN runs /\ \A k \in DOMAIN runs : k # i => runs'[k] = runs[k]
      /\ runs'[i] = [runs[i] EXCEPT !.old = TRUE] /\ runs[i] \in Record
  BY <1>1, <1>2 DEF Store
<1>4. /\ runs'[i] \in Record /\ runs'[i].suppress = runs[i].suppress /\ runs'[i].ended = runs[i].ended
      /\ runs'[i].done = runs[i].done /\ runs'[i].handled = runs[i].handled
      /\ runs'[i].outcome = runs[i].outcome /\ runs'[i].retries = runs[i].retries
  BY <1>3 DEF Record
<1>5. DOMAIN disk' = DOMAIN disk /\ \A k \in DOMAIN disk : k # i => disk'[k] = disk[k]
  BY <1>1
<1>6. i \in DOMAIN disk =>
        /\ disk'[i] \in Record /\ disk'[i].suppress = disk[i].suppress /\ disk'[i].ended = disk[i].ended
        /\ disk'[i].done = disk[i].done /\ disk'[i].handled = disk[i].handled
        /\ disk'[i].outcome = disk[i].outcome /\ disk'[i].retries = disk[i].retries
  <2> SUFFICES ASSUME i \in DOMAIN disk
               PROVE  /\ disk'[i] \in Record /\ disk'[i].suppress = disk[i].suppress
                      /\ disk'[i].ended = disk[i].ended
                      /\ disk'[i].done = disk[i].done /\ disk'[i].handled = disk[i].handled
                      /\ disk'[i].outcome = disk[i].outcome /\ disk'[i].retries = disk[i].retries
    OBVIOUS
  <2>1. disk[i] \in Record
    BY <1>2 DEF Store
  <2>2. (disk[i].old \/ disk[i].ended) \in BOOLEAN
    OBVIOUS
  <2>3. disk'[i] = [disk[i] EXCEPT !.old = disk[i].old \/ disk[i].ended]
    BY <1>1
  <2> QED
    BY <2>1, <2>2, <2>3 DEF Record
<1>7. Typed'
  <2>1. Store(runs') /\ Store(disk')
    BY <1>2, <1>3, <1>4, <1>5, <1>6 DEF Store
  <2> QED
    BY <1>1, <2>1 DEF RegInv, Typed
<1>8. ASSUME NEW k \in Runs, k # i PROVE Fine(k)'
  <2>1. SameRecord(k) /\ DiskFollows(k) /\ Still(k)
    BY <1>1, <1>3, <1>5, <1>8 DEF SameRecord, DiskFollows, Still
  <2> QED
    BY <2>1, StillIsFine DEF RegInv
<1>9. Fine(i)'
  <2>1. Decent(runs'[i], flow'[i], announced'[i], agent'[i])
    BY <1>1, <1>2, <1>4 DEF Fine, RecordsDecent, Decent
  <2>2. i \in DOMAIN disk' => Decent(disk'[i], flow'[i], announced'[i], agent'[i])
    BY <1>1, <1>2, <1>5, <1>6 DEF Fine, RecordsDecent, Decent
  <2>3. MarksHold(i)'
    BY <1>1, <1>2, <1>3, <1>4 DEF Fine, MarksHold, Marks, Hand
  <2>4. UnknownBefore(i)' /\ SpeaksOnce(i)' /\ ReplacedIsGone(i)' /\ ErrorsPend(i)'
    BY <1>1, <1>2, <1>3, <1>5 DEF Fine, UnknownBefore, SpeaksOnce, ReplacedIsGone, ErrorsPend
  <2> QED
    BY <2>1, <2>2, <2>3, <2>4 DEF Fine, RecordsDecent
<1> QED
  BY <1>7, <1>8, <1>9 DEF RegInv

-----------------------------------------------------------------------------
(* The theorems. *)

LEMMA FlowIsFine == ASSUME NEW i \in Runs, Flow(i), RegInv PROVE RegInv'
BY FlowStopsIsFine, FlowIsIgnoredIsFine, FlowGoesOnIsFine, FlowSucceedsIsFine, FlowFailsIsFine,
   CloseIsFine, FlowWakesIsFine DEF Flow

LEMMA RunStepIsFine ==
    ASSUME NEW i \in Runs, RegInv,
           \/ Register(i) \/ CompletionGoesOn(i) \/ \E a \in {"ok", "error"} : WaitReturns(i, a)
           \/ AgentStarts(i) \/ AgentErrs(i) \/ AgentEnds(i) \/ ErrorTimerFires(i)
           \/ Flow(i) \/ \E k \in {"plain", "clearing"} : RetryTimerFires(i, k)
           \/ Steer(i) \/ Recover(i) \/ \E k \in Kinds : CallEnds(i, k)
           \/ SweepDeletes(i) \/ Expire(i)
    PROVE  RegInv'
<1>1. CASE \/ Register(i) \/ CompletionGoesOn(i) \/ \E a \in {"ok", "error"} : WaitReturns(i, a)
           \/ AgentStarts(i) \/ AgentErrs(i) \/ AgentEnds(i) \/ ErrorTimerFires(i)
  BY <1>1, RegisterIsFine, CompletionGoesOnIsFine, WaitReturnsIsFine, AgentStartsIsFine,
     AgentErrsIsFine, AgentEndsIsFine, ErrorTimerFiresIsFine
<1>2. CASE Flow(i) \/ \E k \in {"plain", "clearing"} : RetryTimerFires(i, k)
  BY <1>2, FlowIsFine, RetryTimerFiresIsFine
<1>3. CASE \E k \in Kinds : CallEnds(i, k)
  BY <1>3, CallFailsIsFine, CallReturnsIsFine DEF CallEnds
<1>4. CASE Steer(i) \/ Recover(i) \/ SweepDeletes(i) \/ Expire(i)
  BY <1>4, SteerIsFine, RecoverIsFine, SweepDeletesIsFine, ExpireIsFine
<1> QED
  BY <1>1, <1>2, <1>3, <1>4

LEMMA NextIsFine == RegInv /\ [RegNext]_regVars => RegInv'
<1> SUFFICES ASSUME RegInv, [RegNext]_regVars PROVE RegInv'
  OBVIOUS
<1>1. CASE RegNext
  BY <1>1, RunStepIsFine, KillIsFine, SweepEndsIsFine, CrashIsFine DEF RegNext
<1>2. CASE UNCHANGED regVars
  BY <1>2, StutterKeeps
<1> QED
  BY <1>1, <1>2

LEMMA RegInvariant == RegSpec => []RegInv
<1>1. RegInit => RegInv
  BY InitIsFine
<1>2. RegInv /\ [RegNext]_regVars => RegInv'
  BY NextIsFine
<1> QED
  BY <1>1, <1>2, PTL DEF RegSpec

\* The variables have their types; in particular, no record ever counts more announce attempts
\* than the limit of retries, whatever descendants, hard expiries and restarts do.
THEOREM RegistryTypeCorrect == RegSpec => []RegTypeOK
<1>1. RegInv => RegTypeOK
  BY DEF RegInv, Typed, Store, Stages, States, RegTypeOK
<1> QED
  BY <1>1, RegInvariant, PTL

\* A run is announced to its requester at most once, although its end is learnt from events and
\* from agent.wait, announces are retried, and a crash restores the registry from the disk.
THEOREM ResultsAreAnnouncedOnce == RegSpec => []AnnouncedOnce
<1>1. RegInv => AnnouncedOnce
  BY DEF RegInv, Fine, SpeaksOnce, AnnouncedOnce
<1> QED
  BY <1>1, RegInvariant, PTL

\* A run that a steer interrupted and replaced has said nothing and will say nothing.
THEOREM SteeredRunsStaySilent == RegSpec => []InterruptedStaysSilent
<1>1. RegInv => InterruptedStaysSilent
  BY DEF RegInv, Typed, Fine, ReplacedIsGone, InterruptedStaysSilent
<1> QED
  BY <1>1, RegInvariant, PTL

\* An ended run that is not settled always has something under way that will look at it again,
\* unless a crash has cut its announce or its steer short.
THEOREM EndedRunsAreInHand == RegSpec => []EndedRunIsInHand
<1>1. RegInv => EndedRunIsInHand
  <2> SUFFICES ASSUME RegInv, NEW i \in Runs, Open(i)
               PROVE  \/ completing[i] > 0 \/ flow[i] # "none" \/ \E k \in Kinds : <<i, k>> \in calls
                      \/ \E k \in {"plain", "clearing"} : <<i, k>> \in timers
    BY DEF EndedRunIsInHand
  <2>1. /\ Marks(runs[i], flow[i], completing[i], i \notin cut, <<i, "steer">> \in calls)
        /\ Hand(runs[i], flow[i], completing[i], i \notin cut, <<i, "clearing">> \in timers,
                <<i, "plain">> \in timers /\ i \notin resumed)
    BY DEF RegInv, Fine, MarksHold, Open
  <2> QED
    BY <2>1 DEF Marks, Hand, Open, Kinds
<1> QED
  BY <1>1, RegInvariant, PTL

\* An announce that a resume begins is that of a run in the map.
LEMMA ResumeBegins ==
    ASSUME NEW store, NEW J, NEW base, Store(store), base.flow \in [Runs -> Stages],
           Resume(store, J, base), NEW k \in Runs, base.flow[k] = "none", flow'[k] = "announce"
    PROVE  Begun(store, k)
<1>1. Passed(store, J, base, k) \/ Pruned(base, k) \/ Spent(store, base, k) \/ Begun(store, k)
  BY ResumeMoves
<1> QED
  BY <1>1 DEF Passed, Pruned, Spent

\* Apart from a crash, the step that begins an announce has its run in the map and leaves the
\* agents alone.
LEMMA BeginningIsQuiet ==
    ASSUME RegInv, NEW i \in Runs, NEW k \in Runs, Begins(k),
           \/ Register(i) \/ CompletionGoesOn(i) \/ \E a \in {"ok", "error"} : WaitReturns(i, a)
           \/ AgentStarts(i) \/ AgentErrs(i) \/ AgentEnds(i) \/ ErrorTimerFires(i)
           \/ Flow(i) \/ \E q \in {"plain", "clearing"} : RetryTimerFires(i, q)
           \/ Steer(i) \/ Recover(i) \/ \E q \in Kinds : CallEnds(i, q)
           \/ SweepDeletes(i) \/ Expire(i)
    PROVE  k \in DOMAIN runs' /\ agent'[k] = agent[k]
<1> USE DEF Begins
<1>1. flow \in [Runs -> Stages] /\ Store(runs) /\ flow[k] = "none" /\ flow'[k] = "announce"
  BY DEF RegInv, Typed
<1>2. CASE CompletionGoesOn(i)
  <2>1. MayBegin(runs, i) /\ runs' = [runs EXCEPT ![i].handled = TRUE] /\ flow' = [flow EXCEPT ![i] = "announce"]
    BY <1>1, <1>2 DEF CompletionGoesOn
  <2>2. k = i /\ DOMAIN runs' = DOMAIN runs /\ i \in DOMAIN runs
    BY <1>1, <2>1 DEF MayBegin
  <2> QED
    BY <1>2, <2>2 DEF CompletionGoesOn
<1>3. CASE Close(i)
  <2> DEFINE delete == flow[i] = "closing" /\ Home[i] \in Deleting
             store  == IF delete THEN Without(runs, i)
                       ELSE [q \in DOMAIN runs |-> IF q = i THEN [runs[q] EXCEPT !.done = TRUE] ELSE runs[q]]
             others == {q \in DOMAIN store \ {i} : store[q].ended /\ MayBegin(store, q)
                                                   /\ store[q].suppress # "steer"}
             base   == [Now EXCEPT !.resumed = @ \ others, !.flow[i] = "none"]
  <2>1. Resume(store, others, base) /\ UNCHANGED agent
    BY <1>3 DEF Close
  <2>2. Store(store)
    <3>1. ASSUME NEW q \in DOMAIN store PROVE q \in Runs /\ store[q] \in Record
      <4>1. q \in DOMAIN runs /\ runs[q] \in Record /\ q \in Runs
        BY <1>1 DEF Store, Without
      <4>2. store[q] \in {runs[q], [runs[q] EXCEPT !.done = TRUE]}
        BY DEF Without
      <4> HIDE DEF store
      <4> QED
        BY <4>1, <4>2 DEF Record
    <3> HIDE DEF store
    <3> QED
      BY <3>1 DEF Store
  <2>3. base.flow = [flow EXCEPT ![i] = "none"]
    <3> HIDE DEF others
    <3> QED
      BY DEF Now
  <2> HIDE DEF store, others, base
  <2>4. base.flow \in [Runs -> Stages] /\ base.flow[k] = "none"
    BY <1>1, <2>3 DEF Stages
  <2>5. Begun(store, k)
    BY <1>1, <2>1, <2>2, <2>4, ResumeBegins
  <2> QED
    BY <2>1, <2>5 DEF Begun
<1>4. CASE \E q \in {"plain", "clearing"} : RetryTimerFires(i, q)
  <2>1. PICK q \in {"plain", "clearing"} : RetryTimerFires(i, q)
    BY <1>4
  <2>0. PICK over \in BOOLEAN :
            Retry(i, over, IF q = "clearing" THEN resumed \ {i} ELSE resumed, timers \ {<<i, q>>})
    BY <2>1 DEF RetryTimerFires
  <2> DEFINE store == Elapsed(runs, i, over)
             base  == [Now EXCEPT !.timers = timers \ {<<i, q>>},
                                  !.resumed = IF q = "clearing" THEN resumed \ {i} ELSE resumed]
  <2>2. Resume(store, {i}, base) /\ UNCHANGED agent
    BY <2>0 DEF Retry
  <2>3. Store(store)
    <3>1. ASSUME NEW p \in DOMAIN store PROVE p \in Runs /\ store[p] \in Record
      <4>1. p \in DOMAIN runs /\ runs[p] \in Record /\ p \in Runs
        BY <1>1 DEF Store, Elapsed
      <4>2. store[p] \in {runs[p], [runs[p] EXCEPT !.cool = FALSE]}
        BY <4>1 DEF Elapsed
      <4> HIDE DEF store
      <4> QED
        BY <4>1, <4>2 DEF Record
    <3> HIDE DEF store
    <3> QED
      BY <3>1 DEF Store
  <2>4. base.flow = flow
    BY DEF Now
  <2> HIDE DEF store, base
  <2>5. Begun(store, k)
    BY <1>1, <2>2, <2>3, <2>4, ResumeBegins
  <2> QED
    BY <2>2, <2>5 DEF Begun
<1>5. CASE \E q \in Kinds : CallEnds(i, q)
  <2>1. PICK q \in Kinds : CallFails(i, q) \/ \E j \in Runs : CallReturns(i, q, j)
    BY <1>5 DEF CallEnds
  <2>2. CallFails(i, q)
    BY <1>1, <2>1 DEF CallReturns
  <2> DEFINE store == [runs EXCEPT ![i].suppress = "none"]
             J     == IF runs[i].ended /\ ~runs[i].done THEN {i} ELSE {}
             base  == [Now EXCEPT !.resumed = @ \ {i}]
  <2>3. Resume(store, J, base) /\ i \in DOMAIN runs /\ UNCHANGED agent
    BY <1>1, <2>2 DEF CallFails
  <2>4. Store(store)
    <3>1. ASSUME NEW p \in DOMAIN store PROVE p \in Runs /\ store[p] \in Record
      <4>1. p \in DOMAIN runs /\ runs[p] \in Record /\ p \in Runs
        BY <1>1 DEF Store
      <4>2. store[p] \in {runs[p], [runs[p] EXCEPT !.suppress = "none"]}
        BY <4>1
      <4> HIDE DEF store
      <4> QED
        BY <4>1, <4>2 DEF Record
    <3> HIDE DEF store
    <3> QED
      BY <3>1 DEF Store
  <2>5. base.flow = flow
    BY DEF Now
  <2> HIDE DEF store, J, base
  <2>6. Begun(store, k)
    BY <1>1, <2>3, <2>4, <2>5, ResumeBegins
  <2> QED
    BY <2>3, <2>6 DEF Begun
<1>6. CASE \/ Register(i) \/ \E a \in {"ok", "error"} : WaitReturns(i, a)
           \/ AgentStarts(i) \/ AgentErrs(i) \/ AgentEnds(i) \/ ErrorTimerFires(i)
           \/ Steer(i) \/ Recover(i) \/ SweepDeletes(i) \/ Expire(i)
  <2>1. UNCHANGED flow
    BY <1>6 DEF Register, WaitReturns, AgentStarts, AgentErrs, AgentEnds, ErrorTimerFires,
       Steer, Recover, SweepDeletes, Expire
  <2> QED
    BY <1>1, <2>1
<1>7. CASE Flow(i) /\ ~Close(i)
  <2>1. \E f \in {"none", "deliver", "closing", "giveup"} : flow' = [flow EXCEPT ![i] = f]
    <3>1. CASE FlowStops(i) \/ FlowFails(i)
      BY <3>1 DEF FlowStops, FlowFails, NotAnnounced
    <3>2. CASE FlowIsIgnored(i) \/ FlowSucceeds(i)
      BY <3>2 DEF FlowIsIgnored, FlowSucceeds, Announced
    <3>3. CASE FlowGoesOn(i) \/ \E j \in Runs : FlowWakes(i, j)
      BY <3>3 DEF FlowGoesOn, FlowWakes
    <3> QED
      BY <1>7, <3>1, <3>2, <3>3 DEF Flow
  <2> QED
    BY <1>1, <2>1
<1> QED
  BY <1>2, <1>3, <1>4, <1>5, <1>6, <1>7 DEF Flow

\* An announce that begins with an outcome "error" is that of a run that has failed for good.
LEMMA BeginningIsFinal ==
    ASSUME RegInv, RegNext, NEW k \in Runs, Begins(k), runs'[k].outcome = "error"
    PROVE  agent[k] \in {"failed", "lost"}
<1>1. RegInv'
  BY NextIsFine
<1>2. flow[k] = "none" /\ flow'[k] = "announce"
  BY DEF Begins
<1>3. CASE Crash
  <2> DEFINE base == [resumed |-> {}, timers |-> {}, waits |-> {}, flow |-> [i \in Runs |-> "none"]]
  <2>1. Resume(disk, DOMAIN disk, base)
    BY <1>3 DEF Crash
  <2>2. base.flow \in [Runs -> Stages] /\ base.flow[k] = "none" /\ Store(disk)
    BY DEF Stages, RegInv, Typed
  <2> HIDE DEF base
  <2>3. Begun(disk, k)
    BY <1>2, <2>1, <2>2, ResumeBegins
  <2>4. disk[k] \in Record /\ Decent(disk[k], flow[k], announced[k], agent[k])
    BY <2>2, <2>3 DEF Begun, Store, RegInv, Fine, RecordsDecent
  <2>5. disk[k].outcome = "error"
    BY <2>3, <2>4 DEF Begun, Record
  <2> QED
    BY <2>3, <2>4, <2>5 DEF Begun, Decent
<1>4. CASE ~Crash
  <2>1. k \in DOMAIN runs' /\ agent'[k] = agent[k]
    <3>1. CASE \E s \in Sessions : Kill(s) \/ SweepEnds(s)
      BY <1>2, <3>1 DEF Kill, SweepEnds
    <3>2. CASE ~\E s \in Sessions : Kill(s) \/ SweepEnds(s)
      <4>1. PICK i \in Runs :
               \/ Register(i) \/ CompletionGoesOn(i) \/ \E a \in {"ok", "error"} : WaitReturns(i, a)
               \/ AgentStarts(i) \/ AgentErrs(i) \/ AgentEnds(i) \/ ErrorTimerFires(i)
               \/ Flow(i) \/ \E q \in {"plain", "clearing"} : RetryTimerFires(i, q)
               \/ Steer(i) \/ Recover(i) \/ \E q \in Kinds : CallEnds(i, q)
               \/ SweepDeletes(i) \/ Expire(i)
        BY <1>4, <3>2 DEF RegNext
      <4> QED
        BY <4>1, BeginningIsQuiet
    <3> QED
      BY <3>1, <3>2
  <2>2. Decent(runs'[k], flow'[k], announced'[k], agent'[k])
    BY <1>1, <2>1 DEF RegInv, Fine, RecordsDecent
  <2> QED
    BY <1>2, <2>1, <2>2 DEF Decent
<1> QED
  BY <1>3, <1>4

\* An announce that starts out to tell of a failure tells of a run that has failed for good: no
\* retry of its model is under way that may still succeed, whoever learnt of the error and
\* however late the announce begins.
THEOREM FailuresAreAnnouncedLate == RegSpec => FailuresAreFinal
<1>1. RegInv /\ [RegNext]_regVars =>
        [\A i \in Runs : Begins(i) /\ runs'[i].outcome = "error" => agent[i] \in {"failed", "lost"}]_regVars
  BY BeginningIsFinal
<1>2. RegInit => RegInv
  BY InitIsFine
<1>3. RegInv /\ [RegNext]_regVars => RegInv'
  BY NextIsFine
<1> QED
  BY <1>1, <1>2, <1>3, PTL DEF RegSpec, FailuresAreFinal

=============================================================================
