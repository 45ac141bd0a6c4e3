------------------------ MODULE DeliveryQueueProofs ------------------------
(***************************************************************************)
(* Proofs about DeliveryQueue, for any entries, passes, lives and retries. *)
(*                                                                         *)
(* AcceptedIsKept is not inductive: the second phase of an acknowledgement *)
(* removes a marker without looking at the delivery behind it.  IInv adds  *)
(* AcksAreJustified, which carries the reason from the end of the send     *)
(* over both phases and over a crash between them.  ClosedIsForgotten is   *)
(* what makes a closed entry stay closed: a crash empties workers, lists   *)
(* and loaded entries, and they are filled again from queued files only.   *)
(* That giving up is earned needs CountsAreEarned: overlapping passes      *)
(* carry counts they have read, so a count in a file or in a pass never    *)
(* exceeds the failed attempts there have been.  How often a message is    *)
(* tried is bounded by counting attempts and chances together: a start     *)
(* brings one chance, and a worker uses one up with each attempt.          *)
(***************************************************************************)
EXTENDS DeliveryQueue, FiniteSetTheorems, TLAPS

Ats == {"idle", "send", "mark", "unmark", "read", "rewrite", "expel", "list", "load", "next"}
JobSet == [at : Ats, entry : Entries \cup {NoEntry}, count : Nat]

\* The shapes the steps rely on; a worker that will rewrite an entry carries
\* the incremented count of an entry it has read.
Shape ==
    /\ file \in [Entries -> Int]
    /\ worker \in [Workers -> JobSet]
    /\ listed \in [Recoveries -> SUBSET Entries]
    /\ pending \in [Recoveries -> [Entries -> Int]]
    /\ accepted \subseteq Entries

\* Only "send" is reached without a queue id.
HasEntry ==
    \A w \in Workers :
        worker[w].at \in {"mark", "unmark", "read", "rewrite", "expel"} => worker[w].entry \in Entries

Settled(e) == e \in arrived \cup aborted \cup BestEffort

\* What is acknowledged, and what has been, needs no further attempt.
AcksAreJustified ==
    /\ \A w \in Workers : worker[w].at = "mark" => Settled(worker[w].entry)
    /\ \A e \in Entries : file[e] = Marked => Settled(e)

\* No worker and no pass holds on to an entry that was closed by a crash.
ClosedIsForgotten ==
    /\ closed \subseteq begun /\ begun \subseteq Entries
    /\ \A e \in closed : e \notin Queued
    /\ \A e \in closed, w \in Workers : worker[w].entry # e
    /\ \A e \in closed, r \in Recoveries : e \notin listed[r] /\ pending[r][e] = NoFile

IInv == Shape /\ HasEntry /\ AcksAreJustified /\ AcceptedIsKept /\ ClosedIsForgotten

LEMMA JobType ==
  ASSUME NEW at \in Ats, NEW e \in Entries \cup {NoEntry}
  PROVE  /\ Job(at, e) \in JobSet
         /\ Job(at, e).at = at /\ Job(at, e).entry = e
  BY DEF Job, JobSet

LEMMA RestType ==
  ASSUME NEW w \in Workers
  PROVE  /\ Rest(w) \in JobSet
         /\ Rest(w).at \in {"idle", "next"} /\ Rest(w).entry = NoEntry
<1>1. Idle \in JobSet /\ Idle.at = "idle" /\ Idle.entry = NoEntry
  BY DEF Idle, JobSet, Ats
<1>2. Job("next", NoEntry) \in JobSet /\ Job("next", NoEntry).at = "next" /\ Job("next", NoEntry).entry = NoEntry
  BY JobType DEF Ats
<1> QED
  BY <1>1, <1>2 DEF Rest

\* A worker that takes up a job leaves all other workers alone.
LEMMA BecomeShape ==
  ASSUME Shape, NEW w \in Workers, NEW job \in JobSet, Become(w, job)
  PROVE  /\ worker' \in [Workers -> JobSet]
         /\ worker'[w] = job
         /\ \A v \in Workers \ {w} : worker'[v] = worker[v]
  BY DEF Shape, Become

LEMMA InitIInv == Init => IInv
<1> SUFFICES ASSUME Init PROVE IInv
  OBVIOUS
<1>1. worker \in [Workers -> JobSet] /\ \A w \in Workers : worker[w].at = "idle" /\ worker[w].entry = NoEntry
  BY DEF Init, Idle, JobSet, Ats
<1>2. Shape
  BY <1>1 DEF Init, Shape, NoFile
<1>3. HasEntry /\ AcksAreJustified
  BY <1>1 DEF Init, HasEntry, AcksAreJustified, NoFile, Marked
<1>4. AcceptedIsKept /\ ClosedIsForgotten
  BY DEF Init, AcceptedIsKept, ClosedIsForgotten
<1> QED
  BY <1>2, <1>3, <1>4 DEF IInv

-----------------------------------------------------------------------------
(* What a change of one worker, and a change of the files, may do.         *)

SettledNext(e) == e \in arrived' \cup aborted' \cup BestEffort

Grows == arrived \subseteq arrived' /\ aborted \subseteq aborted' /\ failed \subseteq failed'

WorkersFine ==
    /\ worker \in [Workers -> JobSet]
    /\ HasEntry
    /\ \A w \in Workers : worker[w].at = "mark" => Settled(worker[w].entry)
    /\ \A e \in closed, w \in Workers : worker[w].entry # e

FilesFine ==
    /\ file \in [Entries -> Int]
    /\ \A e \in Entries : file[e] = Marked => Settled(e)
    /\ AcceptedIsKept
    /\ \A e \in closed : e \notin Queued

PassesFine ==
    /\ listed \in [Recoveries -> SUBSET Entries]
    /\ pending \in [Recoveries -> [Entries -> Int]]
    /\ \A e \in closed, r \in Recoveries : e \notin listed[r] /\ pending[r][e] = NoFile

HistoryFine == accepted \subseteq Entries /\ closed \subseteq begun /\ begun \subseteq Entries

LEMMA Parts == IInv <=> WorkersFine /\ FilesFine /\ PassesFine /\ HistoryFine
  BY DEF IInv, Shape, AcksAreJustified, ClosedIsForgotten, WorkersFine, FilesFine, PassesFine, HistoryFine

LEMMA PartsNext == WorkersFine' /\ FilesFine' /\ PassesFine' /\ HistoryFine' => IInv'
  BY DEF IInv, Shape, AcksAreJustified, ClosedIsForgotten, WorkersFine, FilesFine, PassesFine, HistoryFine

LEMMA NoEntryIsOpen == HistoryFine => NoEntry \notin closed /\ NoEntry \notin Entries
  BY DeliveryQueueAssumption DEF HistoryFine

\* One worker turns to a job: what matters is the job's entry.
LEMMA WorkerStep ==
  ASSUME WorkersFine, NEW w \in Workers, NEW job \in JobSet, Become(w, job),
         closed' = closed, Grows, job.entry \notin closed,
         job.at \in {"mark", "unmark", "read", "rewrite", "expel"} => job.entry \in Entries,
         job.at = "mark" => SettledNext(job.entry)
  PROVE  WorkersFine'
<1>1. /\ worker' \in [Workers -> JobSet] /\ worker'[w] = job
      /\ \A v \in Workers \ {w} : worker'[v] = worker[v]
  BY DEF WorkersFine, Become
<1>2. \A e : Settled(e) => SettledNext(e)
  BY DEF Settled, SettledNext, Grows
<1>3. HasEntry'
  BY <1>1 DEF WorkersFine, HasEntry
<1>4. \A v \in Workers : worker'[v].at = "mark" => SettledNext(worker'[v].entry)
  <2> SUFFICES ASSUME NEW v \in Workers, worker'[v].at = "mark" PROVE SettledNext(worker'[v].entry)
    OBVIOUS
  <2>1. CASE v = w
    BY <1>1, <2>1
  <2>2. CASE v # w
    BY <1>1, <1>2, <2>2 DEF WorkersFine
  <2> QED
    BY <2>1, <2>2
<1>5. \A e \in closed', v \in Workers : worker'[v].entry # e
  BY <1>1 DEF WorkersFine
<1> QED
  BY <1>1, <1>3, <1>4, <1>5 DEF WorkersFine, Settled, SettledNext

\* The ways in which the file of an entry may change.
Rewritten(e) == file'[e] >= 0 /\ e \notin closed
Acknowledged(e) == file'[e] = Marked /\ SettledNext(e)
Removed(e) == file'[e] = NoFile /\ (file[e] = Marked \/ e \in failed')

LEMMA FileStep ==
  ASSUME FilesFine, HistoryFine, file' \in [Entries -> Int], closed' = closed, Grows,
         \A e \in Entries : file'[e] = file[e] \/ Rewritten(e) \/ Acknowledged(e) \/ Removed(e),
         accepted' \subseteq Entries, \A e \in accepted' \ accepted : file'[e] >= 0
  PROVE  FilesFine'
<1>1. \A e : Settled(e) => SettledNext(e)
  BY DEF Settled, SettledNext, Grows
<1>2. \A e \in Entries : file'[e] = Marked => SettledNext(e)
  BY <1>1 DEF FilesFine, Rewritten, Acknowledged, Removed, Marked, NoFile
<1>3. \A e \in closed' : e \notin Queued'
  BY DEF FilesFine, HistoryFine, Queued, Rewritten, Acknowledged, Removed, Marked, NoFile
<1>4. AcceptedIsKept'
  <2> SUFFICES ASSUME NEW e \in accepted', e \notin BestEffort PROVE Kept(e)'
    BY DEF AcceptedIsKept, Kept, Queued
  <2>1. e \in Entries
    OBVIOUS
  <2>2. CASE e \notin accepted
    BY <2>1, <2>2 DEF Kept, Queued
  <2>3. CASE e \in accepted
    <3>1. Kept(e)
      BY <2>3 DEF FilesFine, AcceptedIsKept
    <3>2. file'[e] = file[e] \/ Rewritten(e) => Kept(e)'
      BY <2>1, <3>1 DEF Kept, Queued, Rewritten, Grows
    <3>3. Acknowledged(e) \/ Removed(e) => Kept(e)'
      BY <2>1, <1>1 DEF Kept, Acknowledged, Removed, FilesFine, Settled, SettledNext
    <3> QED
      BY <2>1, <3>2, <3>3
  <2> QED
    BY <2>2, <2>3
<1> QED
  BY <1>2, <1>3, <1>4 DEF FilesFine, Settled, SettledNext

-----------------------------------------------------------------------------
(* One lemma per action.                                                   *)

LEMMA BeginStep ==
  ASSUME IInv, NEW e \in Entries, NEW p \in BOOLEAN, Begin(e, p)
  PROVE  IInv'
<1> USE Parts
<1>1. e \in Workers /\ e \notin closed /\ closed' = closed /\ Grows
  BY DEF Begin, Workers, HistoryFine, Grows
<1>2. WorkersFine'
  <2>1. CASE p
    BY <1>1, <2>1, WorkerStep, JobType DEF Begin, Ats
  <2>2. CASE ~p
    BY <1>1, <2>2, WorkerStep, JobType, NoEntryIsOpen DEF Begin, Ats
  <2> QED
    BY <2>1, <2>2
<1>3. FilesFine'
  <2>1. CASE p
    <3>1. file' = [file EXCEPT ![e] = 0] /\ accepted' = accepted \cup {e}
      BY <2>1 DEF Begin
    <3>2. file' \in [Entries -> Int] /\ accepted' \subseteq Entries
      BY <3>1 DEF FilesFine, HistoryFine
    <3>3. \A d \in Entries : file'[d] = file[d] \/ Rewritten(d)
      BY <1>1, <3>1 DEF FilesFine, Rewritten
    <3>4. \A d \in accepted' \ accepted : file'[d] >= 0
      BY <3>1 DEF FilesFine
    <3> QED
      BY <1>1, <3>2, <3>3, <3>4, FileStep
  <2>2. CASE ~p
    BY <1>1, <2>2, FileStep DEF Begin, FilesFine, HistoryFine
  <2> QED
    BY <2>1, <2>2
<1>4. PassesFine' /\ HistoryFine'
  BY <1>1 DEF Begin, passes, PassesFine, HistoryFine
<1> QED
  BY <1>2, <1>3, <1>4, PartsNext

LEMMA SendEndsStep ==
  ASSUME IInv, NEW w \in Workers, NEW o, SendEnds(w, o)
  PROVE  IInv'
<1> USE Parts
<1> DEFINE e == worker[w].entry
<1>1. closed' = closed /\ Grows /\ worker[w].at = "send" /\ e \notin closed /\ e \in Entries \cup {NoEntry}
  BY DEF SendEnds, Grows, files, WorkersFine, JobSet
<1>2. WorkersFine'
  <2>1. CASE e = NoEntry
    <3>1. Become(w, Idle) /\ Idle \in JobSet /\ Idle.entry = NoEntry /\ Idle.at = "idle"
      BY <2>1 DEF SendEnds, Idle, JobSet, Ats
    <3> QED
      BY <1>1, <3>1, WorkerStep, NoEntryIsOpen
  <2>2. CASE e # NoEntry
    <3> DEFINE at == AfterSend(w, o.result)
    <3>1. o \in Outcomes(w, e) /\ Become(w, Job(at, e))
      BY <2>2 DEF SendEnds
    <3>2. at \in {"mark", "expel", "read"} /\ (at = "mark" => o.result \in {"ok", "abort"})
      BY DEF AfterSend
    <3>3. at = "mark" => SettledNext(e)
      <4>1. CASE o.result = "abort"
        BY <2>2, <4>1 DEF SendEnds, SettledNext
      <4>2. CASE o.result = "ok"
        <5>1. o.whole \/ e \in BestEffort
          BY <3>1, <4>2 DEF Outcomes
        <5> QED
          BY <2>2, <5>1 DEF SendEnds, SettledNext
      <4> QED
        BY <3>2, <4>1, <4>2
    <3>4. Job(at, e) \in JobSet /\ Job(at, e).at = at /\ Job(at, e).entry = e
      BY <1>1, <3>2, JobType DEF Ats
    <3> QED
      BY <1>1, <2>2, <3>1, <3>3, <3>4, WorkerStep
  <2> QED
    BY <2>1, <2>2
<1>3. FilesFine'
  BY <1>1, FileStep DEF SendEnds, files, FilesFine, HistoryFine
<1>4. PassesFine' /\ HistoryFine'
  BY DEF SendEnds, passes, PassesFine, HistoryFine
<1> QED
  BY <1>2, <1>3, <1>4, PartsNext

LEMMA MarkDeliveredStep ==
  ASSUME IInv, NEW w \in Workers, MarkDelivered(w)
  PROVE  IInv'
<1> USE Parts
<1> DEFINE e == worker[w].entry
<1>1. closed' = closed /\ Grows /\ worker[w].at = "mark" /\ e \notin closed /\ e \in Entries /\ SettledNext(e)
  BY DEF MarkDelivered, Grows, history, WorkersFine, HasEntry, Settled, SettledNext
<1>2. WorkersFine'
  BY <1>1, WorkerStep, JobType DEF MarkDelivered, Ats
<1>3. FilesFine'
  <2>1. file' \in [Entries -> Int] /\ \A d \in Entries : file'[d] = file[d] \/ Acknowledged(d)
    BY <1>1 DEF MarkDelivered, FilesFine, Acknowledged, Marked
  <2> QED
    BY <1>1, <2>1, FileStep DEF MarkDelivered, history, HistoryFine
<1>4. PassesFine' /\ HistoryFine'
  BY DEF MarkDelivered, passes, history, PassesFine, HistoryFine
<1> QED
  BY <1>2, <1>3, <1>4, PartsNext

LEMMA RemoveMarkerStep ==
  ASSUME IInv, NEW w \in Workers, RemoveMarker(w)
  PROVE  IInv'
<1> USE Parts
<1> DEFINE e == worker[w].entry
<1>1. closed' = closed /\ Grows /\ e \in Entries
  BY DEF RemoveMarker, Grows, history, WorkersFine, HasEntry
<1>2. WorkersFine'
  BY <1>1, WorkerStep, RestType, NoEntryIsOpen DEF RemoveMarker
<1>3. FilesFine'
  <2>1. file' \in [Entries -> Int] /\ \A d \in Entries : file'[d] = file[d] \/ Removed(d)
    BY <1>1 DEF RemoveMarker, FilesFine, Removed, NoFile
  <2> QED
    BY <1>1, <2>1, FileStep DEF RemoveMarker, history, HistoryFine
<1>4. PassesFine' /\ HistoryFine'
  BY DEF RemoveMarker, passes, history, PassesFine, HistoryFine
<1> QED
  BY <1>2, <1>3, <1>4, PartsNext

LEMMA ReadCountStep ==
  ASSUME IInv, NEW w \in Workers, ReadCount(w)
  PROVE  IInv'
<1> USE Parts
<1> DEFINE e == worker[w].entry
           job == [at |-> "rewrite", entry |-> e, count |-> file[e] + 1]
<1>1. closed' = closed /\ Grows /\ e \in Entries /\ e \notin closed
  BY DEF ReadCount, Grows, history, files, WorkersFine, HasEntry
<1>2. WorkersFine'
  <2>1. CASE e \in Queued
    <3>1. file[e] + 1 \in Nat
      BY <2>1 DEF Queued, FilesFine
    <3>2. job \in JobSet /\ job.at = "rewrite" /\ job.entry = e
      BY <1>1, <3>1 DEF JobSet, Ats
    <3>3. Become(w, job)
      BY <2>1 DEF ReadCount
    <3> QED
      BY <1>1, <3>2, <3>3, WorkerStep
  <2>2. CASE e \notin Queued
    BY <1>1, <2>2, WorkerStep, RestType, NoEntryIsOpen DEF ReadCount
  <2> QED
    BY <2>1, <2>2
<1>3. FilesFine'
  BY <1>1, FileStep DEF ReadCount, files, history, FilesFine, HistoryFine
<1>4. PassesFine' /\ HistoryFine'
  BY DEF ReadCount, passes, history, PassesFine, HistoryFine
<1> QED
  BY <1>2, <1>3, <1>4, PartsNext

LEMMA RewriteEntryStep ==
  ASSUME IInv, NEW w \in Workers, RewriteEntry(w)
  PROVE  IInv'
<1> USE Parts
<1> DEFINE e == worker[w].entry
<1>1. closed' = closed /\ Grows /\ e \in Entries /\ e \notin closed /\ worker[w].count \in Nat
  BY DEF RewriteEntry, Grows, history, WorkersFine, HasEntry, JobSet
<1>2. WorkersFine'
  BY <1>1, WorkerStep, RestType, NoEntryIsOpen DEF RewriteEntry
<1>3. FilesFine'
  <2>1. file' \in [Entries -> Int] /\ \A d \in Entries : file'[d] = file[d] \/ Rewritten(d)
    BY <1>1 DEF RewriteEntry, FilesFine, Rewritten
  <2> QED
    BY <1>1, <2>1, FileStep DEF RewriteEntry, history, HistoryFine
<1>4. PassesFine' /\ HistoryFine'
  BY DEF RewriteEntry, passes, history, PassesFine, HistoryFine
<1> QED
  BY <1>2, <1>3, <1>4, PartsNext

LEMMA MoveToFailedStep ==
  ASSUME IInv, NEW w \in Workers, MoveToFailed(w)
  PROVE  IInv'
<1> USE Parts
<1> DEFINE e == worker[w].entry
<1>1. closed' = closed /\ Grows /\ e \in Entries
  BY DEF MoveToFailed, Grows, history, files, WorkersFine, HasEntry
<1>2. WorkersFine'
  BY <1>1, WorkerStep, RestType, NoEntryIsOpen DEF MoveToFailed
<1>3. FilesFine'
  <2>1. file' \in [Entries -> Int] /\ \A d \in Entries : file'[d] = file[d] \/ Removed(d)
    BY <1>1 DEF MoveToFailed, files, FilesFine, Removed, NoFile
  <2> QED
    BY <1>1, <2>1, FileStep DEF MoveToFailed, history, HistoryFine
<1>4. PassesFine' /\ HistoryFine'
  BY DEF MoveToFailed, passes, history, PassesFine, HistoryFine
<1> QED
  BY <1>2, <1>3, <1>4, PartsNext

LEMMA DiskErrorStep ==
  ASSUME IInv, NEW w \in Workers, DiskError(w)
  PROVE  IInv'
<1> USE Parts
<1> DEFINE e == worker[w].entry
<1>1. closed' = closed /\ Grows /\ e \in Entries /\ e \notin closed
  BY DEF DiskError, Grows, files, WorkersFine, HasEntry
<1>2. WorkersFine'
  BY <1>1, WorkerStep, RestType, JobType, NoEntryIsOpen DEF DiskError, Ats
<1>3. FilesFine'
  BY <1>1, FileStep DEF DiskError, files, FilesFine, HistoryFine
<1>4. PassesFine' /\ HistoryFine'
  BY DEF DiskError, passes, PassesFine, HistoryFine
<1> QED
  BY <1>2, <1>3, <1>4, PartsNext

-----------------------------------------------------------------------------
(* The passes of recovery, and the starts of the gateway.                  *)

LEMMA ListQueueStep ==
  ASSUME IInv, NEW r \in Recoveries, ListQueue(r)
  PROVE  IInv'
<1> USE Parts
<1>1. r \in Workers /\ closed' = closed /\ Grows
  BY DEF ListQueue, Workers, history, files, Grows
<1>2. WorkersFine'
  BY <1>1, WorkerStep, JobType, NoEntryIsOpen DEF ListQueue, Ats
<1>3. FilesFine'
  BY <1>1, FileStep DEF ListQueue, files, history, FilesFine, HistoryFine
<1>4. PassesFine'
  BY <1>1 DEF ListQueue, PassesFine, FilesFine, Queued
<1>5. HistoryFine'
  BY DEF ListQueue, history, HistoryFine
<1> QED
  BY <1>2, <1>3, <1>4, <1>5, PartsNext

LEMMA CleanMarkerStep ==
  ASSUME IInv, NEW r \in Recoveries, NEW e \in Entries, CleanMarker(r, e)
  PROVE  IInv'
<1> USE Parts
<1>1. closed' = closed /\ Grows
  BY DEF CleanMarker, history, Grows
<1>2. WorkersFine'
  BY DEF CleanMarker, history, WorkersFine, HasEntry, Settled
<1>3. FilesFine'
  <2>1. file' \in [Entries -> Int] /\ \A d \in Entries : file'[d] = file[d] \/ Removed(d)
    BY DEF CleanMarker, FilesFine, Removed, NoFile
  <2> QED
    BY <1>1, <2>1, FileStep DEF CleanMarker, history, HistoryFine
<1>4. PassesFine' /\ HistoryFine'
  BY DEF CleanMarker, history, PassesFine, HistoryFine
<1> QED
  BY <1>2, <1>3, <1>4, PartsNext

LEMMA LoadEntryStep ==
  ASSUME IInv, NEW r \in Recoveries, NEW e \in Entries, LoadEntry(r, e)
  PROVE  IInv'
<1> USE Parts
<1>1. closed' = closed /\ Grows
  BY DEF LoadEntry, history, files, Grows
<1>2. WorkersFine'
  BY DEF LoadEntry, history, WorkersFine, HasEntry, Settled
<1>3. FilesFine'
  BY <1>1, FileStep DEF LoadEntry, files, history, FilesFine, HistoryFine
<1>4. PassesFine'
  <2>1. listed' \in [Recoveries -> SUBSET Entries] /\ pending' \in [Recoveries -> [Entries -> Int]]
    BY DEF LoadEntry, PassesFine, FilesFine
  <2>2. \A d \in closed, q \in Recoveries : d \notin listed'[q]
    BY DEF LoadEntry, PassesFine
  <2>3. \A d \in closed, q \in Recoveries : pending'[q][d] = NoFile
    <3>1. CASE e \in Queued
      <4>1. e \notin closed
        BY <3>1 DEF FilesFine
      <4> QED
        BY <3>1, <4>1 DEF LoadEntry, PassesFine, HistoryFine
    <3>2. CASE e \notin Queued
      BY <3>2 DEF LoadEntry, PassesFine
    <3> QED
      BY <3>1, <3>2
  <2> QED
    BY <1>1, <2>1, <2>2, <2>3 DEF PassesFine
<1>5. HistoryFine'
  BY DEF LoadEntry, history, HistoryFine
<1> QED
  BY <1>2, <1>3, <1>4, <1>5, PartsNext

LEMMA LoadedStep ==
  ASSUME IInv, NEW r \in Recoveries, Loaded(r)
  PROVE  IInv'
<1> USE Parts
<1>1. r \in Workers /\ closed' = closed /\ Grows
  BY DEF Loaded, Workers, history, files, Grows
<1>2. WorkersFine'
  BY <1>1, WorkerStep, JobType, NoEntryIsOpen DEF Loaded, Ats
<1>3. FilesFine'
  BY <1>1, FileStep DEF Loaded, files, history, FilesFine, HistoryFine
<1>4. PassesFine' /\ HistoryFine'
  BY DEF Loaded, passes, history, PassesFine, HistoryFine
<1> QED
  BY <1>2, <1>3, <1>4, PartsNext

LEMMA NextEntryStep ==
  ASSUME IInv, NEW r \in Recoveries, NEW elapsed \in BOOLEAN, NextEntry(r, elapsed)
  PROVE  IInv'
<1> USE Parts
<1>1. PICK e \in Unhandled(r) :
         /\ pending' = [pending EXCEPT ![r][e] = NoFile]
         /\ Become(r, Job("expel", e)) \/ Become(r, Job("send", e)) \/ UNCHANGED worker
  BY DEF NextEntry
<1>2. r \in Workers /\ closed' = closed /\ Grows /\ e \in Entries /\ e \notin closed
  BY DEF NextEntry, Workers, history, files, Grows, Unhandled, PassesFine
<1>3. WorkersFine'
  <2>1. CASE UNCHANGED worker
    BY <2>1 DEF NextEntry, history, WorkersFine, HasEntry, Settled
  <2>2. CASE Become(r, Job("expel", e)) \/ Become(r, Job("send", e))
    BY <1>2, <2>2, WorkerStep, JobType DEF Ats
  <2> QED
    BY <1>1, <2>1, <2>2
<1>4. FilesFine'
  BY <1>2, FileStep DEF NextEntry, files, history, FilesFine, HistoryFine
<1>5. PassesFine'
  <2>1. listed' = listed
    BY DEF NextEntry
  <2>2. pending' \in [Recoveries -> [Entries -> Int]] /\ \A d \in closed, q \in Recoveries : pending'[q][d] = NoFile
    BY <1>1, <1>2 DEF PassesFine, HistoryFine, NoFile
  <2> QED
    BY <1>2, <2>1, <2>2 DEF PassesFine
<1>6. HistoryFine'
  BY DEF NextEntry, history, HistoryFine
<1> QED
  BY <1>3, <1>4, <1>5, <1>6, PartsNext

LEMMA RecoveryEndsStep ==
  ASSUME IInv, NEW r \in Recoveries, RecoveryEnds(r)
  PROVE  IInv'
<1> USE Parts
<1>1. r \in Workers /\ closed' = closed /\ Grows
  BY DEF RecoveryEnds, Workers, history, files, Grows
<1>2. WorkersFine'
  <2>1. Idle \in JobSet /\ Idle.entry = NoEntry /\ Idle.at = "idle"
    BY DEF Idle, JobSet, Ats
  <2> QED
    BY <1>1, <2>1, WorkerStep, NoEntryIsOpen DEF RecoveryEnds
<1>3. FilesFine'
  BY <1>1, FileStep DEF RecoveryEnds, files, history, FilesFine, HistoryFine
<1>4. PassesFine'
  BY <1>1 DEF RecoveryEnds, PassesFine, HistoryFine, NoFile
<1>5. HistoryFine'
  BY DEF RecoveryEnds, history, HistoryFine
<1> QED
  BY <1>2, <1>3, <1>4, <1>5, PartsNext

LEMMA StartGatewayStep ==
  ASSUME IInv, NEW r \in Recoveries, StartGateway(r)
  PROVE  IInv'
<1> USE Parts
<1>1. r \in Workers /\ closed' = closed /\ Grows
  BY DEF StartGateway, Workers, history, files, Grows
<1>2. WorkersFine'
  BY <1>1, WorkerStep, JobType, NoEntryIsOpen DEF StartGateway, Ats
<1>3. FilesFine'
  BY <1>1, FileStep DEF StartGateway, files, history, FilesFine, HistoryFine
<1>4. PassesFine' /\ HistoryFine'
  BY DEF StartGateway, passes, history, PassesFine, HistoryFine
<1> QED
  BY <1>2, <1>3, <1>4, PartsNext

LEMMA CrashAndStartStep ==
  ASSUME IInv, NEW r \in Recoveries, CrashAndStart(r)
  PROVE  IInv'
<1> USE Parts
<1>1. /\ Job("list", NoEntry) \in JobSet /\ Job("list", NoEntry).at = "list" /\ Job("list", NoEntry).entry = NoEntry
      /\ Idle \in JobSet /\ Idle.at = "idle" /\ Idle.entry = NoEntry
  BY JobType DEF Idle, JobSet, Ats
<1>2. HistoryFine' /\ closed' = begun \ Queued
  BY DEF CrashAndStart, HistoryFine
<1>3. WorkersFine'
  <2>1. worker' \in [Workers -> JobSet] /\ \A w \in Workers : worker'[w].at \in {"list", "idle"} /\ worker'[w].entry = NoEntry
    BY <1>1 DEF CrashAndStart
  <2>2. NoEntry \notin closed'
    BY <1>2, DeliveryQueueAssumption DEF HistoryFine
  <2> QED
    BY <2>1, <2>2 DEF WorkersFine, HasEntry
<1>4. FilesFine'
  BY <1>2 DEF CrashAndStart, files, FilesFine, AcceptedIsKept, Kept, Settled, Queued
<1>5. PassesFine'
  BY <1>2 DEF CrashAndStart, PassesFine, HistoryFine, NoFile
<1> QED
  BY <1>2, <1>3, <1>4, <1>5, PartsNext

-----------------------------------------------------------------------------
LEMMA NextIInv == IInv /\ [Next]_vars => IInv'
<1> SUFFICES ASSUME IInv, [Next]_vars PROVE IInv'
  OBVIOUS
<1>1. CASE \E e \in Entries, p \in BOOLEAN : Begin(e, p)
  BY <1>1, BeginStep
<1>2. CASE \E w \in Workers : \E o \in [result : {"ok", "partial", "abort", "error", "permanent"}, whole : BOOLEAN] :
              SendEnds(w, o)
  BY <1>2, SendEndsStep
<1>3. CASE \E w \in Workers :
              \/ MarkDelivered(w) \/ RemoveMarker(w)
              \/ ReadCount(w) \/ RewriteEntry(w)
              \/ MoveToFailed(w) \/ DiskError(w)
  BY <1>3, MarkDeliveredStep, RemoveMarkerStep, ReadCountStep, RewriteEntryStep, MoveToFailedStep, DiskErrorStep
<1>4. CASE \E r \in Recoveries :
              \/ ListQueue(r)
              \/ \E e \in Entries : CleanMarker(r, e) \/ LoadEntry(r, e)
              \/ Loaded(r)
              \/ \E elapsed \in BOOLEAN : NextEntry(r, elapsed)
              \/ RecoveryEnds(r)
              \/ StartGateway(r) \/ CrashAndStart(r)
  BY <1>4, ListQueueStep, CleanMarkerStep, LoadEntryStep, LoadedStep, NextEntryStep, RecoveryEndsStep,
     StartGatewayStep, CrashAndStartStep
<1>5. CASE UNCHANGED vars
  BY <1>5 DEF vars, files, passes, history, IInv, Shape, HasEntry, AcksAreJustified, AcceptedIsKept,
              ClosedIsForgotten, Kept, Settled, Queued
<1> QED
  BY <1>1, <1>2, <1>3, <1>4, <1>5 DEF Next

-----------------------------------------------------------------------------
(* Attempts and counts.  GivenUpIsEarned needs the count on disk to stay   *)
(* behind the attempts although workers read and write it one by one.  A   *)
(* worker that is about to read holds one attempt that is not counted yet: *)
(* what is on disk, or about to be written there, is at most the number of *)
(* attempts without those.                                                 *)

Readers(e) == {w \in Workers : worker[w].at = "read" /\ worker[w].entry = e}

\* The attempts at an entry that some count may already include.
Countable(e) == tries[e] - Cardinality(Readers(e))

\* A live delivery deals with its own entry only.
LiveWorkersKeepToTheirEntry == \A e \in Entries : worker[e].entry \in {e, NoEntry}

Spent(e) == e \in refused \/ tries[e] >= MaxRetries

CountsAreEarned ==
    /\ failed \subseteq Entries
    /\ tries \in [Entries -> Nat]
    /\ \A e \in Entries : Countable(e) >= 0 /\ file[e] <= Countable(e)
    /\ \A w \in Workers : worker[w].at = "rewrite" => worker[w].count <= Countable(worker[w].entry)
    /\ \A r \in Recoveries, e \in Entries : pending[r][e] <= tries[e]
    /\ \A w \in Workers : worker[w].at = "expel" => Spent(worker[w].entry)

EInv == LiveWorkersKeepToTheirEntry /\ CountsAreEarned /\ GivenUpIsEarned

\* The same in the next state, for an entry that may itself be named by a primed expression.
ReadersNext(e) == {w \in Workers : worker'[w].at = "read" /\ worker'[w].entry = e}
CountableNext(e) == tries'[e] - Cardinality(ReadersNext(e))
SpentNext(e) == e \in refused' \/ tries'[e] >= MaxRetries

\* An entry is read by its live delivery and by recovery passes at most.
LEMMA ReadersFinite ==
  ASSUME LiveWorkersKeepToTheirEntry, NEW e \in Entries
  PROVE  IsFiniteSet(Readers(e)) /\ Cardinality(Readers(e)) \in Nat
<1>1. Readers(e) \subseteq Recoveries \cup {e}
  BY DeliveryQueueAssumption DEF Readers, Workers, LiveWorkersKeepToTheirEntry
<1>2. IsFiniteSet(Recoveries \cup {e})
  BY DeliveryQueueAssumption, FS_AddElement
<1> QED
  BY <1>1, <1>2, FS_Subset, FS_CardinalityType

\* The effect of one worker's step on the readers of an entry.
LEMMA ReadersStep ==
  ASSUME IInv, EInv, NEW w \in Workers, NEW job \in JobSet, Become(w, job), NEW e \in Entries
  PROVE  LET was == worker[w].at = "read" /\ worker[w].entry = e
             is  == job.at = "read" /\ job.entry = e
             n   == Cardinality(Readers(e))
         IN  /\ n \in Nat
             /\ Cardinality(ReadersNext(e)) = IF was /\ ~is THEN n - 1
                                           ELSE IF ~was /\ is THEN n + 1 ELSE n
<1> DEFINE was == worker[w].at = "read" /\ worker[w].entry = e
           is  == job.at = "read" /\ job.entry = e
<1>0. /\ worker' \in [Workers -> JobSet] /\ worker'[w] = job
      /\ \A v \in Workers \ {w} : worker'[v] = worker[v]
  BY BecomeShape DEF IInv
<1>1. IsFiniteSet(Readers(e)) /\ Cardinality(Readers(e)) \in Nat
  BY ReadersFinite DEF EInv
<1>2. w \in Readers(e) <=> was
  BY DEF Readers
<1>3. ReadersNext(e) = IF is THEN Readers(e) \cup {w} ELSE Readers(e) \ {w}
  BY <1>0 DEF Readers, ReadersNext
<1> HIDE DEF is, was
<1>4. CASE is
  BY <1>1, <1>2, <1>3, <1>4, FS_AddElement DEF is, was
<1>5. CASE ~is
  BY <1>1, <1>2, <1>3, <1>5, FS_RemoveElement DEF is, was
<1> QED
  BY <1>4, <1>5

\* A worker's step keeps the counts behind the attempts when it counts nothing that was not tried.
LEMMA EarnedStep ==
  ASSUME IInv, EInv, NEW w \in Workers, NEW job \in JobSet, Become(w, job),
         w \in Entries => job.entry \in {w, NoEntry},
         tries' \in [Entries -> Nat],
         \A e \in Entries : tries'[e] >= tries[e],
         refused \subseteq refused',
         \A e \in Entries : CountableNext(e) >= Countable(e),
         \A e \in Entries : file'[e] <= file[e] \/ file'[e] <= CountableNext(e),
         \A r \in Recoveries, e \in Entries : pending'[r][e] <= pending[r][e] \/ pending'[r][e] <= tries[e],
         job.at = "rewrite" => job.count <= CountableNext(job.entry),
         job.at = "expel" => SpentNext(job.entry),
         \A e \in failed' \ failed : e \in Entries /\ Spent(e),
         IInv'
  PROVE  EInv'
<1>0. /\ worker' \in [Workers -> JobSet] /\ worker'[w] = job
      /\ \A v \in Workers \ {w} : worker'[v] = worker[v]
      /\ file' \in [Entries -> Int] /\ pending' \in [Recoveries -> [Entries -> Int]] /\ HasEntry'
  BY BecomeShape DEF IInv, Shape
<1>1. LiveWorkersKeepToTheirEntry'
  BY <1>0 DEF EInv, LiveWorkersKeepToTheirEntry, Workers
<1>2. \A e \in Entries : Countable(e) \in Int /\ CountableNext(e) \in Int
  <2>1. \A e \in Entries : Cardinality(Readers(e)) \in Nat
    BY ReadersFinite DEF EInv
  <2>2. \A e \in Entries : Cardinality(ReadersNext(e)) \in Nat
    <3> TAKE e \in Entries
    <3> DEFINE n == Cardinality(Readers(e))
               was == worker[w].at = "read" /\ worker[w].entry = e
    <3>1. /\ n \in Nat
          /\ \/ Cardinality(ReadersNext(e)) \in {n, n + 1}
             \/ was /\ Cardinality(ReadersNext(e)) = n - 1
      BY <2>1, ReadersStep
    <3>2. was => n > 0
      <4>1. was => w \in Readers(e)
        BY DEF Readers
      <4> QED
        BY <4>1, <2>1, ReadersFinite, FS_EmptySet DEF EInv
    <3> QED
      BY <2>1, <3>1, <3>2
  <2> QED
    BY <2>1, <2>2 DEF Countable, CountableNext, EInv, CountsAreEarned
<1>3. \A e : Spent(e) /\ e \in Entries => SpentNext(e)
  BY DeliveryQueueAssumption DEF Spent, SpentNext, EInv, CountsAreEarned
<1>4. \A e \in Entries : CountableNext(e) >= 0 /\ file'[e] <= CountableNext(e)
  BY <1>0, <1>2 DEF EInv, CountsAreEarned, IInv, Shape
<1>5. ASSUME NEW v \in Workers, worker'[v].at = "rewrite" PROVE worker'[v].count <= CountableNext(worker'[v].entry)
  <2>1. worker'[v].entry \in Entries /\ worker'[v].count \in Nat
    BY <1>0, <1>5 DEF HasEntry, JobSet
  <2>2. CASE v = w
    BY <1>0, <1>5, <2>2
  <2>3. CASE v # w
    <3>1. worker'[v].count <= Countable(worker'[v].entry)
      BY <1>0, <1>5, <2>3 DEF EInv, CountsAreEarned
    <3> QED
      BY <1>2, <2>1, <3>1
  <2> QED
    BY <2>2, <2>3
<1>6. \A r \in Recoveries, e \in Entries : pending'[r][e] <= tries'[e]
  BY <1>0 DEF EInv, CountsAreEarned, IInv, Shape
<1>7. ASSUME NEW v \in Workers, worker'[v].at = "expel" PROVE SpentNext(worker'[v].entry)
  <2>1. worker'[v].entry \in Entries
    BY <1>0, <1>7 DEF HasEntry
  <2>2. CASE v = w
    BY <1>0, <1>7, <2>2
  <2>3. CASE v # w
    BY <1>0, <1>3, <1>7, <2>1, <2>3 DEF EInv, CountsAreEarned
  <2> QED
    BY <2>2, <2>3
<1>8. GivenUpIsEarned' /\ failed' \subseteq Entries
  BY <1>3 DEF EInv, CountsAreEarned, GivenUpIsEarned, Spent, SpentNext
<1> QED
  BY <1>1, <1>4, <1>5, <1>6, <1>7, <1>8
     DEF EInv, CountsAreEarned, Countable, CountableNext, Readers, ReadersNext, Spent, SpentNext
\* A worker that turns to anything but a reading holds no attempt back.
LEMMA QuietJob ==
  ASSUME IInv, EInv, NEW w \in Workers, NEW job \in JobSet, Become(w, job),
         job.at # "read", tries' = tries
  PROVE  /\ \A e \in Entries : CountableNext(e) >= Countable(e)
         /\ \A e \in Entries : worker[w].at = "read" /\ worker[w].entry = e => CountableNext(e) = Countable(e) + 1
<1>1. tries \in [Entries -> Nat]
  BY DEF EInv, CountsAreEarned
<1> SUFFICES ASSUME NEW e \in Entries
             PROVE  /\ CountableNext(e) >= Countable(e)
                    /\ worker[w].at = "read" /\ worker[w].entry = e => CountableNext(e) = Countable(e) + 1
  OBVIOUS
<1>2. /\ Cardinality(Readers(e)) \in Nat
      /\ Cardinality(ReadersNext(e)) = IF worker[w].at = "read" /\ worker[w].entry = e
                                       THEN Cardinality(Readers(e)) - 1 ELSE Cardinality(Readers(e))
  BY ReadersStep
<1> QED
  BY <1>1, <1>2 DEF Countable, CountableNext

\* A worker whose attempt has failed may hold it back.
LEMMA FailedAttempt ==
  ASSUME IInv, EInv, NEW w \in Workers, NEW job \in JobSet, Become(w, job),
         job.entry \in Entries, tries' = [tries EXCEPT ![job.entry] = @ + 1]
  PROVE  \A e \in Entries : CountableNext(e) >= Countable(e)
<1>1. tries \in [Entries -> Nat]
  BY DEF EInv, CountsAreEarned
<1> SUFFICES ASSUME NEW e \in Entries PROVE CountableNext(e) >= Countable(e)
  OBVIOUS
<1>2. /\ Cardinality(Readers(e)) \in Nat
      /\ \/ Cardinality(ReadersNext(e)) \in {Cardinality(Readers(e)) - 1, Cardinality(Readers(e))}
         \/ job.entry = e /\ Cardinality(ReadersNext(e)) = Cardinality(Readers(e)) + 1
  BY ReadersStep
<1> QED
  BY <1>1, <1>2 DEF Countable, CountableNext

-----------------------------------------------------------------------------
LEMMA BeginEarned ==
  ASSUME IInv, IInv', EInv, NEW e \in Entries, NEW p \in BOOLEAN, Begin(e, p)
  PROVE  EInv'
<1> DEFINE job == Job("send", IF p THEN e ELSE NoEntry)
<1>1. e \in Workers /\ Become(e, job) /\ tries' = tries /\ refused' = refused /\ failed' = failed /\ pending' = pending
  BY DEF Begin, Workers, passes
<1>2. job \in JobSet /\ job.at = "send" /\ job.entry \in {e, NoEntry}
  BY JobType DEF Ats
<1>3. tries \in [Entries -> Nat] /\ \A d \in Entries : Countable(d) >= 0
  BY DEF EInv, CountsAreEarned
<1> HIDE DEF job
<1>4. \A d \in Entries : CountableNext(d) >= Countable(d)
  BY <1>1, <1>2, QuietJob
<1>5. \A d \in Entries : file'[d] <= file[d] \/ file'[d] = 0
  BY DEF Begin, IInv, Shape
<1>6. \A d \in Entries : Countable(d) \in Int /\ CountableNext(d) \in Int
  BY <1>1, <1>2, <1>3, ReadersFinite, ReadersStep DEF Countable, CountableNext, EInv
<1>7. \A d \in Entries : file'[d] <= file[d] \/ file'[d] <= CountableNext(d)
  BY <1>3, <1>4, <1>5, <1>6
<1>8. \A r \in Recoveries, d \in Entries : pending'[r][d] <= pending[r][d]
  BY <1>1 DEF IInv, Shape
<1> QED
  BY <1>1, <1>2, <1>3, <1>4, <1>7, <1>8, EarnedStep

LEMMA SendEndsEarned ==
  ASSUME IInv, IInv', EInv, NEW w \in Workers, NEW o, SendEnds(w, o)
  PROVE  EInv'
<1> DEFINE e == worker[w].entry
<1>1. /\ file' = file /\ failed' = failed /\ pending' = pending /\ refused \subseteq refused'
      /\ e \in Entries \cup {NoEntry} /\ (w \in Entries => e \in {w, NoEntry})
      /\ tries \in [Entries -> Nat]
  BY DEF SendEnds, files, passes, IInv, Shape, JobSet, EInv, CountsAreEarned, LiveWorkersKeepToTheirEntry
<1>2. /\ \A d \in Entries : file'[d] <= file[d]
      /\ \A r \in Recoveries, d \in Entries : pending'[r][d] <= pending[r][d]
  BY <1>1 DEF IInv, Shape
<1>3. CASE e = NoEntry
  <2>1. Become(w, Idle) /\ tries' = tries /\ Idle \in JobSet /\ Idle.entry = NoEntry /\ Idle.at = "idle"
    BY <1>3 DEF SendEnds, Idle, JobSet, Ats
  <2>2. \A d \in Entries : CountableNext(d) >= Countable(d)
    BY <2>1, QuietJob
  <2> QED
    BY <1>1, <1>2, <2>1, <2>2, EarnedStep
<1>4. CASE e # NoEntry
  <2> DEFINE at  == AfterSend(w, o.result)
             job == Job(at, e)
  <2>1. o \in Outcomes(w, e) /\ Become(w, job)
    BY <1>4 DEF SendEnds
  <2>2. \/ at = "mark" /\ o.result \in {"ok", "abort"}
        \/ at = "expel" /\ o.result = "permanent"
        \/ at = "read" /\ o.result \in {"error", "permanent", "partial"}
    BY <2>1 DEF AfterSend, Outcomes
  <2>3. job \in JobSet /\ job.at = at /\ job.entry = e /\ e \in Entries
    BY <1>1, <1>4, <2>2, JobType DEF Ats
  <2>4. job.at = "expel" => SpentNext(job.entry)
    BY <1>4, <2>2, <2>3 DEF SendEnds, SpentNext
  <2>5. IF at = "mark" THEN tries' = tries ELSE tries' = [tries EXCEPT ![e] = @ + 1]
    BY <1>4, <2>2 DEF SendEnds
  <2> HIDE DEF at, job
  <2>6. tries' \in [Entries -> Nat] /\ \A d \in Entries : tries'[d] >= tries[d]
    BY <1>1, <2>3, <2>5
  <2>7. \A d \in Entries : CountableNext(d) >= Countable(d)
    BY <2>1, <2>3, <2>5, QuietJob, FailedAttempt
  <2>8. job.at # "rewrite"
    BY <2>2, <2>3
  <2> QED
    BY <1>1, <1>2, <2>1, <2>3, <2>4, <2>6, <2>7, <2>8, EarnedStep
<1> QED
  BY <1>3, <1>4
\* A step without an attempt, to a job that counts nothing.
LEMMA QuietStep ==
  ASSUME IInv, IInv', EInv, NEW w \in Workers, NEW job \in JobSet, Become(w, job),
         job.at \notin {"read", "rewrite"},
         w \in Entries => job.entry \in {w, NoEntry},
         job.at = "expel" => Spent(job.entry),
         tries' = tries, refused' = refused,
         \A e \in Entries : file'[e] <= file[e] \/ file'[e] <= Countable(e),
         \A r \in Recoveries, e \in Entries : pending'[r][e] <= pending[r][e] \/ pending'[r][e] <= tries[e],
         \A e \in failed' \ failed : e \in Entries /\ Spent(e)
  PROVE  EInv'
<1>1. tries \in [Entries -> Nat] /\ file \in [Entries -> Int] /\ file' \in [Entries -> Int]
  BY DEF EInv, CountsAreEarned, IInv, Shape
<1>2. \A e \in Entries : CountableNext(e) >= Countable(e)
  BY QuietJob
<1>3. \A e \in Entries : Countable(e) \in Int /\ CountableNext(e) \in Int
  BY <1>1, ReadersFinite, ReadersStep DEF Countable, CountableNext, EInv
<1>4. \A e \in Entries : file'[e] <= file[e] \/ file'[e] <= CountableNext(e)
  BY <1>1, <1>2, <1>3
<1>5. job.at = "expel" => SpentNext(job.entry)
  BY DEF Spent, SpentNext
<1> QED
  BY <1>1, <1>2, <1>4, <1>5, EarnedStep

LEMMA MarkDeliveredEarned ==
  ASSUME IInv, IInv', EInv, NEW w \in Workers, MarkDelivered(w)
  PROVE  EInv'
<1> DEFINE job == Job("unmark", worker[w].entry)
<1>1. /\ worker[w].entry \in Entries /\ (w \in Entries => worker[w].entry \in {w, NoEntry})
      /\ Become(w, job) /\ tries' = tries /\ refused' = refused /\ failed' = failed /\ pending' = pending
  BY DEF MarkDelivered, passes, history, IInv, HasEntry, EInv, LiveWorkersKeepToTheirEntry
<1>2. job \in JobSet /\ job.at = "unmark" /\ job.entry = worker[w].entry
  BY <1>1, JobType DEF Ats
<1>3. \A e \in Entries : file'[e] <= file[e]
  BY DEF MarkDelivered, IInv, Shape, Queued, Marked
<1>4. \A r \in Recoveries, e \in Entries : pending'[r][e] <= pending[r][e]
  BY <1>1 DEF IInv, Shape
<1> HIDE DEF job
<1> QED
  BY <1>1, <1>2, <1>3, <1>4, QuietStep

LEMMA RemoveMarkerEarned ==
  ASSUME IInv, IInv', EInv, NEW w \in Workers, RemoveMarker(w)
  PROVE  EInv'
<1>1. /\ Become(w, Rest(w)) /\ tries' = tries /\ refused' = refused /\ failed' = failed /\ pending' = pending
  BY DEF RemoveMarker, passes, history
<1>2. \A e \in Entries : file'[e] <= file[e]
  BY DEF RemoveMarker, IInv, Shape, NoFile, Marked
<1>3. \A r \in Recoveries, e \in Entries : pending'[r][e] <= pending[r][e]
  BY <1>1 DEF IInv, Shape
<1> QED
  BY <1>1, <1>2, <1>3, RestType, QuietStep

\* The count that is read and incremented accounts for the reader's own attempt.
LEMMA ReadCountEarned ==
  ASSUME IInv, IInv', EInv, NEW w \in Workers, ReadCount(w)
  PROVE  EInv'
<1> DEFINE e   == worker[w].entry
           job == [at |-> "rewrite", entry |-> e, count |-> file[e] + 1]
<1>1. /\ worker[w].at = "read" /\ e \in Entries /\ (w \in Entries => e \in {w, NoEntry})
      /\ tries' = tries /\ refused' = refused /\ failed' = failed /\ pending' = pending /\ file' = file
  BY DEF ReadCount, files, passes, history, IInv, HasEntry, EInv, LiveWorkersKeepToTheirEntry
<1>2. /\ \A d \in Entries : file'[d] <= file[d]
      /\ \A r \in Recoveries, d \in Entries : pending'[r][d] <= pending[r][d]
  BY <1>1 DEF IInv, Shape
<1>3. CASE e \in Queued
  <2>1. Become(w, job)
    BY <1>3 DEF ReadCount
  <2>2. file[e] \in Nat
    BY <1>1, <1>3 DEF Queued, IInv, Shape
  <2>3. job \in JobSet
    BY <1>1, <2>2 DEF JobSet, Ats
  <2>4. job.at = "rewrite" /\ job.entry = e /\ job.count = file[e] + 1
    OBVIOUS
  <2>5. file[e] <= Countable(e) /\ tries \in [Entries -> Nat] /\ Cardinality(Readers(e)) \in Nat
    BY <1>1, ReadersFinite DEF EInv, CountsAreEarned
  <2> HIDE DEF job
  <2>6. CountableNext(e) = Countable(e) + 1 /\ \A d \in Entries : CountableNext(d) >= Countable(d)
    BY <1>1, <2>1, <2>3, <2>4, QuietJob
  <2>7. job.count <= CountableNext(job.entry)
    BY <1>1, <2>2, <2>4, <2>5, <2>6 DEF Countable
  <2> HIDE DEF e
  <2> QED
    BY <1>1, <1>2, <2>1, <2>3, <2>4, <2>5, <2>6, <2>7, EarnedStep
<1>4. CASE e \notin Queued
  <2>1. Become(w, Rest(w))
    BY <1>4 DEF ReadCount
  <2> QED
    BY <1>1, <1>2, <2>1, RestType, QuietStep
<1> QED
  BY <1>3, <1>4

LEMMA RewriteEntryEarned ==
  ASSUME IInv, IInv', EInv, NEW w \in Workers, RewriteEntry(w)
  PROVE  EInv'
<1>1. /\ worker[w].at = "rewrite" /\ worker[w].entry \in Entries
      /\ Become(w, Rest(w)) /\ tries' = tries /\ refused' = refused /\ failed' = failed /\ pending' = pending
  BY DEF RewriteEntry, passes, history, IInv, HasEntry
<1>2. worker[w].count <= Countable(worker[w].entry)
  BY <1>1 DEF EInv, CountsAreEarned
<1>3. \A e \in Entries : file'[e] <= file[e] \/ file'[e] <= Countable(e)
  BY <1>1, <1>2 DEF RewriteEntry, IInv, Shape
<1>4. \A r \in Recoveries, e \in Entries : pending'[r][e] <= pending[r][e]
  BY <1>1 DEF IInv, Shape
<1> QED
  BY <1>1, <1>3, <1>4, RestType, QuietStep

LEMMA MoveToFailedEarned ==
  ASSUME IInv, IInv', EInv, NEW w \in Workers, MoveToFailed(w)
  PROVE  EInv'
<1>1. /\ worker[w].at = "expel" /\ worker[w].entry \in Entries
      /\ Become(w, Rest(w)) /\ tries' = tries /\ refused' = refused /\ pending' = pending
  BY DEF MoveToFailed, passes, history, IInv, HasEntry
<1>2. Spent(worker[w].entry)
  BY <1>1 DEF EInv, CountsAreEarned
<1>3. \A e \in failed' \ failed : e \in Entries /\ Spent(e)
  BY <1>1, <1>2 DEF MoveToFailed, files
<1>4. \A e \in Entries : file'[e] <= file[e]
  <2>1. file \in [Entries -> Int]
    BY DEF IInv, Shape
  <2>2. CASE worker[w].entry \in Queued
    <3>1. file' = [file EXCEPT ![worker[w].entry] = NoFile] /\ file[worker[w].entry] >= 0
      BY <2>2 DEF MoveToFailed, Queued
    <3> QED
      BY <2>1, <3>1 DEF NoFile
  <2>3. CASE worker[w].entry \notin Queued
    BY <2>1, <2>3 DEF MoveToFailed, files
  <2> QED
    BY <2>2, <2>3
<1>5. \A r \in Recoveries, e \in Entries : pending'[r][e] <= pending[r][e]
  BY <1>1 DEF IInv, Shape
<1> QED
  BY <1>1, <1>3, <1>4, <1>5, RestType, QuietStep

LEMMA DiskErrorEarned ==
  ASSUME IInv, IInv', EInv, NEW w \in Workers, DiskError(w)
  PROVE  EInv'
<1> DEFINE e == worker[w].entry
<1>1. /\ e \in Entries /\ (w \in Entries => e \in {w, NoEntry}) /\ tries \in [Entries -> Nat]
      /\ refused' = refused /\ failed' = failed /\ pending' = pending /\ file' = file
  BY DEF DiskError, files, passes, IInv, HasEntry, EInv, CountsAreEarned, LiveWorkersKeepToTheirEntry
<1>2. /\ \A d \in Entries : file'[d] <= file[d]
      /\ \A r \in Recoveries, d \in Entries : pending'[r][d] <= pending[r][d]
  BY <1>1 DEF IInv, Shape
<1>3. CASE worker[w].at = "mark" /\ w \in Recoveries
  <2> DEFINE job == Job("read", e)
  <2>1. Become(w, job) /\ tries' = [tries EXCEPT ![e] = @ + 1]
    BY <1>3 DEF DiskError
  <2>2. job \in JobSet /\ job.at = "read" /\ job.entry = e
    BY <1>1, JobType DEF Ats
  <2> HIDE DEF job
  <2>3. \A d \in Entries : CountableNext(d) >= Countable(d)
    BY <1>1, <2>1, <2>2, FailedAttempt
  <2>4. tries' \in [Entries -> Nat] /\ \A d \in Entries : tries'[d] >= tries[d]
    BY <1>1, <2>1
  <2> HIDE DEF e
  <2> QED
    BY <1>1, <1>2, <2>1, <2>2, <2>3, <2>4, EarnedStep
<1>4. CASE ~(worker[w].at = "mark" /\ w \in Recoveries)
  <2>1. Become(w, Rest(w)) /\ tries' = tries
    BY <1>4 DEF DiskError
  <2> QED
    BY <1>1, <1>2, <2>1, RestType, QuietStep
<1> QED
  BY <1>3, <1>4
-----------------------------------------------------------------------------
LEMMA ListQueueEarned ==
  ASSUME IInv, IInv', EInv, NEW r \in Recoveries, ListQueue(r)
  PROVE  EInv'
<1> DEFINE job == Job("load", NoEntry)
<1>1. /\ r \in Workers /\ Become(r, job) /\ tries' = tries /\ refused' = refused
      /\ failed' = failed /\ pending' = pending /\ file' = file
  BY DEF ListQueue, files, history, Workers
<1>2. job \in JobSet /\ job.at = "load" /\ job.entry = NoEntry
  BY JobType DEF Ats
<1>3. /\ \A e \in Entries : file'[e] <= file[e]
      /\ \A q \in Recoveries, e \in Entries : pending'[q][e] <= pending[q][e]
  BY <1>1 DEF IInv, Shape
<1> HIDE DEF job
<1> QED
  BY <1>1, <1>2, <1>3, QuietStep

LEMMA LoadedEarned ==
  ASSUME IInv, IInv', EInv, NEW r \in Recoveries, Loaded(r)
  PROVE  EInv'
<1> DEFINE job == Job("next", NoEntry)
<1>1. /\ r \in Workers /\ Become(r, job) /\ tries' = tries /\ refused' = refused
      /\ failed' = failed /\ pending' = pending /\ file' = file
  BY DEF Loaded, files, passes, history, Workers
<1>2. job \in JobSet /\ job.at = "next" /\ job.entry = NoEntry
  BY JobType DEF Ats
<1>3. /\ \A e \in Entries : file'[e] <= file[e]
      /\ \A q \in Recoveries, e \in Entries : pending'[q][e] <= pending[q][e]
  BY <1>1 DEF IInv, Shape
<1> HIDE DEF job
<1> QED
  BY <1>1, <1>2, <1>3, QuietStep

\* A worker that stays as it is takes up its own job again.
LEMMA WorkerStays ==
  ASSUME IInv, NEW w \in Workers, worker' = worker
  PROVE  worker[w] \in JobSet /\ Become(w, worker[w])
  BY DEF IInv, Shape, Become

LEMMA CleanMarkerEarned ==
  ASSUME IInv, IInv', EInv, NEW r \in Recoveries, NEW e \in Entries, CleanMarker(r, e)
  PROVE  EInv'
<1>1. /\ r \in Workers /\ r \notin Entries /\ worker' = worker /\ worker[r].at = "load"
      /\ tries' = tries /\ refused' = refused /\ failed' = failed /\ pending' = pending
  BY DeliveryQueueAssumption DEF CleanMarker, history, Workers
<1>2. worker[r] \in JobSet /\ Become(r, worker[r])
  BY <1>1, WorkerStays
<1>3. /\ \A d \in Entries : file'[d] <= file[d]
      /\ \A q \in Recoveries, d \in Entries : pending'[q][d] <= pending[q][d]
  BY <1>1 DEF CleanMarker, IInv, Shape, NoFile, Marked
<1> QED
  BY <1>1, <1>2, <1>3, QuietStep

LEMMA LoadEntryEarned ==
  ASSUME IInv, IInv', EInv, NEW r \in Recoveries, NEW e \in Entries, LoadEntry(r, e)
  PROVE  EInv'
<1>1. /\ r \in Workers /\ r \notin Entries /\ worker' = worker /\ worker[r].at = "load"
      /\ tries' = tries /\ refused' = refused /\ failed' = failed /\ file' = file
  BY DeliveryQueueAssumption DEF LoadEntry, files, history, Workers
<1>2. worker[r] \in JobSet /\ Become(r, worker[r])
  BY <1>1, WorkerStays
<1>3. file[e] <= tries[e] /\ file[e] \in Int
  <2>1. file[e] <= Countable(e) /\ tries[e] \in Nat /\ Cardinality(Readers(e)) \in Nat /\ file[e] \in Int
    BY ReadersFinite DEF EInv, CountsAreEarned, IInv, Shape
  <2> QED
    BY <2>1 DEF Countable
<1>4. \A q \in Recoveries, d \in Entries : pending'[q][d] <= pending[q][d] \/ pending'[q][d] <= tries[d]
  <2>1. pending \in [Recoveries -> [Entries -> Int]]
    BY DEF IInv, Shape
  <2>2. pending' = [pending EXCEPT ![r][e] = file[e]] \/ pending' = pending
    BY DEF LoadEntry
  <2> QED
    BY <1>3, <2>1, <2>2
<1>5. \A d \in Entries : file'[d] <= file[d]
  BY <1>1 DEF IInv, Shape
<1> QED
  BY <1>1, <1>2, <1>4, <1>5, QuietStep

LEMMA NextEntryEarned ==
  ASSUME IInv, IInv', EInv, NEW r \in Recoveries, NEW elapsed \in BOOLEAN, NextEntry(r, elapsed)
  PROVE  EInv'
<1>1. PICK e \in Unhandled(r) :
         /\ pending' = [pending EXCEPT ![r][e] = NoFile]
         /\ \/ pending[r][e] >= MaxRetries /\ Become(r, Job("expel", e))
            \/ Become(r, Job("send", e))
            \/ UNCHANGED worker
  BY DEF NextEntry
<1>2. /\ r \in Workers /\ r \notin Entries /\ worker[r].at = "next" /\ e \in Entries /\ pending[r][e] # NoFile
      /\ tries' = tries /\ refused' = refused /\ failed' = failed /\ file' = file
      /\ pending \in [Recoveries -> [Entries -> Int]] /\ tries \in [Entries -> Nat]
  BY DeliveryQueueAssumption DEF NextEntry, Workers, Unhandled, files, history, IInv, Shape, EInv, CountsAreEarned
<1>3. \A d \in Entries : file'[d] <= file[d]
  BY <1>2 DEF IInv, Shape
<1>4. \A q \in Recoveries, d \in Entries : pending'[q][d] <= pending[q][d] \/ pending'[q][d] <= tries[d]
  BY <1>1, <1>2 DEF NoFile
<1>5. CASE pending[r][e] >= MaxRetries /\ Become(r, Job("expel", e))
  <2>1. pending[r][e] <= tries[e]
    BY <1>2 DEF EInv, CountsAreEarned
  <2>2. Spent(e)
    BY <1>2, <1>5, <2>1, DeliveryQueueAssumption DEF Spent
  <2>3. Job("expel", e) \in JobSet /\ Job("expel", e).at = "expel" /\ Job("expel", e).entry = e
    BY <1>2, JobType DEF Ats
  <2> QED
    BY <1>2, <1>3, <1>4, <1>5, <2>2, <2>3, QuietStep
<1>6. CASE Become(r, Job("send", e))
  <2>1. Job("send", e) \in JobSet /\ Job("send", e).at = "send"
    BY <1>2, JobType DEF Ats
  <2> QED
    BY <1>2, <1>3, <1>4, <1>6, <2>1, QuietStep
<1>7. CASE UNCHANGED worker
  BY <1>2, <1>3, <1>4, <1>7, WorkerStays, QuietStep
<1> QED
  BY <1>1, <1>5, <1>6, <1>7

LEMMA RecoveryEndsEarned ==
  ASSUME IInv, IInv', EInv, NEW r \in Recoveries, RecoveryEnds(r)
  PROVE  EInv'
<1>1. /\ r \in Workers /\ r \notin Entries /\ Become(r, Idle) /\ Idle \in JobSet /\ Idle.at = "idle"
      /\ tries' = tries /\ refused' = refused /\ failed' = failed /\ file' = file
      /\ pending \in [Recoveries -> [Entries -> Int]] /\ tries \in [Entries -> Nat]
  BY DeliveryQueueAssumption
     DEF RecoveryEnds, Workers, files, history, Idle, JobSet, Ats, IInv, Shape, EInv, CountsAreEarned
<1>2. \A e \in Entries : file'[e] <= file[e]
  BY <1>1 DEF IInv, Shape
<1>3. \A q \in Recoveries, e \in Entries : pending'[q][e] <= pending[q][e] \/ pending'[q][e] <= tries[e]
  BY <1>1 DEF RecoveryEnds, NoFile
<1> QED
  BY <1>1, <1>2, <1>3, QuietStep

LEMMA StartGatewayEarned ==
  ASSUME IInv, IInv', EInv, NEW r \in Recoveries, StartGateway(r)
  PROVE  EInv'
<1> DEFINE job == Job("list", NoEntry)
<1>1. /\ r \in Workers /\ Become(r, job) /\ tries' = tries /\ refused' = refused
      /\ failed' = failed /\ pending' = pending /\ file' = file
  BY DEF StartGateway, files, passes, history, Workers
<1>2. job \in JobSet /\ job.at = "list" /\ job.entry = NoEntry
  BY JobType DEF Ats
<1>3. /\ \A e \in Entries : file'[e] <= file[e]
      /\ \A q \in Recoveries, e \in Entries : pending'[q][e] <= pending[q][e]
  BY <1>1 DEF IInv, Shape
<1> HIDE DEF job
<1> QED
  BY <1>1, <1>2, <1>3, QuietStep

\* A crash forgets the attempts held back, and with them the counts that were loaded.
LEMMA CrashAndStartEarned ==
  ASSUME IInv, IInv', EInv, NEW r \in Recoveries, CrashAndStart(r)
  PROVE  EInv'
<1>1. /\ file' = file /\ failed' = failed /\ tries' = tries /\ refused' = refused
      /\ \A w \in Workers : worker'[w] = Job("list", NoEntry) \/ worker'[w] = Idle
      /\ \A q \in Recoveries, e \in Entries : pending'[q][e] = NoFile
      /\ tries \in [Entries -> Nat] /\ file \in [Entries -> Int]
  BY DEF CrashAndStart, files, IInv, Shape, EInv, CountsAreEarned
<1>2. \A w \in Workers : worker'[w].at \in {"list", "idle"} /\ worker'[w].entry = NoEntry
  BY <1>1, JobType DEF Idle, Ats
<1>3. \A e \in Entries : CountableNext(e) = tries[e] /\ Countable(e) <= tries[e] /\ Countable(e) \in Int
  <2> TAKE e \in Entries
  <2>1. ReadersNext(e) = {}
    BY <1>2 DEF ReadersNext
  <2>2. Cardinality(ReadersNext(e)) = 0 /\ Cardinality(Readers(e)) \in Nat
    BY <2>1, FS_EmptySet, ReadersFinite DEF EInv
  <2> QED
    BY <1>1, <2>2 DEF Countable, CountableNext
<1>4. \A e \in Entries : CountableNext(e) >= 0 /\ file'[e] <= CountableNext(e)
  BY <1>1, <1>3 DEF EInv, CountsAreEarned
<1>5. LiveWorkersKeepToTheirEntry'
  BY <1>2 DEF LiveWorkersKeepToTheirEntry, Workers
<1>6. CountsAreEarned'
  BY <1>1, <1>2, <1>4 DEF EInv, CountsAreEarned, Countable, CountableNext, Readers, ReadersNext, NoFile
<1> QED
  BY <1>1, <1>5, <1>6 DEF EInv, GivenUpIsEarned

LEMMA NextEarned == IInv /\ IInv' /\ EInv /\ [Next]_vars => EInv'
<1> SUFFICES ASSUME IInv, IInv', EInv, [Next]_vars PROVE EInv'
  OBVIOUS
<1>1. CASE \E e \in Entries, p \in BOOLEAN : Begin(e, p)
  BY <1>1, BeginEarned
<1>2. CASE \E w \in Workers : \E o \in [result : {"ok", "partial", "abort", "error", "permanent"}, whole : BOOLEAN] :
              SendEnds(w, o)
  BY <1>2, SendEndsEarned
<1>3. CASE \E w \in Workers :
              \/ MarkDelivered(w) \/ RemoveMarker(w)
              \/ ReadCount(w) \/ RewriteEntry(w)
              \/ MoveToFailed(w) \/ DiskError(w)
  BY <1>3, MarkDeliveredEarned, RemoveMarkerEarned, ReadCountEarned, RewriteEntryEarned, MoveToFailedEarned,
     DiskErrorEarned
<1>4. CASE \E r \in Recoveries :
              \/ ListQueue(r)
              \/ \E e \in Entries : CleanMarker(r, e) \/ LoadEntry(r, e)
              \/ Loaded(r)
              \/ \E elapsed \in BOOLEAN : NextEntry(r, elapsed)
              \/ RecoveryEnds(r)
              \/ StartGateway(r) \/ CrashAndStart(r)
  BY <1>4, ListQueueEarned, CleanMarkerEarned, LoadEntryEarned, LoadedEarned, NextEntryEarned, RecoveryEndsEarned,
     StartGatewayEarned, CrashAndStartEarned
<1>5. CASE UNCHANGED vars
  BY <1>5 DEF vars, files, passes, history, EInv, LiveWorkersKeepToTheirEntry, CountsAreEarned, Countable, Readers,
              Spent, GivenUpIsEarned
<1> QED
  BY <1>1, <1>2, <1>3, <1>4, <1>5 DEF Next

LEMMA InitEarned == Init => EInv
<1> SUFFICES ASSUME Init PROVE EInv
  OBVIOUS
<1>1. \A w \in Workers : worker[w].at = "idle" /\ worker[w].entry = NoEntry
  BY DEF Init, Idle
<1>2. \A e \in Entries : Countable(e) = 0
  <2> TAKE e \in Entries
  <2>1. Readers(e) = {}
    BY <1>1 DEF Readers
  <2>2. Cardinality(Readers(e)) = 0
    BY <2>1, FS_EmptySet
  <2> QED
    BY <2>2 DEF Init, Countable
<1> QED
  BY <1>1, <1>2 DEF Init, EInv, LiveWorkersKeepToTheirEntry, CountsAreEarned, GivenUpIsEarned, NoFile, Workers

-----------------------------------------------------------------------------
(* How often a message is tried, and the types.                            *)

\* Who may yet fail at entry e: its own delivery until its send is over, and a pass that has
\* not dealt with it.
MayTry(w, e) ==
    \/ w = e /\ e \notin begun
    \/ worker[w].at \in {"send", "mark"} /\ worker[w].entry = e
    \/ /\ w \in Recoveries
       /\ worker[w].at = "list" \/ e \in listed[w] \/ pending[w][e] # NoFile

Chances(e) == {w \in {e} \cup Recoveries : MayTry(w, e)}

\* One attempt for the delivery and one for every start: those made and those still to come.
AttemptsFit == \A e \in Entries : tries[e] + Cardinality(Chances(e)) <= lives + 1

AttemptsAreFew == \A e \in Entries : tries[e] <= lives + 1

\* Only what was begun is anywhere.
Known ==
    /\ failed \cup accepted \cup arrived \cup aborted \cup refused \cup closed \cup sentOnce \subseteq begun
    /\ begun \subseteq Entries
    /\ \A e \in Entries : file[e] # NoFile => e \in begun
    /\ \A w \in Workers : worker[w].entry \in begun \cup {NoEntry}
    /\ \A r \in Recoveries : /\ listed[r] \subseteq begun /\ markers[r] \subseteq begun
                             /\ \A e \in Entries : pending[r][e] # NoFile => e \in begun

\* Counts are counts, and only a worker about to rewrite an entry carries one.
Ranges ==
    /\ file \in [Entries -> {NoFile, Marked} \cup Nat]
    /\ pending \in [Recoveries -> [Entries -> {NoFile} \cup Nat]]
    /\ markers \in [Recoveries -> SUBSET Entries]
    /\ \A w \in Workers : worker[w].at # "rewrite" => worker[w].count = 0
    /\ lives \in 0..MaxLives

\* A pass takes off its lists what it takes in hand.
TakenOff == \A r \in Recoveries :
    /\ worker[r].at # "load" => listed[r] = {}
    /\ worker[r].at = "load" => worker[r].entry = NoEntry
    /\ worker[r].entry # NoEntry => pending[r][worker[r].entry] = NoFile

TInv == Known /\ Ranges /\ TakenOff /\ AttemptsFit

LEMMA IdleJob == Idle \in JobSet /\ Idle.at = "idle" /\ Idle.entry = NoEntry /\ Idle.count = 0
  BY DEF Idle, JobSet, Ats

LEMMA RestIs ==
  ASSUME NEW w \in Workers
  PROVE  /\ Rest(w) \in JobSet /\ Rest(w).count = 0
         /\ Rest(w).at \in {"idle", "next"} /\ Rest(w).entry = NoEntry
<1>1. Rest(w).count = 0
  BY DEF Rest, Idle, Job
<1> QED
  BY <1>1, RestType

LEMMA InitTInv == Init => TInv
<1> SUFFICES ASSUME Init PROVE TInv
  OBVIOUS
<1>1. worker = [w \in Workers |-> Idle]
  BY DEF Init
<1>2. \A w \in Workers : worker[w].at = "idle" /\ worker[w].entry = NoEntry /\ worker[w].count = 0
  BY <1>1, IdleJob
<1>3. Known
  BY <1>2 DEF Init, Known
<1>4. Ranges
  BY <1>2, DeliveryQueueAssumption DEF Init, Ranges
<1>5. TakenOff
  BY <1>2 DEF Init, TakenOff, Workers
<1>6. AttemptsFit
  <2> SUFFICES ASSUME NEW e \in Entries PROVE tries[e] + Cardinality(Chances(e)) <= lives + 1
    BY DEF AttemptsFit
  <2>1. Chances(e) = {e}
    BY <1>2, DeliveryQueueAssumption DEF Init, Chances, MayTry, Workers
  <2>2. Cardinality(Chances(e)) = 1
    BY <2>1, FS_Singleton
  <2> QED
    BY <2>2 DEF Init
<1> QED
  BY <1>3, <1>4, <1>5, <1>6 DEF TInv

LEMMA ChancesFinite ==
  ASSUME NEW e \in Entries
  PROVE  /\ IsFiniteSet(Chances(e)) /\ Cardinality(Chances(e)) \in Nat
         /\ IsFiniteSet(Chances(e)') /\ Cardinality(Chances(e)') \in Nat
<1>1. IsFiniteSet(Recoveries \cup {e})
  BY DeliveryQueueAssumption, FS_AddElement
<1>2. Chances(e) \subseteq Recoveries \cup {e} /\ Chances(e)' \subseteq Recoveries \cup {e}
  BY DEF Chances
<1>3. IsFiniteSet(Chances(e)) /\ IsFiniteSet(Chances(e)')
  BY <1>1, <1>2, FS_Subset
<1> QED
  BY <1>3, FS_CardinalityType

\* Attempts go on fitting when nobody gets a chance, and whoever fails has used up his.
LEMMA FewerChances ==
  ASSUME AttemptsFit, EInv, TInv, lives' = lives,
         \A e \in Entries : Chances(e)' \subseteq Chances(e),
         \A e \in Entries : \/ tries'[e] = tries[e]
                            \/ tries'[e] = tries[e] + 1 /\ Chances(e)' # Chances(e)
  PROVE  AttemptsFit'
<1> SUFFICES ASSUME NEW e \in Entries PROVE tries'[e] + Cardinality(Chances(e)') <= lives' + 1
  BY DEF AttemptsFit
<1>1. tries[e] \in Nat /\ lives \in Nat /\ tries[e] + Cardinality(Chances(e)) <= lives + 1
  BY DeliveryQueueAssumption DEF EInv, CountsAreEarned, AttemptsFit, TInv, Ranges
<1>2. Cardinality(Chances(e)) \in Nat /\ Cardinality(Chances(e)') \in Nat
  BY ChancesFinite
<1>3. /\ Cardinality(Chances(e)') <= Cardinality(Chances(e))
      /\ Chances(e)' # Chances(e) => Cardinality(Chances(e)') < Cardinality(Chances(e))
  BY ChancesFinite, FS_Subset
<1> QED
  BY <1>1, <1>2, <1>3

\* One more pass is one more chance.
LEMMA OneMoreChance ==
  ASSUME AttemptsFit, EInv, TInv, NEW r \in Recoveries, lives' = lives + 1, tries' = tries,
         \A e \in Entries : Chances(e)' \subseteq Chances(e) \cup {r}
  PROVE  AttemptsFit'
<1> SUFFICES ASSUME NEW e \in Entries PROVE tries'[e] + Cardinality(Chances(e)') <= lives' + 1
  BY DEF AttemptsFit
<1>1. tries[e] \in Nat /\ lives \in Nat /\ tries[e] + Cardinality(Chances(e)) <= lives + 1
  BY DeliveryQueueAssumption DEF EInv, CountsAreEarned, AttemptsFit, TInv, Ranges
<1>2. Cardinality(Chances(e)) \in Nat /\ Cardinality(Chances(e)') \in Nat
  BY ChancesFinite
<1>3. /\ IsFiniteSet(Chances(e) \cup {r})
      /\ Cardinality(Chances(e) \cup {r}) \in {Cardinality(Chances(e)), Cardinality(Chances(e)) + 1}
  BY ChancesFinite, FS_AddElement
<1>4. Cardinality(Chances(e)') <= Cardinality(Chances(e) \cup {r})
  BY <1>3, FS_Subset
<1> QED
  BY <1>1, <1>2, <1>3, <1>4

\* A worker turns to a job with its entry, or with none, and passes are left alone.
LEMMA WorkerTypes ==
  ASSUME IInv, EInv, TInv, NEW w \in Workers, NEW job \in JobSet, Become(w, job),
         UNCHANGED <<passes, lives, begun, closed, sentOnce>>,
         job.entry \in {worker[w].entry, NoEntry},
         job.at \in {"send", "mark"} => worker[w].at = "send",
         job.at \notin {"list", "load"}, job.at # "rewrite" => job.count = 0,
         worker[w].at # "load",
         \A e \in Entries : \/ tries'[e] = tries[e]
                            \/ /\ tries'[e] = tries[e] + 1
                               /\ e = worker[w].entry /\ w \in Recoveries \cup {e}
                               /\ worker[w].at \in {"send", "mark"} /\ job.at \notin {"send", "mark"},
         file' \in [Entries -> {NoFile, Marked} \cup Nat],
         \A e \in Entries : file'[e] # NoFile => e \in begun,
         failed' \cup accepted' \cup arrived' \cup aborted' \cup refused' \subseteq begun
  PROVE  TInv'
<1>0. /\ worker \in [Workers -> JobSet] /\ worker' \in [Workers -> JobSet] /\ worker'[w] = job
      /\ \A v \in Workers \ {w} : worker'[v] = worker[v]
  BY BecomeShape DEF IInv, Shape
<1>1. UNCHANGED <<markers, listed, pending, lives, begun>>
  BY DEF passes
<1>2. Known'
  <2>1. \A v \in Workers : worker'[v].entry \in begun \cup {NoEntry}
    BY <1>0 DEF TInv, Known
  <2> QED
    BY <1>1, <2>1 DEF TInv, Known
<1>3. Ranges'
  <2>1. \A v \in Workers : worker'[v].at # "rewrite" => worker'[v].count = 0
    BY <1>0 DEF TInv, Ranges
  <2> QED
    BY <1>1, <2>1 DEF TInv, Ranges
<1>4. TakenOff'
  <2> SUFFICES ASSUME NEW r \in Recoveries
               PROVE  /\ worker'[r].at # "load" => listed[r] = {}
                      /\ worker'[r].at = "load" => worker'[r].entry = NoEntry
                      /\ worker'[r].entry # NoEntry => pending[r][worker'[r].entry] = NoFile
    BY <1>1 DEF TakenOff
  <2>1. CASE r # w
    BY <1>0, <2>1 DEF TInv, TakenOff, Workers
  <2>2. CASE r = w
    BY <1>0, <2>2 DEF TInv, TakenOff
  <2> QED
    BY <2>1, <2>2
<1>5. \A e \in Entries : Chances(e)' \subseteq Chances(e)
  <2> SUFFICES ASSUME NEW e \in Entries, NEW v \in {e} \cup Recoveries, MayTry(v, e)' PROVE MayTry(v, e)
    BY DEF Chances
  <2>1. e # NoEntry /\ v \in Workers
    BY DeliveryQueueAssumption DEF Workers
  <2>2. CASE v # w
    BY <1>0, <1>1, <2>1, <2>2 DEF MayTry
  <2>3. CASE v = w
    BY <1>0, <1>1, <2>1, <2>3 DEF MayTry
  <2> QED
    BY <2>2, <2>3
<1>6. \A e \in Entries : tries'[e] # tries[e] => Chances(e)' # Chances(e)
  <2> SUFFICES ASSUME NEW e \in Entries, tries'[e] # tries[e] PROVE w \in Chances(e) /\ w \notin Chances(e)'
    BY DEF Chances
  <2>1. /\ e = worker[w].entry /\ w \in Recoveries \cup {e}
        /\ worker[w].at \in {"send", "mark"} /\ job.at \notin {"send", "mark"}
    OBVIOUS
  <2>2. w \in Chances(e)
    BY <2>1 DEF Chances, MayTry
  <2>3. e \in begun /\ e # NoEntry
    BY <2>1, DeliveryQueueAssumption DEF TInv, Known
  <2>4. w \in Recoveries => listed[w] = {} /\ pending[w][e] = NoFile
    BY <2>1, <2>3 DEF TInv, TakenOff
  <2>5. ~MayTry(w, e)'
    BY <1>0, <1>1, <2>1, <2>3, <2>4 DEF MayTry
  <2> QED
    BY <2>2, <2>5 DEF Chances
<1>7. AttemptsFit'
  BY <1>1, <1>5, <1>6, FewerChances DEF TInv
<1> QED
  BY <1>2, <1>3, <1>4, <1>7 DEF TInv

LEMMA BeginTypes ==
  ASSUME IInv, EInv, TInv, NEW e \in Entries, NEW p \in BOOLEAN, Begin(e, p)
  PROVE  TInv'
<1> DEFINE job == Job("send", IF p THEN e ELSE NoEntry)
<1>1. /\ e \in Workers /\ e \notin Recoveries /\ Become(e, job) /\ begun' = begun \cup {e} /\ e \notin begun
      /\ UNCHANGED <<failed, markers, listed, pending, lives, arrived, aborted, refused, tries, closed, sentOnce>>
      /\ accepted' \subseteq accepted \cup {e}
      /\ file' = file \/ file' = [file EXCEPT ![e] = 0]
  BY DeliveryQueueAssumption DEF Begin, Workers, passes
<1>2. job \in JobSet /\ job.at = "send" /\ job.entry \in {e, NoEntry} /\ job.count = 0
  BY JobType DEF Ats, Job
<1> HIDE DEF job
<1>3. /\ worker' \in [Workers -> JobSet] /\ worker'[e] = job
      /\ \A v \in Workers \ {e} : worker'[v] = worker[v]
  BY <1>1, <1>2, BecomeShape DEF IInv
<1>4. /\ file' \in [Entries -> {NoFile, Marked} \cup Nat]
      /\ \A d \in Entries : file'[d] # NoFile => d \in begun'
  BY <1>1 DEF TInv, Ranges, Known
<1>5. Known'
  <2>1. \A v \in Workers : worker'[v].entry \in begun' \cup {NoEntry}
    BY <1>1, <1>2, <1>3 DEF TInv, Known
  <2> QED
    BY <1>1, <1>4, <2>1 DEF TInv, Known
<1>6. Ranges'
  BY <1>1, <1>2, <1>3, <1>4 DEF TInv, Ranges
<1>7. TakenOff'
  BY <1>1, <1>3 DEF TInv, TakenOff, Workers
<1>8. \A d \in Entries : Chances(d)' \subseteq Chances(d)
  <2> SUFFICES ASSUME NEW d \in Entries, NEW v \in {d} \cup Recoveries, MayTry(v, d)' PROVE MayTry(v, d)
    BY DEF Chances
  <2>1. d # NoEntry /\ v \in Workers
    BY DeliveryQueueAssumption DEF Workers
  <2>2. CASE v # e
    BY <1>1, <1>3, <2>1, <2>2 DEF MayTry
  <2>3. CASE v = e
    BY <1>1, <1>2, <1>3, <2>1, <2>3, DeliveryQueueAssumption DEF MayTry
  <2> QED
    BY <2>2, <2>3
<1>9. AttemptsFit'
  BY <1>1, <1>8, FewerChances DEF TInv
<1> QED
  BY <1>5, <1>6, <1>7, <1>9 DEF TInv

\* An attempt ends: it has failed at most once.
LEMMA SendEndsTypes ==
  ASSUME IInv, EInv, TInv, NEW w \in Workers, NEW o, SendEnds(w, o)
  PROVE  TInv'
<1> DEFINE e == worker[w].entry
           job == IF e = NoEntry THEN Idle ELSE Job(AfterSend(w, o.result), e)
<1>1. /\ worker[w].at = "send" /\ Become(w, job)
      /\ UNCHANGED <<files, passes, lives, begun, accepted, closed, sentOnce>>
  BY DEF SendEnds
<1>2. e \in begun \cup {NoEntry}
  BY DEF TInv, Known
<1>3. AfterSend(w, o.result) \in {"mark", "expel", "read"}
  BY DEF AfterSend
<1>4. job \in JobSet /\ job.entry = e /\ job.count = 0 /\ job.at \in {"idle", "mark", "expel", "read"}
  <2>1. CASE e = NoEntry
    BY <2>1, IdleJob
  <2>2. CASE e # NoEntry
    <3>1. e \in Entries
      BY <1>2, <2>2 DEF TInv, Known
    <3> QED
      BY <1>3, <2>2, <3>1, JobType DEF Ats, Job
  <2> QED
    BY <2>1, <2>2
<1>5. arrived' \cup aborted' \cup refused' \subseteq begun
  <2>1. arrived \cup aborted \cup refused \subseteq begun
    BY DEF TInv, Known
  <2> QED
    BY <1>2, <2>1 DEF SendEnds
<1>6. \A d \in Entries : \/ tries'[d] = tries[d]
                         \/ /\ tries'[d] = tries[d] + 1 /\ d = e
                            /\ w \in Recoveries \cup {e} /\ job.at # "mark"
  <2>1. tries \in [Entries -> Nat]
    BY DEF EInv, CountsAreEarned
  <2>2. CASE tries' = tries
    BY <2>2
  <2>3. CASE tries' # tries
    <3>1. e # NoEntry /\ o.result \in {"error", "permanent", "partial"} /\ tries' = [tries EXCEPT ![e] = @ + 1]
      BY <2>3 DEF SendEnds
    <3>2. job.at # "mark"
      BY <3>1 DEF AfterSend, Job
    <3>3. w \in Recoveries \cup {e}
      BY <3>1 DEF Workers, EInv, LiveWorkersKeepToTheirEntry
    <3> QED
      BY <2>1, <3>1, <3>2, <3>3
  <2> QED
    BY <2>2, <2>3
<1>7. /\ file' \in [Entries -> {NoFile, Marked} \cup Nat] /\ \A d \in Entries : file'[d] # NoFile => d \in begun
      /\ failed' \cup accepted' \subseteq begun
  BY <1>1 DEF files, TInv, Known, Ranges
<1> HIDE DEF job, e
<1>8. UNCHANGED <<passes, lives, begun, closed, sentOnce>>
  BY <1>1
<1>9. failed' \cup accepted' \cup arrived' \cup aborted' \cup refused' \subseteq begun
  BY <1>5, <1>7
<1>10. \A d \in Entries : \/ tries'[d] = tries[d]
                          \/ /\ tries'[d] = tries[d] + 1
                             /\ d = worker[w].entry /\ w \in Recoveries \cup {d}
                             /\ worker[w].at \in {"send", "mark"} /\ job.at \notin {"send", "mark"}
  BY <1>1, <1>4, <1>6 DEF e
<1>11. /\ job.entry \in {worker[w].entry, NoEntry}
       /\ job.at \in {"send", "mark"} => worker[w].at = "send"
       /\ job.at \notin {"list", "load"} /\ (job.at # "rewrite" => job.count = 0)
       /\ worker[w].at # "load"
  BY <1>1, <1>4 DEF e
<1> QED
  BY <1>1, <1>4, <1>7, <1>8, <1>9, <1>10, <1>11, WorkerTypes

\* A worker's step through the files, after an attempt.
LEMMA FileTypes ==
  ASSUME IInv, EInv, TInv, NEW w \in Workers,
         MarkDelivered(w) \/ RemoveMarker(w) \/ ReadCount(w) \/ RewriteEntry(w) \/ MoveToFailed(w) \/ DiskError(w)
  PROVE  TInv'
<1> DEFINE e == worker[w].entry
           job == worker'[w]
<1>1. worker \in [Workers -> JobSet] /\ file \in [Entries -> {NoFile, Marked} \cup Nat] /\ worker[w].count \in Nat
  BY DEF IInv, Shape, TInv, Ranges, JobSet
<1>2. worker[w].at \in {"mark", "unmark", "read", "rewrite", "expel"} /\ e \in Entries
  BY DEF MarkDelivered, RemoveMarker, ReadCount, RewriteEntry, MoveToFailed, DiskError, IInv, HasEntry
<1>3. e \in begun
  BY <1>2, DeliveryQueueAssumption DEF TInv, Known
<1>4. PICK j : Become(w, j) /\ (\/ j = Rest(w) \/ j = Job("unmark", e)
                                \/ worker[w].at = "mark" /\ w \in Recoveries /\ j = Job("read", e)
                                \/ j = [at |-> "rewrite", entry |-> e, count |-> file[e] + 1] /\ e \in Queued)
  BY DEF MarkDelivered, RemoveMarker, ReadCount, RewriteEntry, MoveToFailed, DiskError
<1>5. job = j
  BY <1>1, <1>4 DEF Become
<1>6. /\ job \in JobSet /\ job.entry \in {e, NoEntry}
      /\ job.at \in {"idle", "next", "unmark", "read", "rewrite"}
      /\ job.at # "rewrite" => job.count = 0
  <2>1. CASE j = Rest(w)
    BY <1>5, <2>1, RestIs
  <2>2. CASE j = Job("unmark", e)
    BY <1>2, <1>5, <2>2, JobType DEF Ats, Job
  <2>3. CASE j = Job("read", e)
    BY <1>2, <1>5, <2>3, JobType DEF Ats, Job
  <2>4. CASE j = [at |-> "rewrite", entry |-> e, count |-> file[e] + 1] /\ e \in Queued
    BY <1>1, <1>2, <1>5, <2>4 DEF JobSet, Ats, Queued, NoFile, Marked
  <2> QED
    BY <1>4, <2>1, <2>2, <2>3, <2>4
<1>7. UNCHANGED <<passes, lives, begun, accepted, arrived, aborted, refused, closed, sentOnce>>
  BY DEF MarkDelivered, RemoveMarker, ReadCount, RewriteEntry, MoveToFailed, DiskError, history
<1>8. file' = file \/ \E n \in {NoFile, Marked} \cup Nat : file' = [file EXCEPT ![e] = n]
  BY <1>1 DEF MarkDelivered, RemoveMarker, ReadCount, RewriteEntry, MoveToFailed, DiskError, files
<1>9. failed' \subseteq failed \cup {e}
  BY DEF MarkDelivered, RemoveMarker, ReadCount, RewriteEntry, MoveToFailed, DiskError, files
<1>10. /\ file' \in [Entries -> {NoFile, Marked} \cup Nat]
       /\ \A d \in Entries : file'[d] # NoFile => d \in begun
  BY <1>1, <1>2, <1>3, <1>8 DEF TInv, Known
<1>11. failed' \cup accepted' \cup arrived' \cup aborted' \cup refused' \subseteq begun
  BY <1>3, <1>7, <1>9 DEF TInv, Known
<1>12. \A d \in Entries : \/ tries'[d] = tries[d]
                          \/ /\ tries'[d] = tries[d] + 1
                             /\ d = e /\ w \in Recoveries \cup {d} /\ worker[w].at = "mark"
  <2>1. tries \in [Entries -> Nat]
    BY DEF EInv, CountsAreEarned
  <2>2. tries' = tries \/ (worker[w].at = "mark" /\ w \in Recoveries /\ tries' = [tries EXCEPT ![e] = @ + 1])
    BY DEF MarkDelivered, RemoveMarker, ReadCount, RewriteEntry, MoveToFailed, DiskError, history
  <2> QED
    BY <2>1, <2>2
<1>13. Become(w, job)
  BY <1>4, <1>5
<1> HIDE DEF job
<1> QED
  BY <1>2, <1>6, <1>7, <1>10, <1>11, <1>12, <1>13, WorkerTypes

\* A pass lists the queue, reads what it has listed, and takes one entry in hand or drops the rest.
LEMMA PassTypes ==
  ASSUME IInv, EInv, TInv, NEW r \in Recoveries,
         \/ ListQueue(r) \/ Loaded(r) \/ RecoveryEnds(r)
         \/ \E e \in Entries : CleanMarker(r, e) \/ LoadEntry(r, e)
         \/ \E elapsed \in BOOLEAN : NextEntry(r, elapsed)
  PROVE  TInv'
<1>0. r \in Workers /\ worker \in [Workers -> JobSet] /\ listed \in [Recoveries -> SUBSET Entries]
      /\ pending \in [Recoveries -> [Entries -> {NoFile} \cup Nat]] /\ markers \in [Recoveries -> SUBSET Entries]
      /\ file \in [Entries -> {NoFile, Marked} \cup Nat]
  BY DEF Workers, IInv, Shape, TInv, Ranges
<1>1. /\ UNCHANGED <<lives, begun, closed, sentOnce, tries, failed, accepted, arrived, aborted, refused>>
      /\ file' = file \/ \E e \in Entries : file[e] = Marked /\ file' = [file EXCEPT ![e] = NoFile]
  BY DEF ListQueue, Loaded, RecoveryEnds, CleanMarker, LoadEntry, NextEntry, history, files
<1>2. /\ file' \in [Entries -> {NoFile, Marked} \cup Nat]
      /\ \A e \in Entries : file'[e] # NoFile => file[e] # NoFile
  BY <1>0, <1>1
<1>3. PICK job : /\ worker' = [worker EXCEPT ![r] = job]
                 /\ \/ job = worker[r] /\ worker[r].at \in {"load", "next"}
                    \/ job = Idle \/ job = Job("load", NoEntry) \/ job = Job("next", NoEntry)
                    \/ \E e \in Unhandled(r) : job = Job("expel", e) \/ job = Job("send", e)
  <2>1. worker' = worker => worker' = [worker EXCEPT ![r] = worker[r]]
    BY <1>0
  <2>2. CASE worker' = worker
    BY <2>1, <2>2 DEF ListQueue, Loaded, RecoveryEnds, CleanMarker, LoadEntry, NextEntry, Become
  <2>3. CASE worker' # worker
    BY <2>3 DEF ListQueue, Loaded, RecoveryEnds, CleanMarker, LoadEntry, NextEntry, Become
  <2> QED
    BY <2>2, <2>3
<1>4. job \in JobSet /\ (job.at # "rewrite" => job.count = 0)
  <2>1. worker[r].at # "rewrite" => worker[r].count = 0
    BY <1>0 DEF TInv, Ranges
  <2>2. ASSUME NEW e \in Entries \cup {NoEntry}, NEW at \in {"load", "next", "expel", "send"}, job = Job(at, e)
        PROVE  job \in JobSet /\ job.count = 0
    BY <2>2, JobType DEF Ats, Job
  <2> QED
    BY <1>0, <1>3, <2>1, <2>2, IdleJob DEF Unhandled
<1>5. /\ worker' \in [Workers -> JobSet] /\ worker'[r] = job
      /\ \A v \in Workers \ {r} : worker'[v] = worker[v]
  BY <1>0, <1>3, <1>4
<1>6. /\ listed' \in [Recoveries -> SUBSET Entries] /\ pending' \in [Recoveries -> [Entries -> {NoFile} \cup Nat]]
      /\ markers' \in [Recoveries -> SUBSET Entries]
      /\ \A q \in Recoveries \ {r} : listed'[q] = listed[q] /\ pending'[q] = pending[q] /\ markers'[q] = markers[q]
  <2>1. /\ listed' = listed \/ \E L \in SUBSET Entries : listed' = [listed EXCEPT ![r] = L]
        /\ markers' = markers \/ \E M \in SUBSET Entries : markers' = [markers EXCEPT ![r] = M]
    BY <1>0 DEF ListQueue, Loaded, RecoveryEnds, CleanMarker, LoadEntry, NextEntry, passes, Queued
  <2>2. \/ pending' = pending \/ pending' = [pending EXCEPT ![r] = [e \in Entries |-> NoFile]]
        \/ \E e \in Entries, n \in {NoFile} \cup Nat : pending' = [pending EXCEPT ![r][e] = n]
    <3>1. CASE ListQueue(r) \/ Loaded(r) \/ RecoveryEnds(r)
      BY <3>1 DEF ListQueue, Loaded, RecoveryEnds, passes
    <3>2. ASSUME NEW e \in Entries, CleanMarker(r, e) \/ LoadEntry(r, e)
          PROVE  pending' = pending \/ \E n \in {NoFile} \cup Nat : pending' = [pending EXCEPT ![r][e] = n]
      <4>1. e \in Queued => file[e] \in Nat
        BY <1>0 DEF Queued, NoFile, Marked
      <4> QED
        BY <3>2, <4>1 DEF CleanMarker, LoadEntry
    <3>3. ASSUME NEW elapsed \in BOOLEAN, NextEntry(r, elapsed)
          PROVE  \E e \in Entries : pending' = [pending EXCEPT ![r][e] = NoFile]
      BY <3>3 DEF NextEntry, Unhandled
    <3> QED
      BY <3>1, <3>2, <3>3
  <2>3. /\ listed' \in [Recoveries -> SUBSET Entries] /\ markers' \in [Recoveries -> SUBSET Entries]
        /\ \A q \in Recoveries \ {r} : listed'[q] = listed[q] /\ markers'[q] = markers[q]
    BY <1>0, <2>1
  <2>4. /\ pending' \in [Recoveries -> [Entries -> {NoFile} \cup Nat]]
        /\ \A q \in Recoveries \ {r} : pending'[q] = pending[q]
    BY <1>0, <2>2
  <2> QED
    BY <2>3, <2>4
<1>7. ASSUME NEW e \in Entries
      PROVE  /\ e \in listed'[r] => e \in listed[r] \/ (worker[r].at = "list" /\ file[e] # NoFile)
             /\ e \in markers'[r] => e \in markers[r] \/ file[e] # NoFile
             /\ pending'[r][e] # NoFile => pending[r][e] # NoFile \/ (worker[r].at = "load" /\ e \in listed[r])
  <2>1. CASE ListQueue(r)
    BY <1>0, <2>1 DEF ListQueue, Queued, NoFile, Marked
  <2>2. CASE Loaded(r) \/ RecoveryEnds(r)
    BY <1>0, <2>2 DEF Loaded, RecoveryEnds, passes
  <2>3. ASSUME NEW d \in Entries, CleanMarker(r, d)
        PROVE  UNCHANGED <<listed, pending>> /\ markers'[r] \subseteq markers[r]
    BY <1>0, <2>3 DEF CleanMarker
  <2>4. ASSUME NEW d \in Entries, LoadEntry(r, d)
        PROVE  /\ markers' = markers /\ listed'[r] \subseteq listed[r]
               /\ pending'[r][e] # pending[r][e] => worker[r].at = "load" /\ e \in listed[r]
    BY <1>0, <2>4 DEF LoadEntry
  <2>5. ASSUME NEW elapsed \in BOOLEAN, NextEntry(r, elapsed)
        PROVE  UNCHANGED <<listed, markers>> /\ (pending'[r][e] # NoFile => pending[r][e] # NoFile)
    BY <1>0, <2>5 DEF NextEntry
  <2> QED
    BY <2>1, <2>2, <2>3, <2>4, <2>5
<1>8. \/ job = worker[r] \/ job.entry = NoEntry
      \/ job.entry \in Entries /\ pending[r][job.entry] # NoFile
  BY <1>3, IdleJob DEF Job, Unhandled
<1>9. Known'
  <2>1. \A w \in Workers : worker'[w].entry \in begun \cup {NoEntry}
    BY <1>0, <1>5, <1>8 DEF TInv, Known
  <2>2. /\ listed'[r] \subseteq begun /\ markers'[r] \subseteq begun
        /\ \A e \in Entries : pending'[r][e] # NoFile => e \in begun
    BY <1>6, <1>7 DEF TInv, Known
  <2>3. ASSUME NEW q \in Recoveries
        PROVE  /\ listed'[q] \subseteq begun /\ markers'[q] \subseteq begun
               /\ \A e \in Entries : pending'[q][e] # NoFile => e \in begun
    BY <1>6, <2>2 DEF TInv, Known
  <2>4. \A e \in Entries : file'[e] # NoFile => e \in begun
    BY <1>2 DEF TInv, Known
  <2> QED
    BY <1>1, <2>1, <2>3, <2>4 DEF TInv, Known
<1>10. Ranges'
  <2>1. \A w \in Workers : worker'[w].at # "rewrite" => worker'[w].count = 0
    BY <1>4, <1>5 DEF TInv, Ranges
  <2> QED
    BY <1>1, <1>2, <1>6, <2>1 DEF TInv, Ranges
<1>11. TakenOff'
  <2> SUFFICES ASSUME NEW q \in Recoveries
               PROVE  /\ worker'[q].at # "load" => listed'[q] = {}
                      /\ worker'[q].at = "load" => worker'[q].entry = NoEntry
                      /\ worker'[q].entry # NoEntry => pending'[q][worker'[q].entry] = NoFile
    BY DEF TakenOff
  <2>1. CASE q # r
    BY <1>5, <1>6, <2>1 DEF Workers, TInv, TakenOff
  <2>2. CASE q = r
    <3>1. job.at # "load" => listed'[r] = {}
      <4>1. CASE worker[r].at = "load" \/ worker[r].at = "list"
        BY <1>0, <1>5, <4>1 DEF ListQueue, Loaded, RecoveryEnds, CleanMarker, LoadEntry, NextEntry, passes, Become, Job
      <4>2. CASE worker[r].at \notin {"load", "list"}
        <5>1. listed' = listed
          BY <4>2 DEF ListQueue, Loaded, RecoveryEnds, CleanMarker, LoadEntry, NextEntry, passes
        <5> QED
          BY <4>2, <5>1 DEF TInv, TakenOff
      <4> QED
        BY <4>1, <4>2
    <3>2. job.at = "load" => job.entry = NoEntry
      BY <1>3, IdleJob DEF Job, TInv, TakenOff
    <3>3. job.entry # NoEntry => pending'[r][job.entry] = NoFile
      <4>1. CASE \E elapsed \in BOOLEAN : NextEntry(r, elapsed)
        <5>1. PICK e \in Unhandled(r) : /\ pending' = [pending EXCEPT ![r][e] = NoFile]
                                        /\ worker' = worker \/ Become(r, Job("expel", e)) \/ Become(r, Job("send", e))
          BY <4>1 DEF NextEntry
        <5>2. job = worker[r] \/ job.entry = e
          BY <1>0, <1>5, <5>1 DEF Become, Job
        <5> QED
          BY <1>0, <5>1, <5>2 DEF TInv, TakenOff, Known, Unhandled
      <4>2. CASE \E e \in Entries : CleanMarker(r, e) \/ LoadEntry(r, e)
        <5>1. worker' = worker /\ worker[r].at = "load"
          BY <4>2 DEF CleanMarker, LoadEntry
        <5> QED
          BY <1>5, <5>1 DEF TInv, TakenOff
      <4>3. CASE ListQueue(r) \/ Loaded(r) \/ RecoveryEnds(r)
        BY <1>0, <1>5, <4>3, IdleJob DEF ListQueue, Loaded, RecoveryEnds, Become, Job
      <4> QED
        BY <4>1, <4>2, <4>3
    <3> QED
      BY <1>5, <2>2, <3>1, <3>2, <3>3
  <2> QED
    BY <2>1, <2>2
<1>12. \A e \in Entries : Chances(e)' \subseteq Chances(e)
  <2> SUFFICES ASSUME NEW e \in Entries, NEW v \in {e} \cup Recoveries, MayTry(v, e)' PROVE MayTry(v, e)
    BY DEF Chances
  <2>1. e # NoEntry /\ v \in Workers
    BY DeliveryQueueAssumption DEF Workers
  <2>2. CASE v # r
    BY <1>1, <1>5, <1>6, <2>1, <2>2 DEF MayTry
  <2>3. CASE v = r
    <3>1. job.at # "list"
      BY <1>3, IdleJob DEF Job
    <3>2. job.at \in {"send", "mark"} /\ job.entry = e => job = worker[r] \/ pending[r][e] # NoFile
      BY <1>8, <2>1
    <3> QED
      BY <1>1, <1>5, <1>7, <2>3, <3>1, <3>2 DEF MayTry
  <2> QED
    BY <2>2, <2>3
<1>13. AttemptsFit'
  BY <1>1, <1>12, FewerChances DEF TInv
<1> QED
  BY <1>9, <1>10, <1>11, <1>13 DEF TInv

\* A start is one more chance for everything that is queued; a crash takes away all others.
LEMMA StartTypes ==
  ASSUME IInv, EInv, TInv, NEW r \in Recoveries, StartGateway(r) \/ CrashAndStart(r)
  PROVE  TInv'
<1> DEFINE job == Job("list", NoEntry)
<1>0. r \in Workers /\ worker \in [Workers -> JobSet]
  BY DEF Workers, IInv, Shape
<1>1. /\ lives' = lives + 1 /\ lives < MaxLives
      /\ UNCHANGED <<file, failed, begun, accepted, arrived, aborted, refused, tries>>
  BY DeliveryQueueAssumption DEF StartGateway, CrashAndStart, files, history, TInv, Ranges
<1>2. job \in JobSet /\ job.at = "list" /\ job.entry = NoEntry /\ job.count = 0
  BY JobType DEF Ats, Job
<1> HIDE DEF job
<1>3. /\ worker'[r] = job
      /\ \A v \in Workers \ {r} : worker'[v] = worker[v] \/ worker'[v] = Idle
  BY <1>0 DEF StartGateway, CrashAndStart, Become, job
<1>4. \A q \in Recoveries : /\ listed'[q] = listed[q] \/ listed'[q] = {}
                            /\ markers'[q] = markers[q] \/ markers'[q] = {}
                            /\ pending'[q] = pending[q] \/ pending'[q] = [e \in Entries |-> NoFile]
  BY DEF StartGateway, CrashAndStart, passes
<1>5. Known'
  <2>1. closed' \cup sentOnce' \subseteq begun
    BY DEF StartGateway, CrashAndStart, history, TInv, Known
  <2>2. \A v \in Workers : worker'[v].entry \in begun \cup {NoEntry}
    BY <1>2, <1>3, IdleJob DEF TInv, Known
  <2>3. \A q \in Recoveries : /\ listed'[q] \subseteq begun /\ markers'[q] \subseteq begun
                              /\ \A e \in Entries : pending'[q][e] # NoFile => e \in begun
    BY <1>4 DEF TInv, Known
  <2> QED
    BY <1>1, <2>1, <2>2, <2>3 DEF TInv, Known
<1>6. Ranges'
  <2>1. \A w \in Workers : worker'[w].at # "rewrite" => worker'[w].count = 0
    BY <1>2, <1>3, IdleJob DEF TInv, Ranges
  <2>2. /\ pending' \in [Recoveries -> [Entries -> {NoFile} \cup Nat]]
        /\ markers' \in [Recoveries -> SUBSET Entries]
    BY DEF StartGateway, CrashAndStart, passes, TInv, Ranges
  <2>3. lives' \in 0..MaxLives
    BY <1>1, DeliveryQueueAssumption DEF TInv, Ranges
  <2> QED
    BY <1>1, <2>1, <2>2, <2>3 DEF TInv, Ranges
<1>7. TakenOff'
  <2> SUFFICES ASSUME NEW q \in Recoveries
               PROVE  /\ worker'[q].at # "load" => listed'[q] = {}
                      /\ worker'[q].at = "load" => worker'[q].entry = NoEntry
                      /\ worker'[q].entry # NoEntry => pending'[q][worker'[q].entry] = NoFile
    BY DEF TakenOff
  <2>1. CASE StartGateway(r)
    <3>1. /\ UNCHANGED <<markers, listed, pending>> /\ worker[r] = Idle
          /\ \A v \in Workers \ {r} : worker'[v] = worker[v]
      BY <2>1 DEF StartGateway, passes, Become
    <3>2. CASE q = r
      BY <1>2, <1>3, <3>1, <3>2, IdleJob DEF TInv, TakenOff
    <3>3. CASE q # r
      BY <3>1, <3>3 DEF Workers, TInv, TakenOff
    <3> QED
      BY <3>2, <3>3
  <2>2. CASE CrashAndStart(r)
    <3>1. listed'[q] = {} /\ (worker'[q] = job \/ worker'[q] = Idle)
      BY <2>2 DEF CrashAndStart, Workers, job
    <3> QED
      BY <1>2, <3>1, IdleJob
  <2> QED
    BY <2>1, <2>2
<1>8. \A e \in Entries : Chances(e)' \subseteq Chances(e) \cup {r}
  <2> SUFFICES ASSUME NEW e \in Entries, NEW v \in {e} \cup Recoveries, MayTry(v, e)', v # r PROVE MayTry(v, e)
    BY DEF Chances
  <2>1. v \in Workers /\ worker'[v] \in {worker[v], Idle}
    BY <1>3 DEF Workers
  <2>2. v \in Recoveries => (e \in listed'[v] => e \in listed[v]) /\ (pending'[v][e] # NoFile => pending[v][e] # NoFile)
    BY <1>4
  <2>3. begun' = begun
    BY <1>1
  <2> QED
    BY <2>1, <2>2, <2>3, IdleJob DEF MayTry
<1>9. AttemptsFit'
  BY <1>1, <1>8, OneMoreChance DEF TInv
<1> QED
  BY <1>5, <1>6, <1>7, <1>9 DEF TInv

LEMMA NextTypes == IInv /\ EInv /\ TInv /\ [Next]_vars => TInv'
<1> SUFFICES ASSUME IInv, EInv, TInv, [Next]_vars PROVE TInv'
  OBVIOUS
<1>1. ASSUME NEW e \in Entries, NEW p \in BOOLEAN, Begin(e, p) PROVE TInv'
  BY <1>1, BeginTypes
<1>2. ASSUME NEW w \in Workers, NEW o, SendEnds(w, o) PROVE TInv'
  BY <1>2, SendEndsTypes
<1>3. ASSUME NEW w \in Workers, \/ MarkDelivered(w) \/ RemoveMarker(w) \/ ReadCount(w) \/ RewriteEntry(w)
                                \/ MoveToFailed(w) \/ DiskError(w)
      PROVE  TInv'
  BY <1>3, FileTypes
<1>4. ASSUME NEW r \in Recoveries, \/ ListQueue(r) \/ Loaded(r) \/ RecoveryEnds(r)
                                   \/ \E e \in Entries : CleanMarker(r, e) \/ LoadEntry(r, e)
                                   \/ \E elapsed \in BOOLEAN : NextEntry(r, elapsed)
      PROVE  TInv'
  BY <1>4, PassTypes
<1>5. ASSUME NEW r \in Recoveries, StartGateway(r) \/ CrashAndStart(r) PROVE TInv'
  BY <1>5, StartTypes
<1>6. CASE UNCHANGED vars
  BY <1>6 DEF vars, files, passes, history, TInv, Known, Ranges, TakenOff, AttemptsFit, Chances, MayTry
<1> QED
  BY <1>1, <1>2, <1>3, <1>4, <1>5, <1>6 DEF Next

-----------------------------------------------------------------------------
(* The theorems.                                                           *)

\* A message that was written ahead is still queued, in failed/, completely
\* delivered or given up by its caller, whatever crashes and overlaps there were.
THEOREM WriteAheadKeeps == Spec => []AcceptedIsKept
<1>1. IInv => AcceptedIsKept
  BY DEF IInv
<1> QED
  BY InitIInv, NextIInv, <1>1, PTL DEF Spec

\* No pass after a crash queues or sends an entry that had left the queue before it.
THEOREM ClosedEntriesStayClosed == Spec => []ClosedStaysClosed
<1>1. IInv => ClosedStaysClosed
  BY DEF IInv, ClosedIsForgotten, ClosedStaysClosed, Workers
<1> QED
  BY InitIInv, NextIInv, <1>1, PTL DEF Spec

\* An entry is given up only after a permanent error or as many failed attempts as the limit asks
\* for, however the workers of an entry interleave their reading and writing of its count.
THEOREM GivingUpIsEarned == Spec => []GivenUpIsEarned
<1>1. EInv => GivenUpIsEarned
  BY DEF EInv
<1> QED
  BY InitIInv, NextIInv, InitEarned, NextEarned, <1>1, PTL DEF Spec

\* A message is tried at most once by its own delivery and once by each start of the gateway: no
\* overlap of passes and no rewritten count makes a pass try it twice (recoverPendingDeliveries).
THEOREM OneAttemptPerStart == Spec => []AttemptsAreFew
<1>1. EInv /\ TInv => AttemptsAreFew
  <2> SUFFICES ASSUME EInv, TInv, NEW e \in Entries PROVE tries[e] <= lives + 1
    BY DEF AttemptsAreFew
  <2>1. tries[e] \in Nat /\ lives \in Nat /\ tries[e] + Cardinality(Chances(e)) <= lives + 1
    BY DeliveryQueueAssumption DEF EInv, CountsAreEarned, AttemptsFit, TInv, Ranges
  <2> QED
    BY <2>1, ChancesFinite
<1> QED
  BY InitIInv, NextIInv, InitEarned, NextEarned, InitTInv, NextTypes, <1>1, PTL DEF Spec

\* The files, workers, lists and counts have their types: the counts on disk and in the hands of
\* workers never exceed the number of starts and one, and only what was begun is anywhere.
THEOREM DeliveryTypesHold == Spec => []TypeOK
<1>1. IInv /\ EInv /\ TInv => TypeOK
  <2> SUFFICES ASSUME IInv, EInv, TInv PROVE TypeOK
    OBVIOUS
  <2>1. MaxLives \in Nat /\ lives \in 0..MaxLives
    BY DeliveryQueueAssumption DEF TInv, Ranges
  <2>2. \A n \in Nat, e \in Entries : n <= tries[e] => n \in Counts
    <3> SUFFICES ASSUME NEW n \in Nat, NEW e \in Entries, n <= tries[e] PROVE n \in Counts
      OBVIOUS
    <3>1. tries[e] \in Nat /\ tries[e] + Cardinality(Chances(e)) <= lives + 1 /\ Cardinality(Chances(e)) \in Nat
      BY ChancesFinite DEF EInv, CountsAreEarned, AttemptsFit, TInv
    <3> QED
      BY <2>1, <3>1 DEF Counts
  <2>3. tries \in [Entries -> Nat] /\ \A e \in Entries : tries[e] \in Counts
    BY <2>2 DEF EInv, CountsAreEarned
  <2>4. \A e \in Entries : Countable(e) \in Int /\ Countable(e) <= tries[e]
    BY <2>3, ReadersFinite DEF EInv, Countable
  <2>5. file \in [Entries -> {NoFile, Marked} \cup Counts]
    <3> SUFFICES ASSUME NEW e \in Entries PROVE file[e] \in {NoFile, Marked} \cup Counts
      BY DEF TInv, Ranges
    <3>1. file[e] \in {NoFile, Marked} \cup Nat /\ file[e] <= Countable(e)
      BY DEF TInv, Ranges, EInv, CountsAreEarned
    <3> QED
      BY <2>2, <2>3, <2>4, <3>1
  <2>6. pending \in [Recoveries -> [Entries -> {NoFile} \cup Counts]]
    <3> SUFFICES ASSUME NEW r \in Recoveries, NEW e \in Entries PROVE pending[r][e] \in {NoFile} \cup Counts
      BY DEF TInv, Ranges
    <3>1. pending[r][e] \in {NoFile} \cup Nat /\ pending[r][e] <= tries[e]
      BY DEF TInv, Ranges, EInv, CountsAreEarned
    <3> QED
      BY <2>2, <3>1
  <2>7. ASSUME NEW w \in Workers PROVE worker[w].count \in Counts
    <3>1. worker[w].count \in Nat
      BY DEF IInv, Shape, JobSet
    <3>2. CASE worker[w].at = "rewrite"
      <4>1. worker[w].entry \in Entries /\ worker[w].count <= Countable(worker[w].entry)
        BY <3>2 DEF IInv, HasEntry, EInv, CountsAreEarned
      <4> QED
        BY <2>2, <2>3, <2>4, <3>1, <4>1
    <3>3. CASE worker[w].at # "rewrite"
      BY <2>1, <3>3 DEF TInv, Ranges, Counts
    <3> QED
      BY <3>2, <3>3
  <2>8. worker \in [Workers -> [at : Ats, entry : Entries \cup {NoEntry}, count : Counts]]
    <3>1. \A w \in Workers : worker[w] \in [at : Ats, entry : Entries \cup {NoEntry}, count : Counts]
      BY <2>7 DEF IInv, Shape, JobSet
    <3> QED
      BY <3>1 DEF IInv, Shape
  <2> QED
    BY <2>1, <2>3, <2>5, <2>6, <2>8 DEF TypeOK, Ats, TInv, Ranges, Known, IInv, Shape
<1> QED
  BY InitIInv, NextIInv, InitEarned, NextEarned, InitTInv, NextTypes, <1>1, PTL DEF Spec
=============================================================================
