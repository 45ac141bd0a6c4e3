--------------------------- MODULE DeliveryQueue ---------------------------
(***************************************************************************)
(* The write-ahead queue of outbound messages                              *)
(* (src/infra/outbound/delivery-queue.ts, deliver.ts) on disk, the live    *)
(* deliveries that use it, the recovery pass every start of the gateway    *)
(* begins, and crashes between any two file operations.                    *)
(*                                                                         *)
(* An entry's files are {id}.json with its retry count, {id}.delivered, or *)
(* none.  failDelivery's temporary file is written and renamed in one      *)
(* step: only the rename can be seen by anyone else.                       *)
(***************************************************************************)
EXTENDS Integers, FiniteSets

CONSTANTS
    Entries,     \* queue ids, numbered in the order of enqueuedAt
    Recoveries,  \* slots for recovery passes under way: a bound
    BestEffort,  \* the entries delivered with bestEffort
    MaxRetries,  \* MAX_RETRIES
    MaxLives     \* bound on the starts of the gateway

Workers == Entries \cup Recoveries  \* the live delivery of an entry bears its id

NoEntry == 0
NoFile  == -2
Marked  == -1  \* the .delivered marker

ASSUME DeliveryQueueAssumption ==
    /\ Entries \subseteq Nat \ {NoEntry}
    /\ IsFiniteSet(Recoveries) /\ Entries \cap Recoveries = {}
    /\ BestEffort \subseteq Entries
    /\ MaxRetries \in Nat \ {0} /\ MaxLives \in Nat

VARIABLES
    file,     \* per entry: the retryCount in its .json, Marked, or NoFile
    failed,   \* the entries in failed/
    worker,   \* per worker: what it does next, for which entry, the count it will write
    markers,  \* per recovery: .delivered files of its listing to remove
    listed,   \* per recovery: .json files of its listing to read
    pending,  \* per recovery: the retry counts it loaded and has not dealt with
    lives,    \* how often the gateway has started
    begun,    \* history: the entries whose delivery has begun
    accepted, \* history: the entries that were written to the queue
    arrived,  \* history: the entries whose payloads have all reached the channel
    aborted,  \* history: the entries whose caller aborted the delivery
    refused,  \* history: the entries that met a permanent error
    tries,    \* history: per entry, the attempts that were taken for failed
    closed,   \* history: the entries begun and no longer queued at the last crash
    sentOnce  \* history: the entries that had arrived at the last crash

files   == <<file, failed>>
passes  == <<markers, listed, pending>>
history == <<begun, accepted, arrived, aborted, refused, tries, closed, sentOnce>>
vars    == <<files, worker, passes, lives, history>>

Counts == 0..(MaxLives + 1)
Idle   == [at |-> "idle", entry |-> NoEntry, count |-> 0]
Job(at, e) == [at |-> at, entry |-> e, count |-> 0]

Queued == {e \in Entries : file[e] >= 0}

TypeOK ==
    /\ file \in [Entries -> {NoFile, Marked} \cup Counts]
    /\ worker \in [Workers -> [at : {"idle", "send", "mark", "unmark", "read", "rewrite", "expel", "list", "load", "next"},
                               entry : Entries \cup {NoEntry}, count : Counts]]
    /\ markers \in [Recoveries -> SUBSET Entries]
    /\ listed \in [Recoveries -> SUBSET Entries]
    /\ pending \in [Recoveries -> [Entries -> {NoFile} \cup Counts]]
    /\ lives \in 0..MaxLives
    /\ tries \in [Entries -> Counts]
    /\ failed \cup accepted \cup arrived \cup aborted \cup refused \cup closed \cup sentOnce \subseteq begun
    /\ begun \subseteq Entries

Init ==
    /\ file = [e \in Entries |-> NoFile] /\ failed = {}
    /\ worker = [w \in Workers |-> Idle]
    /\ markers = [r \in Recoveries |-> {}] /\ listed = [r \in Recoveries |-> {}]
    /\ pending = [r \in Recoveries |-> [e \in Entries |-> NoFile]]
    /\ lives = 0
    /\ begun = {} /\ accepted = {} /\ arrived = {} /\ aborted = {} /\ refused = {} /\ closed = {} /\ sentOnce = {}
    /\ tries = [e \in Entries |-> 0]

-----------------------------------------------------------------------------
(* A worker's steps through the files.                                     *)

\* Where a worker goes when it is done with its entry.
Rest(w) == IF w \in Entries THEN Idle ELSE Job("next", NoEntry)

Become(w, job) == worker' = [worker EXCEPT ![w] = job]

\* deliverOutboundPayloads: persist first; a failed write does not stop the delivery.
Begin(e, persisted) ==
    /\ lives > 0 /\ e \notin begun /\ \A d \in Entries : d < e => d \in begun
    /\ begun' = begun \cup {e}
    /\ IF persisted
       THEN /\ file' = [file EXCEPT ![e] = 0] /\ accepted' = accepted \cup {e}
            /\ Become(e, Job("send", e))
       ELSE Become(e, Job("send", NoEntry)) /\ UNCHANGED <<file, accepted>>
    /\ UNCHANGED <<failed, passes, lives, arrived, aborted, refused, tries, closed, sentOnce>>

\* How deliverOutboundPayloadsCore can end, and whether everything reached the
\* channel.  An error may come after the last payload was sent.  With bestEffort
\* the errors of payloads are swallowed; a live caller's onError notices them.
Outcomes(w, e) ==
    {[result |-> "ok", whole |-> TRUE]}
    \cup [result : {"error", "permanent"}, whole : BOOLEAN]
    \cup (IF w \in Entries THEN [result : {"abort"}, whole : BOOLEAN] ELSE {})
    \cup (IF e \in BestEffort THEN {[result |-> "ok", whole |-> FALSE]} ELSE {})
    \cup (IF e \in BestEffort /\ w \in Entries THEN {[result |-> "partial", whole |-> FALSE]} ELSE {})

\* Mutant: the acknowledgement sits in a finally block.
AfterSend_AlwaysAck(w, result) == IF w \in Recoveries /\ result = "permanent" THEN "expel" ELSE "mark"

\* The await of the delivery, in deliverOutboundPayloads and in recoverPendingDeliveries.
AfterSend(w, result) ==
    CASE result \in {"ok", "abort"} -> "mark"
      [] result = "permanent" /\ w \in Recoveries -> "expel"
      [] OTHER -> "read"

SendEnds(w, outcome) ==
    LET e == worker[w].entry IN
    /\ worker[w].at = "send"
    /\ IF e = NoEntry
       THEN Become(w, Idle) /\ UNCHANGED <<arrived, aborted, refused, tries>>
       ELSE /\ outcome \in Outcomes(w, e)
            /\ Become(w, Job(AfterSend(w, outcome.result), e))
            /\ arrived' = IF outcome.whole THEN arrived \cup {e} ELSE arrived
            /\ aborted' = IF outcome.result = "abort" THEN aborted \cup {e} ELSE aborted
            /\ refused' = IF outcome.result = "permanent" THEN refused \cup {e} ELSE refused
            /\ tries' = IF outcome.result \in {"error", "permanent", "partial"}
                        THEN [tries EXCEPT ![e] = @ + 1] ELSE tries
    /\ UNCHANGED <<files, passes, lives, begun, accepted, closed, sentOnce>>

\* ackDelivery, phase 1.  Without a .json it goes on to clean up a marker.
MarkDelivered(w) ==
    LET e == worker[w].entry IN
    /\ worker[w].at = "mark"
    /\ file' = IF e \in Queued THEN [file EXCEPT ![e] = Marked] ELSE file
    /\ Become(w, Job("unmark", e))
    /\ UNCHANGED <<failed, passes, lives, history>>

\* ackDelivery, phase 2.
RemoveMarker(w) ==
    LET e == worker[w].entry IN
    /\ worker[w].at = "unmark"
    /\ file' = IF file[e] = Marked THEN [file EXCEPT ![e] = NoFile] ELSE file
    /\ Become(w, Rest(w))
    /\ UNCHANGED <<failed, passes, lives, history>>

\* failDelivery: read the entry; a missing file ends it, the error is swallowed.
ReadCount(w) ==
    LET e == worker[w].entry IN
    /\ worker[w].at = "read"
    /\ Become(w, IF e \in Queued THEN [at |-> "rewrite", entry |-> e, count |-> file[e] + 1]
                                 ELSE Rest(w))
    /\ UNCHANGED <<files, passes, lives, history>>

\* failDelivery: write the temporary file and rename it over whatever is there now.
RewriteEntry(w) ==
    /\ worker[w].at = "rewrite"
    /\ file' = [file EXCEPT ![worker[w].entry] = worker[w].count]
    /\ Become(w, Rest(w))
    /\ UNCHANGED <<failed, passes, lives, history>>

\* moveToFailed.
MoveToFailed(w) ==
    LET e == worker[w].entry IN
    /\ worker[w].at = "expel"
    /\ IF e \in Queued
       THEN file' = [file EXCEPT ![e] = NoFile] /\ failed' = failed \cup {e}
       ELSE UNCHANGED files
    /\ Become(w, Rest(w))
    /\ UNCHANGED <<passes, lives, history>>

\* A file operation fails.  Only recovery's ack has a handler that does more
\* than log or ignore it: its catch block calls failDelivery.
DiskError(w) ==
    /\ worker[w].at \in {"mark", "read", "rewrite", "expel"}
    /\ IF worker[w].at = "mark" /\ w \in Recoveries
       THEN /\ Become(w, Job("read", worker[w].entry))
            /\ tries' = [tries EXCEPT ![worker[w].entry] = @ + 1]
       ELSE Become(w, Rest(w)) /\ UNCHANGED tries
    /\ UNCHANGED <<files, passes, lives, begun, accepted, arrived, aborted, refused, closed, sentOnce>>

-----------------------------------------------------------------------------
(* recoverPendingDeliveries.                                               *)

\* loadPendingDeliveries: readdir.
ListQueue(r) ==
    /\ worker[r].at = "list"
    /\ listed' = [listed EXCEPT ![r] = Queued]
    /\ markers' = [markers EXCEPT ![r] = {e \in Entries : file[e] = Marked}]
    /\ Become(r, Job("load", NoEntry))
    /\ UNCHANGED <<files, pending, lives, history>>

\* Mutant: a leftover marker is taken for an unfinished delivery.
CleanMarker_Requeue(r, e) ==
    /\ worker[r].at = "load" /\ e \in markers[r]
    /\ markers' = [markers EXCEPT ![r] = @ \ {e}]
    /\ file' = IF file[e] = Marked THEN [file EXCEPT ![e] = 0] ELSE file
    /\ UNCHANGED <<failed, worker, listed, pending, lives, history>>

\* loadPendingDeliveries: leftover markers first.
CleanMarker(r, e) ==
    /\ worker[r].at = "load" /\ e \in markers[r]
    /\ markers' = [markers EXCEPT ![r] = @ \ {e}]
    /\ file' = IF file[e] = Marked THEN [file EXCEPT ![e] = NoFile] ELSE file
    /\ UNCHANGED <<failed, worker, listed, pending, lives, history>>

\* loadPendingDeliveries: read the listed entries that are still there.
LoadEntry(r, e) ==
    /\ worker[r].at = "load" /\ markers[r] = {} /\ e \in listed[r]
    /\ listed' = [listed EXCEPT ![r] = @ \ {e}]
    /\ pending' = IF e \in Queued THEN [pending EXCEPT ![r][e] = file[e]] ELSE pending
    /\ UNCHANGED <<files, worker, markers, lives, history>>

Loaded(r) ==
    /\ worker[r].at = "load" /\ markers[r] = {} /\ listed[r] = {}
    /\ Become(r, Job("next", NoEntry))
    /\ UNCHANGED <<files, passes, lives, history>>

\* isEntryEligibleForRecoveryRetry: at once if it never failed, later if it did.
MayRetry(count, elapsed) == count = 0 \/ elapsed

Unhandled(r) == {e \in Entries : pending[r][e] # NoFile}

\* Mutant: the count is compared after the attempt to come.
NextEntry_OneEarly(r, elapsed) ==
    /\ worker[r].at = "next"
    /\ \E e \in Unhandled(r) :
           /\ pending' = [pending EXCEPT ![r][e] = NoFile]
           /\ Become(r, Job(IF pending[r][e] + 1 >= MaxRetries THEN "expel" ELSE "send", e))
    /\ UNCHANGED <<files, markers, listed, lives, history>>

\* One iteration of the loop, oldest entry first; elapsed: its backoff is over.
NextEntry(r, elapsed) ==
    /\ worker[r].at = "next"
    /\ \E e \in Unhandled(r) :
           /\ \A d \in Unhandled(r) : e <= d
           /\ pending' = [pending EXCEPT ![r][e] = NoFile]
           /\ \/ pending[r][e] >= MaxRetries /\ Become(r, Job("expel", e))
              \/ pending[r][e] < MaxRetries /\ MayRetry(pending[r][e], elapsed) /\ Become(r, Job("send", e))
              \/ pending[r][e] < MaxRetries /\ ~MayRetry(pending[r][e], elapsed) /\ UNCHANGED worker
    /\ UNCHANGED <<files, markers, listed, lives, history>>

\* The loop is over, or the recovery time budget is.
RecoveryEnds(r) ==
    /\ worker[r].at = "next"
    /\ pending' = [pending EXCEPT ![r] = [e \in Entries |-> NoFile]]
    /\ Become(r, Idle)
    /\ UNCHANGED <<files, markers, listed, lives, history>>

-----------------------------------------------------------------------------
(* Starts of the gateway: both begin a recovery pass that nobody waits for. *)

\* The first start, or a restart in process: what is under way goes on.
StartGateway(r) ==
    /\ lives < MaxLives /\ lives' = lives + 1
    /\ worker[r] = Idle
    /\ Become(r, Job("list", NoEntry))
    /\ UNCHANGED <<files, passes, history>>

\* The process dies and is started again: only the files survive.
CrashAndStart(r) ==
    /\ lives \in 1..(MaxLives - 1) /\ lives' = lives + 1
    /\ worker' = [w \in Workers |-> IF w = r THEN Job("list", NoEntry) ELSE Idle]
    /\ markers' = [q \in Recoveries |-> {}] /\ listed' = [q \in Recoveries |-> {}]
    /\ pending' = [q \in Recoveries |-> [e \in Entries |-> NoFile]]
    /\ closed' = begun \ Queued /\ sentOnce' = arrived
    /\ UNCHANGED <<files, begun, accepted, arrived, aborted, refused, tries>>

Next ==
    \/ \E e \in Entries, p \in BOOLEAN : Begin(e, p)
    \/ \E w \in Workers : \E o \in [result : {"ok", "partial", "abort", "error", "permanent"}, whole : BOOLEAN] :
           SendEnds(w, o)
    \/ \E w \in Workers :
           \/ MarkDelivered(w) \/ RemoveMarker(w)
           \/ ReadCount(w) \/ RewriteEntry(w)
           \/ MoveToFailed(w) \/ DiskError(w)
    \/ \E r \in Recoveries :
           \/ ListQueue(r)
           \/ \E e \in Entries : CleanMarker(r, e) \/ LoadEntry(r, e)
           \/ Loaded(r)
           \/ \E elapsed \in BOOLEAN : NextEntry(r, elapsed)
           \/ RecoveryEnds(r)
           \/ StartGateway(r) \/ CrashAndStart(r)

Spec == Init /\ [][Next]_vars

-----------------------------------------------------------------------------
(* Properties.                                                             *)

Kept(e) == e \in Queued \cup failed \cup arrived \cup aborted

\* What was written ahead is not lost: whatever crashes, restarts, failing
\* files and overlapping passes do, an entry leaves the queue directory only
\* for failed/, after a complete delivery, or because its caller gave it up.
AcceptedIsKept == \A e \in accepted \ BestEffort : Kept(e)

\* failed/ is for entries that met a permanent error or used up all their
\* retries: no overlap of passes makes the count on disk run ahead of the
\* attempts (recoverPendingDeliveries, failDelivery).
GivenUpIsEarned == \A e \in failed : e \in refused \/ tries[e] >= MaxRetries

\* The two phases of ackDelivery: what had left the queue when the process
\* died, a marker included, is neither queued nor sent again by any later pass.
ClosedStaysClosed ==
    /\ closed \cap Queued = {}
    /\ \A r \in Recoveries : worker[r].entry \notin closed

\* deliver.ts:502-504: with bestEffort "per-payload errors are caught and passed
\* to onError without throwing", so "We track whether any payload failed so we can
\* call failDelivery instead of ackDelivery": recovery acknowledges what has arrived.
RecoveryAcksOnlyTheDelivered ==
    \A r \in Recoveries : worker[r].at = "mark" => worker[r].entry \in arrived

\* delivery-queue.ts:136-137: the two phases are there "so that a crash between
\* delivery and cleanup does not cause the message to be replayed on the next
\* recovery scan".
DeliveredIsNotReplayed ==
    \A r \in Recoveries : worker[r].at = "send" => worker[r].entry \notin sentOnce

\* server.impl.ts:785: "Recover pending outbound deliveries from previous
\* crash/restart": a recovery pass does not send what a delivery of the running
\* process is still sending.
RecoversOnlyTheAbandoned ==
    \A r \in Recoveries, e \in Entries :
        ~(worker[e] = Job("send", e) /\ worker[r] = Job("send", e))
=============================================================================
