----------------------- MODULE SessionWriteLockProofs -----------------------
(***************************************************************************)
(* Proofs about SessionWriteLock, for any processes, callers and bounds;   *)
(* that judgements are sound on a platform with start times and for holds  *)
(* that end before they are stale.                                         *)
(*                                                                         *)
(* Neither property is inductive.  What carries them is a book-keeping of  *)
(* who refers to which lock (Books), which holds whatever is stolen, and   *)
(* what the file says about the lock that is there (Named, Young, Kept).   *)
(***************************************************************************)
EXTENDS SessionWriteLock, FiniteSetTheorems, TLAPS

Sole  == {"write", "register", "undo", "close"}
Using == Sole \cup {"holding"}
Bound == Using \cup {"taken"}

Uses(c, l)   == client[c].lock = l /\ client[c].at \in Using
Refers(c, l) == client[c].lock = l /\ client[c].at \in Bound
Owns(p, l)   == (\E c \in Clients : ProcOf[c] = p /\ Refers(c, l)) \/ l \in closing[p]
Sharers(p)   == {c \in Clients : ProcOf[c] = p /\ At(c, "holding") /\ client[c].lock = held[p]}

Client == [at : {"idle", "open", "read", "stat", "remove"} \cup Bound, lock : Nat]

Types ==
    /\ up \subseteq Procs
    /\ held \in [Procs -> Nat] /\ count \in [Procs -> Nat]
    /\ client \in [Clients -> Client]
    /\ closing \in [Procs -> SUBSET Nat] /\ \A p \in Procs : IsFiniteSet(closing[p])

\* A dead process has neither holds nor calls.
Alive == /\ \A p \in Procs \ up : held[p] = 0 /\ closing[p] = {}
         /\ \A c \in Clients : ProcOf[c] \notin up => client[c].at = "idle"

Numbered == /\ \A c \in Clients : client[c].at \in Bound => client[c].lock # 0
            /\ \A p \in Procs : 0 \notin closing[p]

Counted == \A p \in Procs : held[p] # 0 => /\ count[p] = Cardinality(Sharers(p))
                                           /\ Sharers(p) # {}

OneOwner == \A p, q \in Procs : \A l \in Nat : Owns(p, l) /\ Owns(q, l) => p = q

\* Whoever creates or closes a lock is the only one that refers to it.
Exclusive == \A c \in Clients : client[c].at \in Sole =>
                /\ \A d \in Clients : d # c => ~Refers(d, client[c].lock)
                /\ \A p \in Procs : held[p] # client[c].lock /\ client[c].lock \notin closing[p]

Closed == \A p \in Procs : \A l \in closing[p] : \A c \in Clients : ~Uses(c, l)

\* A handle whose hold was taken stays void.
Void == \A c \in Clients : At(c, "taken") => held[ProcOf[c]] # client[c].lock

Books == Types /\ Alive /\ Numbered /\ Counted /\ OneOwner /\ Exclusive /\ Closed /\ Void

FileType == file \in [lock : Nat, by : Procs \cup {0}, life : Nat, old : BOOLEAN]

\* A payload names the process that still has business with the lock.
Named == \A p \in Procs : Owns(p, file.lock) /\ file.by # 0 => file.by = p /\ file.life = life[p]

Young == file.old => ~InUse(file.lock)

\* Until a theft the only lock in use is the one that is there.
Kept == ~stolen => \A l \in Nat : InUse(l) => file.lock = l

\* What a caller has condemned has no owner, whether it is still there or not.
Judged == \A c \in Clients : At(c, "remove") => ~InUse(client[c].lock)

Rest == /\ life \in [Procs -> Nat] /\ stolen \in BOOLEAN /\ events \in 0..MaxEvents
        /\ sweep \in [Procs -> {"done", "list", "read", "remove"}]

\* What holds on every platform, and what needs start times and short holds besides.
Base == Books /\ FileType /\ Kept /\ Rest
IInv == Base /\ Named /\ Young /\ Judged

-----------------------------------------------------------------------------
(* Locks and who uses them. *)

LEMMA InUseIs ==
    ASSUME NEW l
    PROVE  InUse(l) <=> (\E c \in Clients : Uses(c, l)) \/ (\E p \in Procs : l \in closing[p])
  BY DEF InUse, Uses, Using, Sole

LEMMA InUseIsNext ==
    ASSUME NEW l
    PROVE  InUse(l)' <=> (\E c \in Clients : Uses(c, l)') \/ (\E p \in Procs : l \in closing'[p])
  BY DEF InUse, Uses, Using, Sole

LEMMA InUseIsOwned ==
    ASSUME NEW l, InUse(l)
    PROVE  \E p \in Procs : Owns(p, l)
  BY InUseIs, SessionWriteLockAssumption DEF Uses, Refers, Owns, Bound

\* A hold is in use.
LEMMA HeldIsInUse ==
    ASSUME Books, NEW p \in Procs, held[p] # 0
    PROVE  /\ InUse(held[p]) /\ Owns(p, held[p])
           /\ \E c \in Clients : ProcOf[c] = p /\ At(c, "holding") /\ client[c].lock = held[p]
  BY InUseIs DEF Books, Counted, Sharers, Uses, Refers, Owns, Bound, Using, At

\* The image of a finite set is finite.
LEMMA ImageIsFinite ==
    ASSUME NEW S, IsFiniteSet(S), NEW f, DOMAIN f = S
    PROVE  IsFiniteSet({f[x] : x \in S})
<1> DEFINE T == {f[x] : x \in S}
           g == [x \in S |-> f[x]]
<1>1. g \in Surjection(S, T)
  BY DEF Surjection
<1> QED
  BY <1>1, FS_Surjection

\* The id of a new lock is that of no other.
LEMMA FreshIsNew ==
    ASSUME Books, FileType
    PROVE  /\ Fresh \in Nat \ {0}
           /\ Fresh # file.lock
           /\ \A p \in Procs : Fresh # held[p] /\ Fresh \notin closing[p]
           /\ \A c \in Clients : Fresh # client[c].lock
<1> DEFINE H == {held[p] : p \in Procs}
           C == {closing[p] : p \in Procs}
           locks == [c \in Clients |-> client[c].lock]
           L == {locks[c] : c \in Clients}
           N == Cardinality(Known)
<1>1. IsFiniteSet(H)
  BY ImageIsFinite, SessionWriteLockAssumption DEF Books, Types
<1>2. IsFiniteSet(C)
  BY ImageIsFinite, SessionWriteLockAssumption DEF Books, Types
<1>3. IsFiniteSet(UNION C)
  BY <1>2, FS_UNION DEF Books, Types
<1>4. IsFiniteSet(L)
  BY ImageIsFinite, SessionWriteLockAssumption
<1>5. Known = (({file.lock} \cup H) \cup L) \cup (UNION C)
  BY DEF Known
<1> HIDE DEF H, C, L
<1>6. IsFiniteSet(Known)
  <2>1. IsFiniteSet({file.lock})
    BY FS_Singleton
  <2>2. IsFiniteSet({file.lock} \cup H)
    BY <2>1, <1>1, FS_Union
  <2>3. IsFiniteSet(({file.lock} \cup H) \cup L)
    BY <2>2, <1>4, FS_Union
  <2> QED
    BY <2>3, <1>3, <1>5, FS_Union
<1>7. N \in Nat
  BY <1>6, FS_CardinalityType
<1>8. \E l \in 1..(N + 1) : l \notin Known
  <2>1. SUFFICES ASSUME 1..(N + 1) \subseteq Known PROVE FALSE
    OBVIOUS
  <2>2. Cardinality(1..(N + 1)) <= N
    BY <2>1, <1>6, FS_Subset
  <2>3. Cardinality(1..(N + 1)) = N + 1
    BY <1>7, FS_Interval
  <2> QED
    BY <2>2, <2>3, <1>7
<1>9. Fresh \in 1..(N + 1) /\ Fresh \notin Known
  BY <1>8 DEF Fresh
<1>10. Fresh \in Nat \ {0}
  BY <1>7, <1>9
<1>11. file.lock \in Known
  BY DEF Known
<1>12. \A p \in Procs : held[p] \in Known
  BY DEF Known
<1>13. \A p \in Procs : closing[p] \subseteq Known
  BY DEF Known
<1>14. \A c \in Clients : client[c].lock \in Known
  BY DEF Known
<1> QED
  BY <1>9, <1>10, <1>11, <1>12, <1>13, <1>14

-----------------------------------------------------------------------------
(* The books.  Nobody gets hold of a lock that was not his: *)

Shrinks == /\ \A l \in Nat : InUse(l)' => InUse(l)
           /\ \A p \in Procs, l \in Nat : Owns(p, l)' => Owns(p, l)

LEMMA ShrinksIf ==
    ASSUME \A d \in Clients : client[d].lock' \in Nat,
           \A d \in Clients, l \in Nat : Uses(d, l)' => InUse(l),
           \A d \in Clients, l \in Nat : Refers(d, l)' => Owns(ProcOf[d], l),
           \A p \in Procs : closing'[p] \subseteq closing[p]
    PROVE  Shrinks
<1>1. ASSUME NEW l \in Nat, InUse(l)' PROVE InUse(l)
  BY <1>1, InUseIsNext, InUseIs
<1>2. ASSUME NEW p \in Procs, NEW l \in Nat, Owns(p, l)' PROVE Owns(p, l)
  BY <1>2 DEF Owns
<1> QED
  BY <1>1, <1>2 DEF Shrinks

\* Nothing happens to a lock while a call goes about without one.
LEMMA QuietKeeps ==
    ASSUME Books, NEW c \in Clients, ProcOf[c] \in up, client[c].at \notin Bound,
           NEW r \in Client, r.at \notin Bound, client' = [client EXCEPT ![c] = r],
           UNCHANGED <<up, held, count, closing>>
    PROVE  Books' /\ Shrinks
<1>1. /\ client' \in [Clients -> Client] /\ client'[c] = r
      /\ \A d \in Clients : d # c => client'[d] = client[d]
  BY DEF Books, Types
<1>2. \A d \in Clients : \A l : (Refers(d, l)' <=> Refers(d, l)) /\ (Uses(d, l)' <=> Uses(d, l))
  BY <1>1 DEF Refers, Uses, Bound
<1>3. \A p \in Procs : \A l : Owns(p, l)' <=> Owns(p, l)
  BY <1>2 DEF Owns
<1>4. \A p \in Procs : Sharers(p)' = Sharers(p)
  BY <1>1 DEF Sharers, At, Bound, Using
<1>5. Types' /\ Alive'
  BY <1>1 DEF Books, Types, Alive
<1>6. Numbered'
  BY <1>1 DEF Books, Numbered
<1>7. Counted'
  BY <1>4 DEF Books, Counted
<1>8. OneOwner'
  BY <1>3 DEF Books, OneOwner
<1>9. Exclusive'
  BY <1>1, <1>2 DEF Books, Exclusive, Bound, Using
<1>10. Closed'
  BY <1>2 DEF Books, Closed
<1>11. Void'
  BY <1>1 DEF Books, Void, At, Bound
<1>12. Shrinks
  BY <1>2, <1>3, InUseIs, InUseIsNext DEF Shrinks
<1> QED
  BY <1>5, <1>6, <1>7, <1>8, <1>9, <1>10, <1>11, <1>12 DEF Books

\* A hold gets one more sharer.
LEMMA ShareKeeps ==
    ASSUME Books, NEW c \in Clients, At(c, "idle"), ProcOf[c] \in up, held[ProcOf[c]] # 0,
           client' = [client EXCEPT ![c] = [at |-> "holding", lock |-> held[ProcOf[c]]]],
           count' = [count EXCEPT ![ProcOf[c]] = @ + 1],
           UNCHANGED <<up, held, closing>>
    PROVE  Books' /\ Shrinks
<1> DEFINE p == ProcOf[c]
           r == [at |-> "holding", lock |-> held[p]]
<1>0. p \in Procs /\ held[p] \in Nat /\ r \in Client
  BY SessionWriteLockAssumption DEF Books, Types, Client, Bound, Using
<1>1. /\ client' \in [Clients -> Client] /\ client'[c] = r
      /\ \A d \in Clients : d # c => client'[d] = client[d]
  BY <1>0 DEF Books, Types
<1>2. /\ \A d \in Clients : \A l : Refers(d, l)' => Refers(d, l) \/ (d = c /\ l = held[p])
      /\ \A d \in Clients : \A l : Uses(d, l)' => Uses(d, l) \/ (d = c /\ l = held[p])
  BY <1>1 DEF Refers, Uses, Bound
<1>3. InUse(held[p]) /\ Owns(p, held[p])
  BY <1>0, HeldIsInUse
<1>4. PICK e \in Clients : ProcOf[e] = p /\ At(e, "holding") /\ client[e].lock = held[p]
  BY <1>0, HeldIsInUse
<1>5. Shrinks
  <2>1. \A d \in Clients, l \in Nat : Uses(d, l)' => InUse(l)
    BY <1>2, <1>3, InUseIs
  <2>2. \A d \in Clients, l \in Nat : Refers(d, l)' => Owns(ProcOf[d], l)
    BY <1>2, <1>3 DEF Owns
  <2> QED
    BY <1>1, <2>1, <2>2, ShrinksIf DEF Client
<1>6. Types' /\ Alive'
  BY <1>0, <1>1 DEF Books, Types, Alive
<1>7. Numbered'
  BY <1>1 DEF Books, Numbered
<1>8. Counted'
  <2>1. \A q \in Procs \ {p} : Sharers(q)' = Sharers(q) /\ count'[q] = count[q]
    BY <1>0, <1>1 DEF Sharers, At, Books, Types
  <2>2. Sharers(p)' = Sharers(p) \cup {c} /\ c \notin Sharers(p)
    BY <1>0, <1>1 DEF Sharers, At
  <2>3. IsFiniteSet(Sharers(p))
    BY SessionWriteLockAssumption, FS_Subset DEF Sharers
  <2>4. Cardinality(Sharers(p)') = Cardinality(Sharers(p)) + 1
    BY <2>2, <2>3, FS_AddElement
  <2>5. count'[p] = count[p] + 1
    BY <1>0 DEF Books, Types
  <2> QED
    BY <2>1, <2>2, <2>4, <2>5 DEF Books, Counted
<1>9. OneOwner'
  BY <1>5 DEF Shrinks, Books, OneOwner
<1>10. Exclusive'
  <2>1. ASSUME NEW d \in Clients, client'[d].at \in Sole
        PROVE  /\ d # c /\ client'[d] = client[d] /\ client[d].lock # held[p]
    BY <2>1, <1>0, <1>1 DEF Books, Exclusive, Sole
  <2> QED
    BY <2>1, <1>2 DEF Books, Exclusive
<1>11. Closed'
  <2>1. \A q \in Procs : held[p] \notin closing[q]
    BY <1>4 DEF Books, Closed, Uses, Using, At
  <2> QED
    BY <2>1, <1>2 DEF Books, Closed
<1>12. Void'
  BY <1>1 DEF Books, Void, At
<1> QED
  BY <1>5, <1>6, <1>7, <1>8, <1>9, <1>10, <1>11, <1>12 DEF Books

\* A new lock has one user, and its id was unused.
LEMMA CreateKeeps ==
    ASSUME Books, FileType, NEW c \in Clients, At(c, "open"),
           client' = [client EXCEPT ![c] = [at |-> "write", lock |-> Fresh]],
           UNCHANGED <<up, held, count, closing>>
    PROVE  /\ Books'
           /\ \A l \in Nat : InUse(l)' => InUse(l) \/ l = Fresh
<1> DEFINE r == [at |-> "write", lock |-> Fresh]
<1>0. /\ Fresh \in Nat \ {0} /\ r \in Client
      /\ \A p \in Procs : Fresh # held[p] /\ Fresh \notin closing[p]
      /\ \A d \in Clients : Fresh # client[d].lock
  BY FreshIsNew DEF Client, Bound, Using, Sole
<1> HIDE DEF r
<1>1. /\ client' \in [Clients -> Client] /\ client'[c] = r
      /\ r.at = "write" /\ r.lock = Fresh
      /\ \A d \in Clients : d # c => client'[d] = client[d]
  BY <1>0 DEF Books, Types, r
<1>2. /\ \A d \in Clients : \A l : Refers(d, l)' <=> Refers(d, l) \/ (d = c /\ l = Fresh)
      /\ \A d \in Clients : \A l : Uses(d, l)' <=> Uses(d, l) \/ (d = c /\ l = Fresh)
  BY <1>1 DEF Refers, Uses, Bound, Using, Sole, At
<1>3. \A p \in Procs : \A l : Owns(p, l)' <=> Owns(p, l) \/ (p = ProcOf[c] /\ l = Fresh)
  BY <1>2 DEF Owns
<1>4. \A p \in Procs : ~Owns(p, Fresh)
  BY <1>0 DEF Owns, Refers
<1>5. Types' /\ Alive'
  BY <1>1 DEF Books, Types, Alive, At
<1>6. Numbered'
  BY <1>0, <1>1 DEF Books, Numbered
<1>7. Counted'
  <2>1. \A p \in Procs : Sharers(p)' = Sharers(p)
    BY <1>1 DEF Sharers, At
  <2> QED
    BY <2>1 DEF Books, Counted
<1>8. OneOwner'
  BY <1>3, <1>4 DEF Books, OneOwner
<1>9. Exclusive'
  <2>1. ASSUME NEW d \in Clients, client'[d].at \in Sole, d # c
        PROVE  /\ \A l : l = client[d].lock => \A e \in Clients : e # d => ~Refers(e, l)'
               /\ \A p \in Procs : held[p] # client[d].lock /\ client[d].lock \notin closing[p]
    BY <2>1, <1>0, <1>1, <1>2 DEF Books, Exclusive
  <2>2. /\ \A l : l = Fresh => \A e \in Clients : e # c => ~Refers(e, l)'
        /\ \A p \in Procs : held[p] # Fresh /\ Fresh \notin closing[p]
    BY <1>0, <1>2 DEF Refers
  <2> QED
    BY <2>1, <2>2, <1>1 DEF Exclusive, Refers
<1>10. Closed'
  BY <1>0, <1>2 DEF Books, Closed
<1>11. Void'
  BY <1>1 DEF Books, Void, At
<1>12. \A l \in Nat : InUse(l)' => InUse(l) \/ l = Fresh
  BY <1>2, InUseIs, InUseIsNext
<1> QED
  BY <1>5, <1>6, <1>7, <1>8, <1>9, <1>10, <1>11, <1>12 DEF Books

\* The creator or closer of a lock goes from one stage to the next.
LEMMA SoleMovesOn ==
    ASSUME Books, NEW c \in Clients, client[c].at \in Sole, NEW a \in Sole, Goes(c, a),
           UNCHANGED <<up, held, count, closing>>
    PROVE  Books' /\ Shrinks
<1>1. /\ client' \in [Clients -> Client] /\ client'[c].at = a /\ client'[c].lock = client[c].lock
      /\ \A d \in Clients : d # c => client'[d] = client[d]
  BY DEF Books, Types, Goes, Client, Bound, Using
<1>2. \A d \in Clients : \A l : (Refers(d, l)' <=> Refers(d, l)) /\ (Uses(d, l)' <=> Uses(d, l))
  BY <1>1 DEF Refers, Uses, Bound, Using
<1>3. \A p \in Procs : \A l : Owns(p, l)' <=> Owns(p, l)
  BY <1>2 DEF Owns
<1>4. \A p \in Procs : Sharers(p)' = Sharers(p)
  BY <1>1 DEF Sharers, At, Sole
<1>5. Types' /\ Alive'
  BY <1>1 DEF Books, Types, Alive, Sole
<1>6. Numbered'
  BY <1>1 DEF Books, Numbered, Bound, Using
<1>7. Counted'
  BY <1>4 DEF Books, Counted
<1>8. OneOwner'
  BY <1>3 DEF Books, OneOwner
<1>9. Exclusive'
  BY <1>1, <1>2 DEF Books, Exclusive
<1>10. Closed'
  BY <1>2 DEF Books, Closed
<1>11. Void'
  BY <1>1 DEF Books, Void, At, Sole
<1>12. Shrinks
  BY <1>2, <1>3, InUseIs, InUseIsNext DEF Shrinks
<1> QED
  BY <1>5, <1>6, <1>7, <1>8, <1>9, <1>10, <1>11, <1>12 DEF Books

\* A call without a hold that it shares lets go of its lock.
LEMMA LeavesKeeps ==
    ASSUME Books, NEW c \in Clients, client[c].at \in Bound,
           client[c].at = "holding" => held[ProcOf[c]] # client[c].lock,
           client' = [client EXCEPT ![c] = Idle],
           UNCHANGED <<up, held, count, closing>>
    PROVE  /\ Books' /\ Shrinks
           /\ client[c].at \in Sole => \A l : l = client[c].lock => ~InUse(l)'
<1>1. /\ client' \in [Clients -> Client] /\ client'[c].at = "idle" /\ client'[c].lock = 0
      /\ \A d \in Clients : d # c => client'[d] = client[d]
  BY DEF Books, Types, Idle, Client, Bound, Using
<1>2. \A d \in Clients : \A l : /\ Refers(d, l)' <=> Refers(d, l) /\ d # c
                                /\ Uses(d, l)' <=> Uses(d, l) /\ d # c
  BY <1>1 DEF Refers, Uses, Bound, Using, Sole
<1>3. \A p \in Procs : \A l : Owns(p, l)' => Owns(p, l)
  BY <1>2 DEF Owns
<1>4. \A p \in Procs : Sharers(p)' = Sharers(p)
  BY <1>1 DEF Sharers, At
<1>5. Types' /\ Alive'
  BY <1>1 DEF Books, Types, Alive
<1>6. Numbered'
  BY <1>1 DEF Books, Numbered, Bound, Using, Sole
<1>7. Counted'
  BY <1>4 DEF Books, Counted
<1>8. OneOwner'
  BY <1>3 DEF Books, OneOwner
<1>9. Exclusive'
  BY <1>1, <1>2 DEF Books, Exclusive, Sole
<1>10. Closed'
  BY <1>2 DEF Books, Closed
<1>11. Void'
  BY <1>1 DEF Books, Void, At
<1>12. Shrinks
  BY <1>2, <1>3, InUseIs, InUseIsNext DEF Shrinks
<1>13. ASSUME client[c].at \in Sole, NEW l, l = client[c].lock PROVE ~InUse(l)'
  <2>1. \A d \in Clients : ~Uses(d, l)'
    BY <1>13, <1>2 DEF Books, Exclusive, Refers, Uses, Bound
  <2>2. \A p \in Procs : l \notin closing'[p]
    BY <1>13 DEF Books, Exclusive
  <2> QED
    BY <2>1, <2>2, InUseIsNext
<1> QED
  BY <1>5, <1>6, <1>7, <1>8, <1>9, <1>10, <1>11, <1>12, <1>13 DEF Books

LEMMA RegisterKeeps ==
    ASSUME Books, NEW c \in Clients, Register(c)
    PROVE  Books' /\ Shrinks
<1> DEFINE p == ProcOf[c]
<1>0. p \in Procs /\ client[c].at = "register" /\ client[c] \in Client
  BY SessionWriteLockAssumption DEF Register, At, Books, Types
<1>1. /\ client' \in [Clients -> Client] /\ client'[c].at = "holding"
      /\ client'[c].lock = client[c].lock
      /\ \A d \in Clients : d # c => client'[d] = client[d]
  BY DEF Register, Books, Types, Goes, Client, Bound, Using
<1>2. \A d \in Clients : \A l : (Refers(d, l)' <=> Refers(d, l)) /\ (Uses(d, l)' <=> Uses(d, l))
  BY <1>0, <1>1 DEF Refers, Uses, Bound, Using, Sole
<1>3. /\ held'[p] = client[c].lock /\ count'[p] = 1 /\ closing' = closing /\ up' = up
      /\ \A q \in Procs : q # p => held'[q] = held[q] /\ count'[q] = count[q]
      /\ held' \in [Procs -> Nat] /\ count' \in [Procs -> Nat]
  BY <1>0 DEF Register, Books, Types, Client
<1>4. \A p2 \in Procs : \A l : Owns(p2, l)' <=> Owns(p2, l)
  BY <1>2, <1>3 DEF Owns
<1>5. /\ \A d \in Clients : d # c => ~Refers(d, client[c].lock)
      /\ \A q \in Procs : client[c].lock \notin closing[q]
  BY <1>0 DEF Books, Exclusive, Sole
<1>6. Types' /\ Alive'
  BY <1>0, <1>1, <1>3 DEF Books, Types, Alive
<1>7. Numbered'
  BY <1>0, <1>1, <1>3 DEF Books, Numbered, Bound, Using, Sole
<1>8. Counted'
  <2>1. \A q \in Procs \ {p} : Sharers(q)' = Sharers(q)
    BY <1>1, <1>3 DEF Sharers, At
  <2>2. Sharers(p)' = {c}
    BY <1>1, <1>3, <1>5 DEF Sharers, At, Refers, Bound, Using
  <2>3. Cardinality({c}) = 1
    BY FS_Singleton
  <2> QED
    BY <2>1, <2>2, <2>3, <1>3 DEF Books, Counted
<1>9. OneOwner'
  BY <1>4 DEF Books, OneOwner
<1>10. Exclusive'
  <2>1. ASSUME NEW d \in Clients, client'[d].at \in Sole
        PROVE  /\ client'[d] = client[d] /\ client[d].lock # client[c].lock
               /\ client[d].at \in Sole
    BY <2>1, <1>1, <1>5 DEF Sole, Refers, Bound, Using
  <2> QED
    BY <2>1, <1>2, <1>3 DEF Books, Exclusive
<1>11. Closed'
  BY <1>2, <1>3 DEF Books, Closed
<1>12. Void'
  <2>1. ASSUME NEW d \in Clients, client'[d].at = "taken"
        PROVE  held'[ProcOf[d]] # client'[d].lock
    <3>1. d # c /\ client'[d] = client[d] /\ ProcOf[d] \in Procs
      BY <2>1, <1>1, SessionWriteLockAssumption
    <3>2. client[d].lock # client[c].lock
      BY <2>1, <3>1, <1>5 DEF Refers, Bound
    <3> QED
      BY <2>1, <3>1, <3>2, <1>3 DEF Books, Void, At
  <2> QED
    BY <2>1 DEF Void, At
<1>13. Shrinks
  BY <1>2, <1>3, <1>4, InUseIs, InUseIsNext DEF Shrinks
<1> QED
  BY <1>6, <1>7, <1>8, <1>9, <1>10, <1>11, <1>12, <1>13 DEF Books

LEMMA RemoveOne ==
    ASSUME NEW S, IsFiniteSet(S), NEW x \in S
    PROVE  /\ Cardinality(S \ {x}) = Cardinality(S) - 1
           /\ Cardinality(S) = 1 => S = {x}
<1>1. Cardinality(S \ {x}) = Cardinality(S) - 1
  BY FS_RemoveElement
<1>2. IsFiniteSet(S) => (Cardinality(S) = 1 <=> \E y : S = {y})
  BY FS_Singleton
<1> QED
  BY <1>1, <1>2

\* One of several sharers leaves, and the last one closes the file.
LEMMA ReleaseKeeps ==
    ASSUME Books, NEW c \in Clients, Release(c)
    PROVE  Books' /\ Shrinks
<1> DEFINE p == ProcOf[c]
<1>0. p \in Procs /\ client[c].at \in {"holding", "taken"} /\ client[c] \in Client
  BY SessionWriteLockAssumption DEF Release, Books, Types
<1>1. CASE ~Shares(c)
  <2>1. p \in up
    BY <1>0 DEF Books, Alive
  <2>2. held[p] # client[c].lock
    BY <1>1, <2>1 DEF Shares
  <2> QED
    BY <1>0, <1>1, <2>2, LeavesKeeps DEF Release, Bound, Using
<1>2. CASE Shares(c)
  <2>0. /\ client[c].at = "holding" /\ held[p] = client[c].lock /\ held[p] # 0 /\ held[p] \in Nat
        /\ c \in Sharers(p) /\ count[p] \in Nat /\ count[p] = Cardinality(Sharers(p))
    BY <1>0, <1>2 DEF Shares, Books, Types, Void, Numbered, Counted, Sharers, At, Bound, Using
  <2>f. IsFiniteSet(Sharers(p))
    BY SessionWriteLockAssumption, FS_Subset DEF Sharers
  <2>1. CASE count[p] # 1
    <3>1. /\ client' \in [Clients -> Client] /\ client'[c].at = "idle" /\ client'[c].lock = 0
          /\ \A d \in Clients : d # c => client'[d] = client[d]
      BY <1>2, <2>1 DEF Release, Books, Types, Idle, Client
    <3>2. \A d \in Clients : \A l : /\ Refers(d, l)' <=> Refers(d, l) /\ d # c
                                    /\ Uses(d, l)' <=> Uses(d, l) /\ d # c
      BY <3>1 DEF Refers, Uses, Bound, Using, Sole
    <3>3. /\ count' = [count EXCEPT ![p] = @ - 1] /\ held' = held /\ closing' = closing /\ up' = up
      BY <1>2, <2>1 DEF Release
    <3>4. \A q \in Procs : \A l : Owns(q, l)' => Owns(q, l)
      BY <3>2, <3>3 DEF Owns
    <3>5. Sharers(p)' = Sharers(p) \ {c} /\ \A q \in Procs \ {p} : Sharers(q)' = Sharers(q)
      BY <3>1, <3>3 DEF Sharers, At
    <3>6. Cardinality(Sharers(p) \ {c}) = Cardinality(Sharers(p)) - 1 /\ Sharers(p) \ {c} # {}
      <4>1. Cardinality(Sharers(p) \ {c}) = Cardinality(Sharers(p)) - 1
        BY <2>0, <2>f, RemoveOne, Zenon
      <4>2. Cardinality({}) = 0
        BY FS_EmptySet
      <4>3. Cardinality(Sharers(p)) \in Nat /\ Cardinality(Sharers(p)) # 1
        BY <2>0, <2>1
      <4>4. Cardinality(Sharers(p) \ {c}) # 0
        BY <4>1, <4>3
      <4>5. Sharers(p) \ {c} # {}
        BY <4>2, <4>4
      <4> QED
        BY <4>1, <4>5
    <3>7. count[p] - 1 \in Nat
      BY <2>0, <2>f, FS_EmptySet
    <3>8. Types' /\ Alive'
      BY <3>1, <3>3, <3>7, <1>0 DEF Books, Types, Alive
    <3>9. Numbered'
      BY <3>1, <3>3 DEF Books, Numbered, Bound, Using, Sole
    <3>10. Counted'
      BY <3>3, <3>5, <3>6, <2>0, <1>0 DEF Books, Counted, Types
    <3>11. OneOwner'
      BY <3>4 DEF Books, OneOwner
    <3>12. Exclusive'
      BY <3>1, <3>2, <3>3 DEF Books, Exclusive, Sole
    <3>13. Closed'
      BY <3>2, <3>3 DEF Books, Closed
    <3>14. Void'
      BY <3>1, <3>3 DEF Books, Void, At
    <3>15. Shrinks
      BY <3>2, <3>3, <3>4, InUseIs, InUseIsNext DEF Shrinks
    <3> QED
      BY <3>8, <3>9, <3>10, <3>11, <3>12, <3>13, <3>14, <3>15 DEF Books
  <2>2. CASE count[p] = 1
    <3>1. /\ client' \in [Clients -> Client] /\ client'[c].at = "close"
          /\ client'[c].lock = client[c].lock
          /\ \A d \in Clients : d # c => client'[d] = client[d]
      BY <1>2, <2>2 DEF Release, Goes, Books, Types, Client, Bound, Using, Sole
    <3>2. \A d \in Clients : \A l : (Refers(d, l)' <=> Refers(d, l)) /\ (Uses(d, l)' <=> Uses(d, l))
      BY <3>1, <2>0 DEF Refers, Uses, Bound, Using, Sole
    <3>3. /\ held'[p] = 0 /\ closing' = closing /\ up' = up
          /\ \A q \in Procs : q # p => held'[q] = held[q] /\ count'[q] = count[q]
          /\ held' \in [Procs -> Nat] /\ count' \in [Procs -> Nat]
      BY <1>0, <1>2, <2>2 DEF Release, Books, Types
    <3>4. \A q \in Procs : \A l : Owns(q, l)' <=> Owns(q, l)
      BY <3>2, <3>3 DEF Owns
    <3>5. Sharers(p) = {c}
      BY <2>0, <2>2, <2>f, RemoveOne
    <3>6. \A d \in Clients : Refers(d, client[c].lock) => d = c
      <4>1. ASSUME NEW d \in Clients, Refers(d, client[c].lock), d # c PROVE FALSE
        <5>1. ProcOf[d] \in Procs /\ Owns(ProcOf[d], held[p]) /\ Owns(p, held[p])
          BY <4>1, <1>0, <2>0, SessionWriteLockAssumption DEF Owns, Refers, Bound, Using
        <5>2. ProcOf[d] = p
          BY <5>1, <1>0, <2>0 DEF Books, OneOwner
        <5>3. client[d].at # "holding"
          BY <5>2, <4>1, <2>0, <3>5 DEF Sharers, At, Refers
        <5>4. client[d].at # "taken"
          BY <5>2, <4>1, <2>0 DEF Books, Void, At, Refers
        <5>5. client[d].at \notin Sole
          BY <4>1, <1>0, <2>0 DEF Books, Exclusive, Refers
        <5> QED
          BY <4>1, <5>3, <5>4, <5>5 DEF Refers, Bound, Using
      <4> QED
        BY <4>1
    <3>7. \A q \in Procs : held'[q] # client[c].lock /\ client[c].lock \notin closing[q]
      <4>1. ASSUME NEW q \in Procs, held[q] = held[p] PROVE q = p
        BY <4>1, <1>0, <2>0, HeldIsInUse DEF Books, OneOwner
      <4>2. \A q \in Procs : held[p] \notin closing[q]
        BY <2>0 DEF Books, Closed, Uses, Using
      <4> QED
        BY <4>1, <4>2, <3>3, <2>0
    <3>8. Types' /\ Alive'
      BY <3>1, <3>3, <1>0, <2>0 DEF Books, Types, Alive
    <3>9. Numbered'
      BY <3>1, <3>3, <2>0 DEF Books, Numbered
    <3>10. Counted'
      <4>1. \A q \in Procs \ {p} : Sharers(q)' = Sharers(q)
        BY <3>1, <3>3 DEF Sharers, At
      <4> QED
        BY <4>1, <3>3 DEF Books, Counted
    <3>11. OneOwner'
      BY <3>4 DEF Books, OneOwner
    <3>12. Exclusive'
      <4>1. \A d \in Clients : d # c => ~Refers(d, client[c].lock)
        BY <3>6
      <4>2. ASSUME NEW d \in Clients, client'[d].at \in Sole, d # c
            PROVE  /\ client'[d] = client[d]
                   /\ \A e \in Clients : e # d => ~Refers(e, client[d].lock)
                   /\ \A q \in Procs : held'[q] # client[d].lock /\ client[d].lock \notin closing[q]
        BY <4>2, <3>1, <3>3, <1>0 DEF Books, Exclusive, Numbered, Bound, Using
      <4> QED
        BY <4>1, <4>2, <3>1, <3>2, <3>3, <3>7 DEF Exclusive
    <3>13. Closed'
      BY <3>2, <3>3 DEF Books, Closed
    <3>14. Void'
      <4>1. ASSUME NEW d \in Clients, client'[d].at = "taken"
            PROVE  held'[ProcOf[d]] # client'[d].lock
        <5>1. d # c /\ client'[d] = client[d] /\ ProcOf[d] \in Procs /\ client[d].lock # 0
          BY <4>1, <3>1, SessionWriteLockAssumption DEF Books, Numbered, Bound
        <5> QED
          BY <4>1, <5>1, <3>3 DEF Books, Void, At
      <4> QED
        BY <4>1 DEF Void, At
    <3>15. Shrinks
      BY <3>2, <3>3, <3>4, InUseIs, InUseIsNext DEF Shrinks
    <3> QED
      BY <3>8, <3>9, <3>10, <3>11, <3>12, <3>13, <3>14, <3>15 DEF Books
  <2> QED
    BY <2>1, <2>2
<1> QED
  BY <1>1, <1>2

\* A hold is taken from its sharers, by the watchdog (X is the lock) or by a signal (X is empty).
LEMMA TakeKeeps ==
    ASSUME Books, NEW p \in Procs, held[p] # 0, NEW X, X = {} \/ X = {held[p]}, Takes(p),
           held' = [held EXCEPT ![p] = 0], count' = [count EXCEPT ![p] = 0],
           closing' = [closing EXCEPT ![p] = @ \cup X], up' = up
    PROVE  /\ Books' /\ Shrinks
           /\ X = {} => \A l : l = held[p] => ~InUse(l)'
<1>0. p \in up /\ held[p] \in Nat
  BY DEF Books, Types, Alive
<1>1. /\ \A d \in Sharers(p) : /\ client'[d].at = "taken" /\ client'[d].lock = held[p]
                               /\ client'[d] \in Client
      /\ \A d \in Clients \ Sharers(p) : client'[d].at = client[d].at /\ client'[d].lock = client[d].lock
                                         /\ (client'[d] = client[d] \/ At(d, "holding"))
      /\ client' \in [Clients -> Client]
  BY <1>0 DEF Takes, Sharers, Shares, At, Books, Types, Client, Bound, Using
<1>2. /\ held'[p] = 0 /\ closing'[p] = closing[p] \cup X
      /\ \A q \in Procs : q # p => held'[q] = held[q] /\ count'[q] = count[q] /\ closing'[q] = closing[q]
      /\ held' \in [Procs -> Nat] /\ count' \in [Procs -> Nat]
  BY DEF Books, Types
<1>3. \A d \in Clients : \A l : /\ Refers(d, l)' <=> Refers(d, l)
                                /\ Uses(d, l)' <=> Uses(d, l) /\ d \notin Sharers(p)
  BY <1>1 DEF Refers, Uses, Bound, Using, Sole, Sharers, At
<1>4. \A d \in Clients : Uses(d, held[p]) => d \in Sharers(p)
  <2>1. ASSUME NEW d \in Clients, Uses(d, held[p]) PROVE d \in Sharers(p)
    <3>1. ProcOf[d] \in Procs /\ Owns(ProcOf[d], held[p]) /\ Owns(p, held[p])
      BY <2>1, HeldIsInUse, SessionWriteLockAssumption DEF Owns, Uses, Refers, Bound
    <3>2. ProcOf[d] = p
      BY <3>1, <1>0 DEF Books, OneOwner
    <3>3. client[d].at \notin Sole
      BY <2>1 DEF Books, Exclusive, Uses
    <3> QED
      BY <2>1, <3>2, <3>3 DEF Uses, Using, Sharers, At
  <2> QED
    BY <2>1
<1>5. \A q \in Procs : \A l : Owns(q, l)' => Owns(q, l)
  BY <1>2, <1>3, HeldIsInUse DEF Owns
<1>6. Types' /\ Alive'
  <2>1. IsFiniteSet(closing[p] \cup X)
    BY FS_Union, FS_Singleton, FS_EmptySet DEF Books, Types
  <2>2. closing[p] \cup X \in SUBSET Nat
    BY <1>0 DEF Books, Types
  <2>3. closing' \in [Procs -> SUBSET Nat]
    BY <2>2 DEF Books, Types
  <2>4. \A q \in Procs : IsFiniteSet(closing'[q])
    BY <1>2, <2>1 DEF Books, Types
  <2>5. Types'
    BY <1>1, <1>2, <2>3, <2>4 DEF Books, Types
  <2>6. \A d \in Clients : ProcOf[d] \notin up => client'[d].at = "idle"
    BY <1>0, <1>1 DEF Books, Alive, Sharers
  <2>7. \A q \in Procs \ up : held'[q] = 0 /\ closing'[q] = {}
    BY <1>0, <1>2 DEF Books, Alive
  <2> QED
    BY <2>5, <2>6, <2>7 DEF Alive
<1>7. Numbered'
  <2>1. \A d \in Clients : client'[d].at \in Bound => client'[d].lock # 0
    BY <1>1 DEF Books, Numbered
  <2>2. \A q \in Procs : 0 \notin closing'[q]
    BY <1>2 DEF Books, Numbered
  <2> QED
    BY <2>1, <2>2 DEF Numbered
<1>8. Counted'
  <2>1. \A q \in Procs \ {p} : Sharers(q)' = Sharers(q)
    BY <1>1, <1>2 DEF Sharers, At
  <2> QED
    BY <2>1, <1>2 DEF Books, Counted
<1>9. OneOwner'
  BY <1>5 DEF Books, OneOwner
<1>10. Exclusive'
  <2>1. ASSUME NEW d \in Clients, client'[d].at \in Sole
        PROVE  /\ client'[d].lock = client[d].lock /\ client[d].lock # 0
               /\ \A e \in Clients : e # d => ~Refers(e, client[d].lock)
               /\ \A q \in Procs : held[q] # client[d].lock /\ client[d].lock \notin closing[q]
    <3>1. d \notin Sharers(p)
      BY <2>1, <1>1 DEF Sole
    <3> QED
      BY <2>1, <3>1, <1>1 DEF Books, Exclusive, Numbered, Bound, Using
  <2> QED
    BY <2>1, <1>2, <1>3 DEF Exclusive
<1>11. Closed'
  <2>1. ASSUME NEW q \in Procs, NEW l \in closing'[q], NEW d \in Clients PROVE ~Uses(d, l)'
    <3>1. CASE l \in closing[q]
      BY <3>1, <1>3 DEF Books, Closed
    <3>2. CASE l = held[p]
      BY <3>2, <1>3, <1>4
    <3> QED
      BY <2>1, <3>1, <3>2, <1>2
  <2> QED
    BY <2>1 DEF Closed
<1>12. Void'
  <2>1. ASSUME NEW d \in Clients, client'[d].at = "taken"
        PROVE  held'[ProcOf[d]] # client'[d].lock
    <3>1. ProcOf[d] \in Procs /\ client'[d].lock # 0
      BY <2>1, <1>7, SessionWriteLockAssumption DEF Numbered, Bound
    <3>2. CASE d \in Sharers(p)
      BY <3>1, <3>2, <1>2 DEF Sharers
    <3>3. CASE d \notin Sharers(p)
      BY <2>1, <3>1, <3>3, <1>1, <1>2 DEF Books, Void, At
    <3> QED
      BY <3>2, <3>3
  <2> QED
    BY <2>1 DEF Void, At
<1>13. \A l \in Nat : InUse(l)' => InUse(l)
  <2>1. ASSUME NEW l \in Nat, InUse(l)' PROVE InUse(l)
    <3>1. CASE \E d \in Clients : Uses(d, l)'
      BY <3>1, <1>3, InUseIs
    <3>2. CASE \E q \in Procs : l \in closing'[q]
      BY <3>2, <1>2, InUseIs, HeldIsInUse
    <3> QED
      BY <2>1, <3>1, <3>2, InUseIsNext
  <2> QED
    BY <2>1
<1>14. ASSUME X = {}, NEW l, l = held[p] PROVE ~InUse(l)'
  <2>1. \A d \in Clients : ~Uses(d, l)'
    BY <1>14, <1>3, <1>4
  <2>2. \A q \in Procs : l \notin closing'[q]
    <3>1. PICK d \in Clients : ProcOf[d] = p /\ At(d, "holding") /\ client[d].lock = held[p]
      BY HeldIsInUse
    <3> QED
      BY <3>1, <1>14, <1>2 DEF Books, Closed, Uses, Using, At
  <2> QED
    BY <2>1, <2>2, InUseIsNext
<1> QED
  BY <1>5, <1>6, <1>7, <1>8, <1>9, <1>10, <1>11, <1>12, <1>13, <1>14 DEF Books, Shrinks

LEMMA UnlinksKeeps ==
    ASSUME Books, NEW p \in Procs, NEW k \in closing[p],
           closing' = [closing EXCEPT ![p] = @ \ {k}], UNCHANGED <<up, held, count, client>>
    PROVE  /\ Books' /\ Shrinks
           /\ ~InUse(k)'
<1>1. /\ closing'[p] = closing[p] \ {k} /\ \A q \in Procs : q # p => closing'[q] = closing[q]
      /\ closing' \in [Procs -> SUBSET Nat] /\ k \in Nat
  BY DEF Books, Types
<1>2. \A d \in Clients : \A l : (Refers(d, l)' <=> Refers(d, l)) /\ (Uses(d, l)' <=> Uses(d, l))
  BY DEF Refers, Uses
<1>3. \A q \in Procs : \A l : Owns(q, l)' => Owns(q, l)
  BY <1>1, <1>2 DEF Owns
<1>4. \A q \in Procs : IsFiniteSet(closing'[q])
  BY <1>1, FS_Subset DEF Books, Types
<1>5. Types' /\ Alive'
  BY <1>1, <1>4 DEF Books, Types, Alive
<1>6. Numbered' /\ Closed' /\ Void'
  BY <1>1, <1>2 DEF Books, Numbered, Closed, Void, At
<1>7. Counted'
  <2>1. \A q \in Procs : Sharers(q)' = Sharers(q)
    BY DEF Sharers, At
  <2> QED
    BY <2>1 DEF Books, Counted
<1>8. OneOwner'
  BY <1>3 DEF Books, OneOwner
<1>9. Exclusive'
  BY <1>1, <1>2 DEF Books, Exclusive
<1>10. \A l \in Nat : InUse(l)' => InUse(l)
  BY <1>1, <1>2, InUseIs, InUseIsNext
<1>11. ~InUse(k)'
  <2>1. \A d \in Clients : ~Uses(d, k)'
    BY <1>2 DEF Books, Closed
  <2>2. \A q \in Procs : k \notin closing'[q]
    BY <1>1 DEF Books, OneOwner, Owns
  <2> QED
    BY <2>1, <2>2, InUseIsNext
<1> QED
  BY <1>3, <1>5, <1>6, <1>7, <1>8, <1>9, <1>10, <1>11 DEF Books, Shrinks

\* A process dies.
LEMMA DeathKeeps ==
    ASSUME Books, NEW p \in Procs, Dies(p),
           held' = [held EXCEPT ![p] = 0], count' = [count EXCEPT ![p] = 0]
    PROVE  /\ Books' /\ Shrinks
           /\ \A l \in Nat : l # 0 /\ l = held[p] => ~InUse(l)'
<1>1. /\ client' \in [Clients -> Client] /\ up' = up \ {p}
      /\ \A d \in Clients : ProcOf[d] # p => client'[d] = client[d]
      /\ \A d \in Clients : ProcOf[d] = p => client'[d].at = "idle" /\ client'[d].lock = 0
  BY DEF Dies, Books, Types, Idle, Client
<1>2. /\ held'[p] = 0 /\ closing'[p] = {}
      /\ \A q \in Procs : q # p => held'[q] = held[q] /\ count'[q] = count[q] /\ closing'[q] = closing[q]
      /\ held' \in [Procs -> Nat] /\ count' \in [Procs -> Nat] /\ closing' \in [Procs -> SUBSET Nat]
  BY DEF Dies, Books, Types
<1>3. \A d \in Clients : \A l : /\ Refers(d, l)' <=> Refers(d, l) /\ ProcOf[d] # p
                                /\ Uses(d, l)' <=> Uses(d, l) /\ ProcOf[d] # p
  BY <1>1 DEF Refers, Uses, Bound, Using, Sole
<1>4. \A q \in Procs : \A l : Owns(q, l)' => Owns(q, l) /\ q # p
  BY <1>2, <1>3 DEF Owns
<1>5. Types' /\ Alive'
  BY <1>1, <1>2, FS_EmptySet DEF Books, Types, Alive
<1>6. Numbered' /\ Closed'
  BY <1>1, <1>2, <1>3 DEF Books, Numbered, Closed, Bound, Using, Sole
<1>7. Counted'
  <2>1. \A q \in Procs \ {p} : Sharers(q)' = Sharers(q)
    BY <1>1, <1>2 DEF Sharers, At
  <2> QED
    BY <2>1, <1>2 DEF Books, Counted
<1>8. OneOwner'
  BY <1>4 DEF Books, OneOwner
<1>9. Exclusive'
  <2>1. ASSUME NEW d \in Clients, client'[d].at \in Sole
        PROVE  /\ client'[d] = client[d] /\ client[d].lock # 0
               /\ \A e \in Clients : e # d => ~Refers(e, client[d].lock)
               /\ \A q \in Procs : held[q] # client[d].lock /\ client[d].lock \notin closing[q]
    BY <2>1, <1>1 DEF Books, Exclusive, Numbered, Sole, Bound, Using
  <2> QED
    BY <2>1, <1>2, <1>3 DEF Exclusive
<1>10. Void'
  BY <1>1, <1>2, SessionWriteLockAssumption DEF Books, Void, At
<1>11. \A l \in Nat : InUse(l)' => InUse(l)
  BY <1>2, <1>3, InUseIs, InUseIsNext
<1>12. ASSUME NEW l \in Nat, l # 0, l = held[p] PROVE ~InUse(l)'
  <2>1. Owns(p, l)
    BY <1>12, HeldIsInUse
  <2>2. \A q \in Procs : ~Owns(q, l)'
    BY <2>1, <1>4 DEF Books, OneOwner
  <2>3. \A d \in Clients : ~Uses(d, l)'
    BY <2>2, SessionWriteLockAssumption DEF Owns, Uses, Refers, Bound
  <2>4. \A q \in Procs : l \notin closing'[q]
    BY <2>2 DEF Owns
  <2> QED
    BY <2>3, <2>4, InUseIsNext
<1> QED
  BY <1>4, <1>5, <1>6, <1>7, <1>8, <1>9, <1>10, <1>11, <1>12 DEF Books, Shrinks

LEMMA RestartKeeps ==
    ASSUME Books, NEW p \in Procs, up' = up \cup {p}, UNCHANGED <<held, count, client, closing>>
    PROVE  Books' /\ Shrinks
<1>1. \A d \in Clients : \A l : (Refers(d, l)' <=> Refers(d, l)) /\ (Uses(d, l)' <=> Uses(d, l))
  BY DEF Refers, Uses
<1>2. \A q \in Procs : \A l : Owns(q, l)' <=> Owns(q, l)
  BY <1>1 DEF Owns
<1>3. \A q \in Procs : Sharers(q)' = Sharers(q)
  BY DEF Sharers, At
<1>4. Types' /\ Alive' /\ Numbered' /\ Void'
  BY DEF Books, Types, Alive, Numbered, Void, At
<1>5. Counted' /\ OneOwner' /\ Exclusive' /\ Closed'
  BY <1>1, <1>2, <1>3 DEF Books, Counted, OneOwner, Exclusive, Closed
<1>6. Shrinks
  BY <1>1, <1>2, InUseIs, InUseIsNext DEF Shrinks
<1> QED
  BY <1>4, <1>5, <1>6 DEF Books

-----------------------------------------------------------------------------
(* What a step does to the file, and to the judgements. *)

\* A hold or a creation that was the last use of the lock that is there leaves none.
LEMMA LastUseEnds ==
    ASSUME Kept, Shrinks, NEW k \in Nat, InUse(k), \A l : l = k => ~InUse(l)'
    PROVE  stolen \/ \A l \in Nat : ~InUse(l)'
  BY DEF Kept, Shrinks

Same   == Shrinks /\ file' = file
Signed == /\ Shrinks
          /\ \E c \in Clients : /\ At(c, "write") /\ file.lock = client[c].lock
                                /\ file' = [file EXCEPT !.by = ProcOf[c], !.life = life[ProcOf[c]]]
Aged   == /\ Shrinks
          /\ LongHolds \/ ~InUse(file.lock)
          /\ file' = [file EXCEPT !.old = TRUE]
Gone   == /\ Shrinks
          /\ file' = NoFile
          /\ stolen' \/ \A l \in Nat : ~InUse(l)'
Made   == /\ file' = [NoFile EXCEPT !.lock = Fresh] /\ ~Present
          /\ \A l \in Nat : InUse(l)' => InUse(l) \/ l = Fresh

Condemns(c) ==
    /\ client'[c].lock = file.lock
    /\ \/ At(c, "read") /\ ~Empty /\ (Stale \/ OrphanSelf(ProcOf[c]))
       \/ At(c, "stat") /\ file.old

Moves == /\ Same \/ Signed \/ Aged \/ Gone \/ Made
         /\ stolen => stolen'
         /\ \A p \in up : life'[p] = life[p]
         /\ \A c \in Clients : client'[c].at = "remove" => client'[c] = client[c] \/ Condemns(c)
         /\ Rest'

LEMMA AcquireMoves ==
    ASSUME Base, NEW c \in Clients, Acquire(c)
    PROVE  Books' /\ Moves
<1> DEFINE p == ProcOf[c]
<1>0. Books /\ Rest /\ At(c, "idle") /\ p \in up /\ client[c] \in Client
  BY DEF Base, Acquire, Books, Types
<1>1. Books' /\ Shrinks /\ \A d \in Clients : client'[d].at = "remove" => client'[d] = client[d]
  <2>1. CASE c \in Reentrant /\ held[p] # 0
    <3>1. Books' /\ Shrinks
      BY <1>0, <2>1, ShareKeeps DEF Acquire
    <3>2. client' = [client EXCEPT ![c] = [at |-> "holding", lock |-> held[p]]]
      BY <2>1 DEF Acquire
    <3> QED
      BY <3>1, <3>2, <1>0 DEF Books, Types
  <2>2. CASE ~(c \in Reentrant /\ held[p] # 0)
    <3> DEFINE r == [client[c] EXCEPT !.at = "open"]
    <3>1. /\ client' = [client EXCEPT ![c] = r] /\ r \in Client /\ r.at = "open"
          /\ UNCHANGED <<up, held, count, closing>>
      BY <1>0, <2>2 DEF Acquire, Goes, Client
    <3>2. Books' /\ Shrinks
      BY <3>1, <1>0, QuietKeeps DEF At, Bound, Using, Sole
    <3> QED
      BY <3>1, <3>2, <1>0 DEF Books, Types
  <2> QED
    BY <2>1, <2>2
<1> QED
  BY <1>0, <1>1 DEF Acquire, Moves, Same, Rest

LEMMA OpenMoves ==
    ASSUME Base, NEW c \in Clients, Open(c)
    PROVE  Books' /\ Moves
<1>0. Books /\ Rest /\ FileType /\ At(c, "open") /\ client[c] \in Client /\ ProcOf[c] \in up
  BY SessionWriteLockAssumption DEF Base, Open, Books, Types, Alive, At
<1>1. CASE Present
  <2> DEFINE r == [client[c] EXCEPT !.at = "read"]
  <2>1. /\ client' = [client EXCEPT ![c] = r] /\ r \in Client /\ r.at = "read"
        /\ UNCHANGED <<up, held, count, closing>>
    BY <1>0, <1>1 DEF Open, Goes, Client
  <2>2. Books' /\ Shrinks
    BY <2>1, <1>0, QuietKeeps DEF At, Bound, Using, Sole
  <2>3. \A d \in Clients : client'[d].at = "remove" => client'[d] = client[d]
    BY <2>1, <1>0 DEF Books, Types
  <2> QED
    BY <2>2, <2>3, <1>0, <1>1 DEF Open, Moves, Same, Rest
<1>2. CASE ~Present
  <2>1. /\ client' = [client EXCEPT ![c] = [at |-> "write", lock |-> Fresh]]
        /\ file' = [NoFile EXCEPT !.lock = Fresh]
        /\ UNCHANGED <<up, held, count, closing>>
    BY <1>2 DEF Open
  <2>2. Books' /\ \A l \in Nat : InUse(l)' => InUse(l) \/ l = Fresh
    BY <2>1, <1>0, CreateKeeps
  <2>3. \A d \in Clients : client'[d].at = "remove" => client'[d] = client[d]
    BY <2>1, <1>0 DEF Books, Types
  <2> QED
    BY <2>1, <2>2, <2>3, <1>0, <1>2 DEF Open, Moves, Made, Rest
<1> QED
  BY <1>1, <1>2

LEMMA WriteMoves ==
    ASSUME Base, NEW c \in Clients, Write(c) \/ WriteFails(c)
    PROVE  Books' /\ Moves
<1>0. Books /\ Rest /\ At(c, "write")
  BY DEF Base, Write, WriteFails
<1>1. PICK a \in {"register", "undo"} : Goes(c, a)
  BY DEF Write, WriteFails
<1>2. UNCHANGED <<up, held, count, closing>>
  BY DEF Write, WriteFails
<1>3. Books' /\ Shrinks
  BY <1>0, <1>1, <1>2, SoleMovesOn DEF At, Sole
<1>4. \A d \in Clients : client'[d].at = "remove" => client'[d] = client[d]
  BY <1>0, <1>1 DEF Goes, Books, Types
<1>5. Same \/ Signed
  BY <1>0, <1>3 DEF Write, WriteFails, Same, Signed
<1>6. Rest'
  <2>1. CASE Write(c)
    BY <2>1, <1>0 DEF Write, Rest
  <2>2. CASE WriteFails(c)
    BY <2>2, <1>0, SessionWriteLockAssumption DEF WriteFails, Event, Rest
  <2> QED
    BY <2>1, <2>2
<1> QED
  BY <1>3, <1>4, <1>5, <1>6 DEF Write, WriteFails, Moves

LEMMA RegisterMoves ==
    ASSUME Base, NEW c \in Clients, Register(c)
    PROVE  Books' /\ Moves
<1>1. Books' /\ Shrinks
  BY RegisterKeeps DEF Base
<1>2. \A d \in Clients : client'[d].at = "remove" => client'[d] = client[d]
  BY DEF Register, Goes, Base, Books, Types
<1> QED
  BY <1>1, <1>2 DEF Register, Base, Moves, Same, Rest

LEMMA ReleaseMoves ==
    ASSUME Base, NEW c \in Clients, Release(c)
    PROVE  Books' /\ Moves
<1>1. Books' /\ Shrinks
  BY ReleaseKeeps DEF Base
<1>2. \A d \in Clients : client'[d].at = "remove" => client'[d] = client[d]
  <2>1. \A d \in Clients : d # c => client'[d] = client[d]
    BY DEF Release, Goes, Idle, Base, Books, Types
  <2>2. client'[c].at \in {"close", "idle"}
    BY DEF Release, Goes, Idle, Base, Books, Types, Client
  <2> QED
    BY <2>1, <2>2
<1> QED
  BY <1>1, <1>2 DEF Release, Base, Moves, Same, Rest

\* A creation that failed and the last release of a hold remove the file at the path.
LEMMA LeavesMoves ==
    ASSUME Base, NEW c \in Clients, Undo(c) \/ Unlink(c)
    PROVE  Books' /\ Moves
<1>0. Books /\ Kept /\ Rest /\ client[c].at \in Sole /\ client[c].lock \in Nat
  BY DEF Base, Undo, Unlink, At, Sole, Books, Types, Client
<1>1. client' = [client EXCEPT ![c] = Idle] /\ UNCHANGED <<up, held, count, closing>>
  BY DEF Undo, Unlink
<1>2. Books' /\ Shrinks /\ \A l : l = client[c].lock => ~InUse(l)'
  BY <1>0, <1>1, LeavesKeeps DEF Bound, Using, Sole
<1>3. InUse(client[c].lock)
  BY <1>0, InUseIs DEF Uses, Using
<1>4. stolen \/ \A l \in Nat : ~InUse(l)'
  BY <1>0, <1>2, <1>3, LastUseEnds
<1>5. \A d \in Clients : client'[d].at = "remove" => client'[d] = client[d]
  BY <1>1 DEF Idle, Books, Types
<1> QED
  BY <1>0, <1>2, <1>4, <1>5 DEF Undo, Unlink, Moves, Gone, Rest

\* A call looks at the file, and goes on with or without a judgement.
LEMMA LooksMoves ==
    ASSUME Base, NEW c \in Clients, Inspect(c) \/ Stat(c) \/ GiveUp(c)
    PROVE  Books' /\ Moves
<1>0. Books /\ Rest /\ FileType /\ ProcOf[c] \in up /\ client[c].at \in {"read", "stat", "open"}
  BY SessionWriteLockAssumption DEF Base, Inspect, Stat, GiveUp, Books, Types, Alive, At
<1>1. PICK r \in Client : /\ client' = [client EXCEPT ![c] = r]
                          /\ r.at \in {"idle", "open", "stat", "remove"}
                          /\ r.at = "remove" => /\ r.lock = file.lock
                                                /\ \/ At(c, "read") /\ ~Empty /\ (Stale \/ OrphanSelf(ProcOf[c]))
                                                   \/ At(c, "stat") /\ file.old
  <2> DEFINE R(a, l) == [at |-> a, lock |-> l]
  <2>1. \A a \in {"idle", "open", "stat", "remove"}, l \in Nat : R(a, l) \in Client
    BY DEF Client
  <2>2. file.lock \in Nat /\ 0 \in Nat
    BY <1>0 DEF FileType
  <2>3. CASE GiveUp(c)
    BY <2>1, <2>2, <2>3 DEF GiveUp, Idle
  <2>4. CASE Stat(c) /\ file.old
    BY <2>1, <2>2, <2>4 DEF Stat
  <2>5. CASE Stat(c) /\ ~file.old
    BY <2>1, <2>2, <2>5 DEF Stat
  <2>6. CASE Inspect(c) /\ Empty
    BY <2>1, <2>2, <2>6 DEF Inspect
  <2>7. CASE Inspect(c) /\ ~Empty /\ (Stale \/ OrphanSelf(ProcOf[c]))
    BY <2>1, <2>2, <2>7 DEF Inspect
  <2>8. CASE Inspect(c) /\ ~Empty /\ ~(Stale \/ OrphanSelf(ProcOf[c]))
    BY <2>1, <2>2, <2>8 DEF Inspect
  <2> QED
    BY <2>3, <2>4, <2>5, <2>6, <2>7, <2>8
<1>2. /\ UNCHANGED <<up, held, count, closing>>
      /\ UNCHANGED <<file, life, sweep, stolen, events>>
  BY DEF Inspect, Stat, GiveUp
<1>3. Books' /\ Shrinks
  BY <1>0, <1>1, <1>2, QuietKeeps DEF Bound, Using, Sole
<1>4. \A d \in Clients : client'[d].at = "remove" => client'[d] = client[d] \/ Condemns(d)
  <2>1. client'[c] = r /\ \A d \in Clients : d # c => client'[d] = client[d]
    BY <1>0, <1>1 DEF Books, Types
  <2> QED
    BY <2>1, <1>1 DEF Condemns
<1> QED
  BY <1>0, <1>2, <1>3, <1>4 DEF Moves, Same, Rest

\* A judgement is carried out, by a call or by the sweep.
LEMMA RemovesMoves ==
    ASSUME Base, Shrinks, Removes
    PROVE  Gone
<1>1. CASE stolen'
  BY <1>1 DEF Gone, Removes
<1>2. CASE ~stolen'
  <2>1. ~stolen /\ (file.lock = 0 \/ ~InUse(file.lock))
    BY <1>2 DEF Removes, Present
  <2>2. \A l \in Nat : InUse(l)' => InUse(l) /\ l = file.lock
    BY <2>1 DEF Base, Kept, Shrinks
  <2>3. ~InUse(0)
    BY InUseIs DEF Base, Books, Numbered, Uses, Bound
  <2> QED
    BY <2>1, <2>2, <2>3 DEF Gone, Removes
<1> QED
  BY <1>1, <1>2

LEMMA RemoveMoves ==
    ASSUME Base, NEW c \in Clients, Remove(c)
    PROVE  Books' /\ Moves
<1> DEFINE r == [at |-> "open", lock |-> 0]
<1>0. /\ Books /\ Rest /\ ProcOf[c] \in up /\ At(c, "remove") /\ r \in Client
      /\ client' = [client EXCEPT ![c] = r] /\ UNCHANGED <<up, held, count, closing>>
  BY SessionWriteLockAssumption DEF Base, Remove, Books, Types, Alive, At, Client
<1>1. Books' /\ Shrinks
  BY <1>0, QuietKeeps DEF At, Bound, Using, Sole
<1>2. Gone
  BY <1>1, RemovesMoves DEF Remove
<1>3. \A d \in Clients : client'[d].at = "remove" => client'[d] = client[d]
  BY <1>0 DEF Books, Types
<1> QED
  BY <1>0, <1>1, <1>2, <1>3 DEF Remove, Removes, Moves, Rest

\* The sweep of a gateway reads, and may remove.
LEMMA SweepMoves ==
    ASSUME Base, NEW p \in Procs, Sweeps(p)
    PROVE  Books' /\ Moves
<1>0. Books /\ Rest /\ UNCHANGED <<up, life, held, count, client, closing, events>>
  BY DEF Base, Sweeps, SweepLists, SweepReads, SweepRemoves
<1>1. \A c \in Clients : \A l : (Refers(c, l)' <=> Refers(c, l)) /\ (Uses(c, l)' <=> Uses(c, l))
  BY <1>0 DEF Refers, Uses
<1>2. Books'
  <2>1. \A q \in Procs : Sharers(q)' = Sharers(q) /\ \A l : Owns(q, l)' <=> Owns(q, l)
    BY <1>0, <1>1 DEF Sharers, At, Owns
  <2>2. Types' /\ Alive' /\ Numbered' /\ Void'
    BY <1>0 DEF Books, Types, Alive, Numbered, Void, At
  <2>3. Counted' /\ OneOwner' /\ Exclusive' /\ Closed'
    BY <1>0, <1>1, <2>1 DEF Books, Counted, OneOwner, Exclusive, Closed
  <2> QED
    BY <2>2, <2>3 DEF Books
<1>3. Shrinks
  BY <1>0, <1>1, InUseIs, InUseIsNext DEF Shrinks, Owns
<1>4. Same \/ Gone
  BY <1>3, RemovesMoves DEF Sweeps, SweepLists, SweepReads, SweepRemoves, Same
<1>5. Rest' /\ (stolen => stolen')
  BY <1>0 DEF Rest, Sweeps, SweepLists, SweepReads, SweepRemoves, Removes
<1> QED
  BY <1>0, <1>2, <1>4, <1>5 DEF Moves

LEMMA AgesMoves ==
    ASSUME Base, FileAges
    PROVE  Books' /\ Moves
<1>0. Books /\ Rest /\ UNCHANGED <<up, life, held, count, client, closing, sweep, stolen, events>>
  BY DEF Base, FileAges
<1>1. \A c \in Clients : \A l : (Refers(c, l)' <=> Refers(c, l)) /\ (Uses(c, l)' <=> Uses(c, l))
  BY <1>0 DEF Refers, Uses
<1>2. \A q \in Procs : Sharers(q)' = Sharers(q) /\ \A l : Owns(q, l)' <=> Owns(q, l)
  BY <1>0, <1>1 DEF Sharers, At, Owns
<1>3. Books'
  <2>1. Types' /\ Alive' /\ Numbered' /\ Void'
    BY <1>0 DEF Books, Types, Alive, Numbered, Void, At
  <2>2. Counted' /\ OneOwner' /\ Exclusive' /\ Closed'
    BY <1>0, <1>1, <1>2 DEF Books, Counted, OneOwner, Exclusive, Closed
  <2> QED
    BY <2>1, <2>2 DEF Books
<1>4. Shrinks
  BY <1>0, <1>1, <1>2, InUseIs, InUseIsNext DEF Shrinks
<1> QED
  BY <1>0, <1>3, <1>4 DEF FileAges, Aged, Moves, Rest

-----------------------------------------------------------------------------
(* The watchdog, signals and processes. *)

LEMMA WatchdogForcesMoves ==
    ASSUME Base, NEW p \in Procs, WatchdogForces(p)
    PROVE  Books' /\ Moves
<1>0. Books /\ Rest
  BY DEF Base
<1>1. Books' /\ Shrinks
  BY <1>0, TakeKeeps DEF WatchdogForces
<1>2. \A d \in Clients : client'[d].at = "remove" => client'[d] = client[d]
  BY DEF WatchdogForces, Takes
<1>3. Rest'
  BY <1>0, SessionWriteLockAssumption DEF WatchdogForces, Event, Rest
<1> QED
  BY <1>1, <1>2, <1>3 DEF WatchdogForces, Moves, Same

LEMMA WatchdogUnlinksMoves ==
    ASSUME Base, NEW p \in Procs, WatchdogUnlinks(p)
    PROVE  Books' /\ Moves
<1>0. Books /\ Kept /\ Rest
  BY DEF Base
<1>1. PICK k \in closing[p] : closing' = [closing EXCEPT ![p] = @ \ {k}]
  BY DEF WatchdogUnlinks
<1>2. k \in Nat /\ InUse(k)
  BY <1>0, InUseIs DEF Books, Types
<1>3. Books' /\ Shrinks /\ ~InUse(k)'
  BY <1>0, <1>1, UnlinksKeeps DEF WatchdogUnlinks
<1>4. stolen \/ \A l \in Nat : ~InUse(l)'
  BY <1>0, <1>2, <1>3 DEF Kept, Shrinks
<1> QED
  BY <1>0, <1>3, <1>4 DEF WatchdogUnlinks, Moves, Gone, Rest

LEMMA DiesLeaves ==
    ASSUME Base, NEW p \in Procs, Dies(p)
    PROVE  /\ sweep' \in [Procs -> {"done", "list", "read", "remove"}]
           /\ \A d \in Clients : client'[d].at = "remove" => client'[d] = client[d]
  BY DEF Dies, Idle, Base, Rest

LEMMA ReleaseAllMoves ==
    ASSUME Base, NEW p \in Procs, ReleaseAll(p)
    PROVE  Books' /\ Moves
<1>0. Books /\ Kept /\ Rest /\ held[p] # 0 /\ held[p] \in Nat
  BY DEF Base, ReleaseAll, Books, Types
<1>1. /\ Books' /\ Shrinks /\ \A l : l = held[p] => ~InUse(l)'
      /\ sweep' \in [Procs -> {"done", "list", "read", "remove"}]
      /\ \A d \in Clients : client'[d].at = "remove" => client'[d] = client[d]
  <2>1. CASE Dies(p)
    <3>1. Books' /\ Shrinks /\ \A l \in Nat : l # 0 /\ l = held[p] => ~InUse(l)'
      BY <1>0, <2>1, DeathKeeps DEF ReleaseAll
    <3> QED
      BY <1>0, <2>1, <3>1, DiesLeaves
  <2>2. CASE Takes(p) /\ UNCHANGED <<up, closing, sweep>>
    <3>1. closing' = [closing EXCEPT ![p] = @ \cup {}]
      BY <1>0, <2>2 DEF Books, Types
    <3>2. Books' /\ Shrinks /\ \A l : l = held[p] => ~InUse(l)'
      BY <1>0, <2>2, <3>1, TakeKeeps DEF ReleaseAll
    <3> QED
      BY <1>0, <2>2, <3>2 DEF Takes, Rest
  <2> QED
    BY <2>1, <2>2 DEF ReleaseAll
<1>2. InUse(held[p])
  BY <1>0, HeldIsInUse
<1>3. stolen \/ \A l \in Nat : ~InUse(l)'
  BY <1>0, <1>1, <1>2, LastUseEnds
<1>4. Rest'
  BY <1>0, <1>1, SessionWriteLockAssumption DEF ReleaseAll, Event, Rest
<1> QED
  BY <1>1, <1>3, <1>4 DEF ReleaseAll, Moves, Gone

LEMMA CrashMoves ==
    ASSUME Base, NEW p \in Procs, Crash(p)
    PROVE  Books' /\ Moves
<1>1. Books' /\ Shrinks
  BY DeathKeeps DEF Crash, Base
<1>2. Rest'
  BY DiesLeaves, SessionWriteLockAssumption DEF Crash, Event, Base, Rest
<1> QED
  BY <1>1, <1>2, DiesLeaves DEF Crash, Moves, Same

LEMMA RestartMoves ==
    ASSUME Base, NEW p \in Procs, Restart(p)
    PROVE  Books' /\ Moves
<1>1. Books' /\ Shrinks
  BY RestartKeeps DEF Restart, Base
<1>2. Rest' /\ \A q \in up : life'[q] = life[q]
  BY DEF Restart, Base, Rest, Books, Types
<1> QED
  BY <1>1, <1>2 DEF Restart, Moves, Same

-----------------------------------------------------------------------------
(* The invariants. *)

LEMMA StepMoves ==
    ASSUME Base, LockNext
    PROVE  Books' /\ Moves
<1>1. ASSUME NEW c \in Clients, Acquire(c) \/ WriteFails(c) \/ GiveUp(c) \/ Progress(c)
      PROVE  Books' /\ Moves
  BY <1>1, AcquireMoves, OpenMoves, WriteMoves, RegisterMoves, ReleaseMoves, LeavesMoves,
     LooksMoves, RemoveMoves DEF Progress
<1>2. ASSUME NEW p \in Procs, \/ WatchdogForces(p) \/ WatchdogUnlinks(p) \/ Sweeps(p)
                              \/ ReleaseAll(p) \/ Crash(p) \/ Restart(p)
      PROVE  Books' /\ Moves
  BY <1>2, WatchdogForcesMoves, WatchdogUnlinksMoves, SweepMoves, ReleaseAllMoves, CrashMoves,
     RestartMoves
<1> QED
  BY <1>1, <1>2, AgesMoves DEF LockNext

\* Whatever the platform and however long holds last.
LEMMA BaseKept ==
    ASSUME Base, LockNext
    PROVE  Base'
<1>0. Books' /\ Moves /\ Rest' /\ FileType /\ Kept
  BY StepMoves DEF Moves, Base
<1>1. CASE Same
  BY <1>0, <1>1 DEF Same, Base, Moves, FileType, Kept, Shrinks
<1>2. CASE Signed
  <2>1. PICK c \in Clients : file' = [file EXCEPT !.by = ProcOf[c], !.life = life[ProcOf[c]]]
    BY <1>2 DEF Signed
  <2>2. FileType' /\ file'.lock = file.lock
    BY <1>0, <2>1, SessionWriteLockAssumption DEF FileType, Base, Rest
  <2>3. Kept'
    BY <1>0, <1>2, <2>2 DEF Signed, Kept, Shrinks, Moves
  <2> QED
    BY <1>0, <2>2, <2>3 DEF Base
<1>3. CASE Aged
  <2>1. FileType' /\ file'.lock = file.lock
    BY <1>0, <1>3 DEF Aged, FileType
  <2>2. Kept'
    BY <1>0, <1>3, <2>1 DEF Aged, Kept, Shrinks, Moves
  <2> QED
    BY <1>0, <2>1, <2>2 DEF Base
<1>4. CASE Gone
  <2>1. FileType'
    BY <1>4 DEF Gone, FileType, NoFile
  <2>2. Kept'
    BY <1>4 DEF Gone, Kept
  <2> QED
    BY <1>0, <2>1, <2>2 DEF Base
<1>5. CASE Made
  <2>1. FileType' /\ file'.lock = Fresh
    BY <1>0, <1>5, FreshIsNew DEF Made, FileType, NoFile, Base
  <2>2. Kept'
    <3>1. ~InUse(0)
      BY InUseIs DEF Base, Books, Numbered, Uses, Bound
    <3>2. ~stolen => \A l \in Nat : ~InUse(l)
      BY <1>0, <1>5, <3>1 DEF Made, Present, Kept
    <3> QED
      BY <1>0, <1>5, <2>1, <3>2 DEF Made, Kept, Moves
  <2> QED
    BY <1>0, <2>1, <2>2 DEF Base
<1> QED
  BY <1>0, <1>1, <1>2, <1>3, <1>4, <1>5 DEF Moves

\* An owner is alive.
LEMMA OwnersLive ==
    ASSUME Books, NEW p \in Procs, NEW l, Owns(p, l)
    PROVE  p \in up
  BY DEF Books, Alive, Owns, Refers, Bound, Using, Sole

\* A lock that seems stale has no owner.
LEMMA StaleIsUnused ==
    ASSUME IInv, StartTimes, ~Empty, NEW p \in Procs, Stale \/ OrphanSelf(p)
    PROVE  ~InUse(file.lock)
<1>1. SUFFICES ASSUME InUse(file.lock) PROVE FALSE
  OBVIOUS
<1>2. PICK q \in Procs : Owns(q, file.lock)
  BY <1>1, InUseIsOwned
<1>3. q \in up /\ file.by = q /\ file.life = life[q]
  BY <1>2, OwnersLive DEF IInv, Base, Named, Empty
<1> QED
  BY <1>1, <1>3 DEF Stale, OrphanSelf, IInv, Young

LEMMA InvariantKept ==
    ASSUME IInv, LockNext, StartTimes, ~LongHolds
    PROVE  IInv'
<1>0. Base /\ Books /\ Named /\ Young /\ Judged /\ FileType /\ Moves
  BY StepMoves DEF IInv, Base
<1>1. Base'
  BY <1>0, BaseKept
<1>2. Named' /\ Young'
  <2>0. ASSUME NEW p \in Procs, Shrinks, NEW l \in Nat, Owns(p, l)'
        PROVE  Owns(p, l) /\ life'[p] = life[p]
    BY <2>0, <1>0, OwnersLive DEF Shrinks, Moves
  <2>1. CASE Same
    <3>1. Named'
      BY <1>0, <2>0, <2>1 DEF Same, Named, FileType
    <3>2. Young'
      BY <1>0, <2>1 DEF Same, Young, Shrinks, FileType
    <3> QED
      BY <3>1, <3>2
  <2>2. CASE Signed
    <3>1. PICK c \in Clients : /\ At(c, "write") /\ file.lock = client[c].lock
                               /\ file' = [file EXCEPT !.by = ProcOf[c], !.life = life[ProcOf[c]]]
      BY <2>2 DEF Signed
    <3>2. /\ file'.lock = file.lock /\ file'.by = ProcOf[c] /\ file'.life = life[ProcOf[c]]
          /\ file'.old = file.old /\ file.lock \in Nat /\ ProcOf[c] \in Procs
      BY <1>0, <3>1, SessionWriteLockAssumption DEF FileType
    <3>3. Owns(ProcOf[c], file.lock)
      BY <3>1 DEF Owns, Refers, Bound, Using, Sole, At
    <3>4. Named'
      BY <1>0, <2>0, <2>2, <3>2, <3>3 DEF Signed, Named, Books, OneOwner
    <3>5. Young'
      BY <1>0, <2>2, <3>2 DEF Signed, Young, Shrinks
    <3> QED
      BY <3>4, <3>5
  <2>3. CASE Aged
    <3>1. /\ file'.lock = file.lock /\ file'.by = file.by /\ file'.life = file.life /\ file.lock \in Nat
      BY <1>0, <2>3 DEF Aged, FileType
    <3>2. Named'
      BY <1>0, <2>0, <2>3, <3>1 DEF Aged, Named
    <3>3. Young'
      BY <2>3, <3>1 DEF Aged, Young, Shrinks
    <3> QED
      BY <3>2, <3>3
  <2>4. CASE Gone \/ Made
    <3>1. file'.by = 0 /\ file'.old = FALSE
      BY <2>4 DEF Gone, Made, NoFile
    <3> QED
      BY <3>1 DEF Named, Young
  <2> QED
    BY <1>0, <2>1, <2>2, <2>3, <2>4 DEF Moves
<1>3. Judged'
  <2>1. ASSUME NEW c \in Clients, client'[c].at = "remove", NEW l, l = client'[c].lock
        PROVE  ~InUse(l)'
    <3>1. l \in Nat /\ l # Fresh /\ ~InUse(l)
      <4>1. CASE client'[c] = client[c]
        BY <2>1, <4>1, <1>0, FreshIsNew DEF Judged, At, Books, Types, Client
      <4>2. CASE Condemns(c)
        <5>1. l = file.lock /\ l # Fresh /\ l \in Nat
          BY <2>1, <4>2, <1>0, FreshIsNew DEF Condemns, FileType
        <5>2. CASE ~Empty /\ (Stale \/ OrphanSelf(ProcOf[c]))
          BY <5>1, <5>2, StaleIsUnused, SessionWriteLockAssumption
        <5>3. CASE file.old
          BY <5>1, <5>3, <1>0 DEF Young
        <5> QED
          BY <4>2, <5>2, <5>3 DEF Condemns
      <4> QED
        BY <2>1, <4>1, <4>2, <1>0 DEF Moves
    <3> QED
      BY <3>1, <1>0 DEF Moves, Same, Signed, Aged, Gone, Made, Shrinks
  <2>2. \A c \in Clients : At(c, "remove")' => ~InUse(client[c].lock)'
    BY <2>1 DEF At
  <2> QED
    BY <2>2 DEF Judged
<1> QED
  BY <1>1, <1>2, <1>3 DEF IInv

LEMMA InitInvariant == Init => IInv
<1> SUFFICES ASSUME Init PROVE IInv
  OBVIOUS
<1>1. Idle \in Client
  BY DEF Idle, Client
<1>2. /\ \A c \in Clients : client[c] = Idle /\ client[c].at = "idle"
      /\ \A p \in Procs : held[p] = 0 /\ closing[p] = {}
      /\ up = Procs
  BY DEF Init, Idle
<1>3. Types
  BY <1>1, FS_EmptySet DEF Init, Types
<1>4. Alive /\ Numbered /\ Counted
  BY <1>2, SessionWriteLockAssumption DEF Alive, Numbered, Counted, Bound, Using, Sole
<1>5. \A c \in Clients : \A l : ~Refers(c, l) /\ ~Uses(c, l)
  BY <1>2 DEF Refers, Uses, Bound, Using, Sole
<1>6. OneOwner /\ Exclusive /\ Closed /\ Void
  BY <1>2, <1>5 DEF OneOwner, Owns, Exclusive, Sole, Closed, Void, At
<1>7. \A l : ~InUse(l)
  BY <1>2, <1>5, InUseIs
<1>8. FileType /\ Kept /\ Named /\ Young
  BY <1>7 DEF Init, FileType, NoFile, Kept, Named, Young
<1>9. Rest
  <2>1. life \in [Procs -> Nat] /\ stolen \in BOOLEAN
    BY DEF Init
  <2>2. events \in 0..MaxEvents
    BY SessionWriteLockAssumption DEF Init
  <2>3. \A p \in Procs : (IF p \in Gateways THEN "list" ELSE "done") \in {"done", "list", "read", "remove"}
    OBVIOUS
  <2>4. sweep \in [Procs -> {"done", "list", "read", "remove"}]
    BY <2>3 DEF Init
  <2> QED
    BY <2>1, <2>2, <2>4 DEF Rest
<1>10. Judged
  BY <1>2 DEF Judged, At
<1> QED
  BY <1>3, <1>4, <1>6, <1>8, <1>9, <1>10 DEF IInv, Base, Books

LEMMA StutterKeeps ==
    ASSUME UNCHANGED lockVars
    PROVE  (Base => Base') /\ (IInv => IInv')
<1>1. \A c \in Clients : \A l : (Refers(c, l)' <=> Refers(c, l)) /\ (Uses(c, l)' <=> Uses(c, l))
  BY DEF lockVars, Refers, Uses
<1>2. \A p \in Procs : Sharers(p)' = Sharers(p) /\ \A l : Owns(p, l)' <=> Owns(p, l)
  BY <1>1 DEF lockVars, Sharers, At, Owns
<1>3. Books => Books'
  <2>1. Types /\ Alive /\ Numbered /\ Void => Types' /\ Alive' /\ Numbered' /\ Void'
    BY DEF lockVars, Types, Alive, Numbered, Void, At
  <2>2. Counted /\ OneOwner /\ Exclusive /\ Closed => Counted' /\ OneOwner' /\ Exclusive' /\ Closed'
    BY <1>1, <1>2 DEF lockVars, Counted, OneOwner, Exclusive, Closed
  <2> QED
    BY <2>1, <2>2 DEF Books
<1>4. \A l : InUse(l)' <=> InUse(l)
  BY <1>1, InUseIs, InUseIsNext DEF lockVars
<1>5. (FileType => FileType') /\ (Kept => Kept') /\ (Rest => Rest')
  BY <1>4 DEF lockVars, FileType, Kept, Rest
<1>6. Young => Young'
  BY <1>4 DEF lockVars, Young, InUse
<1>7. Named => Named'
  BY DEF lockVars, Named, Owns, Refers
<1>8. Judged => Judged'
  BY DEF lockVars, Judged, At, InUse
<1> QED
  BY <1>3, <1>5, <1>6, <1>7, <1>8 DEF IInv, Base

LEMMA BaseAlways == LockSpec => []Base
<1>1. Init => Base
  BY InitInvariant DEF IInv
<1>2. Base /\ [LockNext]_lockVars => Base'
  BY BaseKept, StutterKeeps
<1> QED
  BY <1>1, <1>2, PTL DEF LockSpec

-----------------------------------------------------------------------------
(* The theorems. *)

\* The variables have their types: the file names a lock and a process, every hold, call and
\* removal under way names a lock, and a sweep is at one of its stages.
THEOREM LockTypesHold == LockSpec => []LockTypeOK
<1>1. Base => LockTypeOK
  BY DEF Base, Books, Types, FileType, Rest, LockTypeOK, Client, Bound, Using, Sole
<1> QED
  BY <1>1, BaseAlways, PTL

\* Two clients that both hold the session's lock share one hold of one process, until a file is
\* removed under the lock that is there: on every platform, with holds of any length, whatever
\* processes crash, come back or are told to end.
THEOREM OneWriterUntilTheft == LockSpec => []SingleWriter
<1>1. ASSUME Base PROVE SingleWriter
  <2>1. ASSUME ~stolen, NEW c \in Clients, At(c, "holding") PROVE client[c].lock = file.lock
    <3>1. client[c].lock \in Nat
      BY <1>1 DEF Base, Books, Types, Client
    <3>2. InUse(client[c].lock)
      BY <2>1, InUseIs DEF Uses, Using, At
    <3> QED
      BY <1>1, <2>1, <3>1, <3>2 DEF Base, Kept
  <2> QED
    BY <2>1 DEF SingleWriter
<1> QED
  BY <1>1, BaseAlways, PTL

\* With start times, and holds that end before they are stale, no caller condemns a lock that is
\* in use: the payload of a lock in use names a live process that has its start time.
THEOREM JudgementsAreSound == StartTimes /\ ~LongHolds => (LockSpec => []JudgementIsSound)
<1> SUFFICES ASSUME StartTimes, ~LongHolds PROVE LockSpec => []JudgementIsSound
  OBVIOUS
<1>1. Init => IInv
  BY InitInvariant
<1>2. IInv /\ [LockNext]_lockVars => IInv'
  BY InvariantKept, StutterKeeps
<1>3. IInv => JudgementIsSound
  BY DEF IInv, Judged, JudgementIsSound
<1> QED
  BY <1>1, <1>2, <1>3, PTL DEF LockSpec
=============================================================================
