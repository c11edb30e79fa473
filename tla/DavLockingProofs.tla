-------------------------- MODULE DavLockingProofs --------------------------
(***************************************************************************)
(* Proofs about DavLocking, for any tree of paths, any tokens, workers and *)
(* lifetimes: the type invariant; that an exclusive lock stays alone in    *)
(* its record, through expiry between two reads, refreshes, the walks of   *)
(* LOCK, UNLOCK, PUT and DELETE, and the death of a worker in any; that    *)
(* all records agree on the path that a token is on; that the database and *)
(* its hooks implement LockService; and that the walk of a LOCK reaches    *)
(* all of the tree, if no worker dies.                                     *)
(***************************************************************************)
EXTENDS DavLocking, LockRecordsProofs

Creating == {"validate", "store", "inherit"}

\* What PUT and MKCOL create has a parent to take the locks of.
CreatesInTree ==
  \A w \in Worker :
    session[w].op \in Creating => Parent[session[w].path] \in Path

IInv == TypeOK /\ RecordExclusive /\ CreatesInTree

-----------------------------------------------------------------------------
(* Sessions.                                                               *)

\* The kinds of session, by what they are in the middle of.
LEMMA SessionKinds ==
  ASSUME NEW s \in Session
  PROVE  /\ s.op \in {"lock", "notify"} =>
              s \in [op : {"lock", "notify"}, locks : Seq(HandedLock),
                     todo : SUBSET Path, missed : SUBSET Path]
         /\ s.op = "unlock" =>
              s \in [op : {"unlock"}, token : Token, todo : SUBSET Path]
         /\ s.op = "clear" =>
              s \in [op : {"clear"}, path : Path, todo : SUBSET Path]
         /\ s.op = "remove" => s \in [op : {"remove"}, path : Path]
         /\ s.op \in Creating =>
              s \in [op : Creating, path : Path, locknull : BOOLEAN]
BY DEF Session, Idle, Creating

\* A walk moves on.
LEMMA WalkMovesOn ==
  ASSUME NEW s \in Session, s.op \in {"lock", "notify", "unlock", "clear"},
         NEW S \in SUBSET Path
  PROVE  /\ s.todo \in SUBSET Path
         /\ [s EXCEPT !.todo = S] \in Session
         /\ [s EXCEPT !.todo = S].op = s.op
<1>1. CASE s.op \in {"lock", "notify"}
  BY <1>1, SessionKinds DEF Session
<1>2. CASE s.op = "unlock"
  BY <1>2, SessionKinds DEF Session
<1>3. CASE s.op = "clear"
  BY <1>3, SessionKinds DEF Session
<1> QED BY <1>1, <1>2, <1>3

\* The walk of a LOCK does, or that of a path that was created.
LEMMA PastSession ==
  ASSUME NEW s \in Session, s.op \in {"lock", "notify"}, NEW q, NEW found, NEW lost
  PROVE  /\ Past(s, q, found, lost).op = s.op
         /\ Past(s, q, found, lost).locks = s.locks
         /\ Past(s, q, found, lost).todo = (s.todo \ {q}) \cup found
         /\ Past(s, q, found, lost).missed = s.missed \cup lost
         /\ found \cup lost \in SUBSET Path => Past(s, q, found, lost) \in Session
<1> DEFINE n == Past(s, q, found, lost)
<1>1. s \in [op : {"lock", "notify"}, locks : Seq(HandedLock),
             todo : SUBSET Path, missed : SUBSET Path]
  BY SessionKinds
<1>2. /\ n.op = s.op /\ n.locks = s.locks
      /\ n.todo = (s.todo \ {q}) \cup found
      /\ n.missed = s.missed \cup lost
  BY <1>1 DEF Past
<1>3. found \cup lost \in SUBSET Path =>
        n \in [op : {"lock", "notify"}, locks : Seq(HandedLock),
              todo : SUBSET Path, missed : SUBSET Path]
  BY <1>1 DEF Past
<1> HIDE DEF n
<1>4. found \cup lost \in SUBSET Path => n \in Session
  BY <1>3 DEF Session
<1> QED BY <1>2, <1>4 DEF n

\* What a walk finds are members.
LEMMA FoundIs ==
  ASSUME NEW S \in SUBSET Path, NEW q, NEW found \in Found(S, q)
  PROVE  found \in SUBSET S
BY DEF Found

\* One worker's session changes to another that is one.
LEMMA SessionStep ==
  ASSUME IInv, NEW w \in Worker, NEW s \in Session,
         s.op \in Creating => Parent[s.path] \in Path,
         session' = [session EXCEPT ![w] = s]
  PROVE  session' \in [Worker -> Session] /\ CreatesInTree'
<1>1. session \in [Worker -> Session]
  BY DEF IInv, TypeOK
<1>2. session' \in [Worker -> Session]
  BY <1>1
<1>3. ASSUME NEW v \in Worker, session'[v].op \in Creating
      PROVE  Parent[session'[v].path] \in Path
  <2>1. session'[v] = IF v = w THEN s ELSE session[v]
    BY <1>1
  <2> QED BY <2>1, <1>3 DEF IInv, CreatesInTree
<1> QED BY <1>2, <1>3 DEF CreatesInTree

LEMMA IdleIsSession == Idle \in Session /\ Idle.op \notin Creating
BY DEF Session, Idle, Creating

\* The database changes to one that is well formed and exclusive.
LEMMA DatabaseStep ==
  ASSUME db' \in Database, ExclusiveAt(db', now')
  PROVE  db' \in [Path -> LockRecord] /\ RecordExclusive'
BY DEF Database, ExclusiveAt, RecordExclusive, Exclusive

LEMMA DatabaseNow ==
  ASSUME IInv
  PROVE  db \in Database /\ now \in Nat /\ ExclusiveAt(db, now)
BY DEF IInv, TypeOK, Database, ExclusiveAt, RecordExclusive, Exclusive

\* What the queries of a request leave.
LEMMA QueriedKeeps ==
  ASSUME IInv, NEW S, NEW u \in Later
  PROVE  /\ u \in Nat /\ now <= u
         /\ Queried(S, u) \in Database
         /\ ExclusiveAt(Queried(S, u), u)
         /\ \A p \in Path : Embeds(Queried(S, u)[p].direct, db[p].direct)
<1>1. db \in Database /\ now \in Nat /\ ExclusiveAt(db, now)
  BY DatabaseNow
<1>2. u \in Nat /\ now <= u
  BY <1>1, TimeAssumption DEF Later
<1> DEFINE d == Purge(db, S, now)
           K == UNION {ResolvedKeys(db, q, now) : q \in S}
<1>3. Queried(S, u) = Purge(d, K, u)
  BY DEF Queried
<1>4. /\ d \in Database
      /\ \A p \in Path : Embeds(d[p].direct, db[p].direct)
  BY <1>1, PurgeKeeps
<1>5. ExclusiveAt(d, u)
  <2>1. ExclusiveAt(db, u)
    BY <1>1, <1>2, LaterExclusiveAt
  <2> QED BY <1>1, <2>1, PurgeExclusive
<1> HIDE DEF d, K
<1>6. /\ Queried(S, u) \in Database
      /\ \A p \in Path : Embeds(Queried(S, u)[p].direct, d[p].direct)
  BY <1>3, <1>4, PurgeKeeps
<1>7. ExclusiveAt(Queried(S, u), u)
  BY <1>3, <1>4, <1>5, PurgeExclusive
<1>8. \A p \in Path : Embeds(Queried(S, u)[p].direct, db[p].direct)
  BY <1>4, <1>6, EmbedsTransitive
<1> QED BY <1>2, <1>6, <1>7, <1>8

\* A query that does not let time pass.
LEMMA QueriedNow ==
  ASSUME IInv, NEW S
  PROVE  Queried(S, now) \in Database /\ ExclusiveAt(Queried(S, now), now)
<1>1. db \in Database /\ now \in Nat /\ ExclusiveAt(db, now)
  BY DatabaseNow
<1>2. /\ Purge(db, S, now) \in Database
      /\ ExclusiveAt(Purge(db, S, now), now)
  BY <1>1, PurgeKeeps, PurgeExclusive
<1> QED BY <1>2, PurgeKeeps, PurgeExclusive DEF Queried

-----------------------------------------------------------------------------
(* The steps.                                                              *)

LEMMA InitKeeps == Init => IInv
<1> SUFFICES ASSUME Init PROVE IInv
  OBVIOUS
<1>1. NoLocks \in LockRecord
  BY DEF NoLocks, LockRecord
<1>2. TypeOK
  BY <1>1, IdleIsSession DEF Init, TypeOK
<1>3. RecordExclusive
  BY DEF Init, RecordExclusive, NoLocks, Live
<1>4. CreatesInTree
  BY IdleIsSession DEF Init, CreatesInTree
<1> QED BY <1>2, <1>3, <1>4 DEF IInv

LEMMA QueryKeeps ==
  ASSUME IInv, NEW w \in Worker, NEW p \in Path, Query(w, p)
  PROVE  IInv'
<1>1. PICK u \in Later : db' = Queried({p}, u) /\ now' = u
  BY DEF Query
<1>2. db' \in Database /\ ExclusiveAt(db', now') /\ now' \in Nat
  BY <1>1, QueriedKeeps
<1>3. UNCHANGED <<exists, used, holder, session>>
  BY DEF Query
<1>4. CreatesInTree'
  BY <1>3 DEF IInv, CreatesInTree
<1> QED BY <1>2, <1>3, <1>4, DatabaseStep DEF IInv, TypeOK

\* Validation has found no conflict, so what append_locks loads a moment later
\* is compatible with the lock it adds.
LEMMA LockKeeps ==
  ASSUME IInv, NEW w \in Worker, NEW p \in Path, NEW scope \in Scope,
         NEW depth \in Depth, NEW secs \in Seconds, NEW submitted,
         NEW tok \in Token, Lock(w, p, scope, depth, secs, submitted, tok)
  PROVE  IInv'
<1> DEFINE S == LockScope(p, depth)
           timeout(u) == IF secs = 0 THEN DAV_TIMEOUT_INFINITE ELSE u + secs
           direct(u) == [token |-> tok, scope |-> scope, depth |-> depth,
                         timeout |-> timeout(u)]
           todo == IF depth = "infinity" THEN ExistingMembers(p) ELSE {}
           read == S \cup (IF p \in exists THEN {} ELSE ParentOf(p))
           lock(u) == [rectype |-> "direct", token |-> tok, depth |-> depth,
                       timeout |-> timeout(u), key |-> p]
           s(u) == [op |-> "lock", locks |-> <<lock(u)>>, todo |-> todo,
                    missed |-> {}]
<1>1. PICK u \in Later :
        /\ LockAllowed(p, scope, depth, submitted, u)
        /\ now' = u
        /\ db' = AppendDirect(Queried(read, u), p, direct(u), u)
        /\ session' = [session EXCEPT ![w] = s(u)]
  BY DEF Lock
<1>2. UNCHANGED exists /\ used' = used \cup {tok} /\ holder' = w
  BY DEF Lock
<1>3. /\ u \in Nat /\ now <= u
      /\ Queried(read, u) \in Database
      /\ ExclusiveAt(Queried(read, u), u)
      /\ Embeds(Queried(read, u)[p].direct, db[p].direct)
  BY QueriedKeeps
<1>4. db[p] \in LockRecord /\ Queried(read, u)[p] \in LockRecord /\ now \in Nat
  BY <1>3, DatabaseNow DEF Database
<1>5. timeout(u) \in Nat
  BY <1>3, TimeAssumption DEF DAV_TIMEOUT_INFINITE
<1>6. direct(u) \in DirectLock /\ lock(u) \in HandedLock
  BY <1>5 DEF DirectLock, HandedLock
<1>7. p \in S /\ ~ Conflicts(S, scope, u)
  BY <1>1 DEF LockAllowed, LockScope
<1>8. todo \in SUBSET Path
  BY DEF ExistingMembers, Members
<1>9. s(u) \in Session /\ s(u).op \notin Creating
  BY <1>6, <1>8 DEF Session, Creating
<1> HIDE DEF timeout, S, todo, lock, read
<1>10. ASSUME NEW i \in DOMAIN LoadRecord(Queried(read, u)[p], u).direct
       PROVE  /\ LoadRecord(Queried(read, u)[p], u).direct[i].scope = "shared"
              /\ scope = "shared"
  <2> DEFINE e == LoadRecord(Queried(read, u)[p], u).direct[i]
             l == LoadRecord(db[p], now).direct
             h(n) == [token |-> l[n].token, scope |-> l[n].scope]
  <2>1. PICK n \in DOMAIN l : l[n] = e
    BY <1>3, <1>4, LoadedFromBefore
  <2>2. h(n) \in Holds(db, p, now, u)
    BY DEF Holds
  <2>3. scope # "exclusive" /\ l[n].scope # "exclusive"
    BY <1>7, <2>2 DEF Conflicts
  <2>4. l[n].scope \in Scope
    <3>1. LoadRecord(db[p], now) \in LockRecord
      BY <1>4, LoadKeeps
    <3>2. l \in Seq(DirectLock)
      BY <3>1 DEF LockRecord
    <3> HIDE DEF l
    <3>3. l[n] \in DirectLock
      BY <3>2
    <3> QED BY <3>3 DEF DirectLock
  <2> QED BY <2>1, <2>3, <2>4 DEF Scope
<1>11. direct(u).scope = scope
  OBVIOUS
<1> HIDE DEF direct, s
<1>12. db' \in Database /\ ExclusiveAt(db', now')
  BY <1>1, <1>3, <1>6, <1>10, <1>11, AppendDirectKeeps
<1>13. session' \in [Worker -> Session] /\ CreatesInTree'
  BY <1>1, <1>9, SessionStep
<1>14. exists' \in SUBSET Path /\ used' \in SUBSET Token /\ now' \in Nat
       /\ holder' \in Worker \cup {NoWorker}
  BY <1>1, <1>2, <1>3 DEF IInv, TypeOK
<1> QED BY <1>12, <1>13, <1>14, DatabaseStep DEF IInv, TypeOK

\* A step of one worker that leaves the clock and the tokens alone.
LEMMA WorkerStep ==
  ASSUME IInv, NEW w \in Worker, NEW s \in Session,
         s.op \in Creating => Parent[s.path] \in Path,
         session' = [session EXCEPT ![w] = s],
         db' \in Database, ExclusiveAt(db', now),
         exists' \in SUBSET Path, holder' \in Worker \cup {NoWorker},
         UNCHANGED <<now, used>>
  PROVE  IInv'
<1>1. session' \in [Worker -> Session] /\ CreatesInTree'
  BY SessionStep
<1>2. db' \in [Path -> LockRecord] /\ RecordExclusive'
  BY DatabaseStep
<1> QED BY <1>1, <1>2 DEF IInv, TypeOK

\* The next three lemmas are about what no hook has touched.
LEMMA Untouched ==
  ASSUME IInv
  PROVE  /\ db \in Database /\ ExclusiveAt(db, now)
         /\ exists \in SUBSET Path /\ used \in SUBSET Token
         /\ holder \in Worker \cup {NoWorker}
         /\ session \in [Worker -> Session]
BY DatabaseNow DEF IInv, TypeOK

\* What one step of the walk of a LOCK, or of a path that was created, does,
\* whether or not a call of it fails.
LEMMA InheritStep ==
  ASSUME IInv, NEW w \in Worker, NEW q \in Path,
         InheritMember(w, q) \/ InheritFails(w, q)
  PROVE  /\ session[w] \in Session /\ session[w].op \in {"lock", "notify"}
         /\ q \in session[w].todo /\ session[w].locks \in Seq(HandedLock)
         /\ \/ db' = AppendIndirect(db, q, session[w].locks, now)
            \/ db' = db \/ db' = Purge(db, {q}, now)
         /\ UNCHANGED <<exists, now, used, holder>>
         /\ \E found \in SUBSET Onwards(session[w], q), lost \in SUBSET Path :
              session' = [session EXCEPT ![w] = Past(session[w], q, found, lost)]
         /\ Onwards(session[w], q) \in SUBSET Path
<1>1. /\ session \in [Worker -> Session] /\ session[w] \in Session
      /\ session[w].op \in {"lock", "notify"} /\ q \in session[w].todo
      /\ UNCHANGED <<exists, now, used, holder>>
      /\ \/ db' = AppendIndirect(db, q, session[w].locks, now)
         \/ db' = db \/ db' = Purge(db, {q}, now)
  BY Untouched DEF InheritMember, InheritFails
<1>2. session[w].locks \in Seq(HandedLock)
  BY <1>1, SessionKinds
<1>3. Onwards(session[w], q) \in SUBSET Path
  BY DEF Onwards, ExistingMembers, WalkedMembers, Members
<1>4. \E found \in SUBSET Onwards(session[w], q), lost \in SUBSET Path :
        session' = [session EXCEPT ![w] = Past(session[w], q, found, lost)]
  <2>1. CASE InheritMember(w, q)
    <3>1. PICK found \in Found(Onwards(session[w], q), q) :
            session' = [session EXCEPT ![w] =
              Past(session[w], q, found, Onwards(session[w], q) \ found)]
      BY <2>1 DEF InheritMember
    <3>2. /\ found \in SUBSET Onwards(session[w], q)
          /\ Onwards(session[w], q) \ found \in SUBSET Path
      BY <1>3, FoundIs
    <3> QED BY <3>1, <3>2
  <2>2. CASE InheritFails(w, q)
    BY <2>2 DEF InheritFails
  <2> QED BY <2>1, <2>2
<1> QED BY <1>1, <1>2, <1>3, <1>4

LEMMA InheritMemberKeeps ==
  ASSUME IInv, NEW w \in Worker, NEW q \in Path,
         InheritMember(w, q) \/ InheritFails(w, q)
  PROVE  IInv'
<1>1. PICK found \in SUBSET Onwards(session[w], q), lost \in SUBSET Path :
        session' = [session EXCEPT ![w] = Past(session[w], q, found, lost)]
  BY InheritStep
<1> DEFINE s == Past(session[w], q, found, lost)
<1>2. s \in Session /\ s.op \notin Creating
  <2>1. session[w] \in Session /\ session[w].op \in {"lock", "notify"}
    BY InheritStep
  <2>2. found \cup lost \in SUBSET Path
    BY InheritStep
  <2> QED BY <2>1, <2>2, PastSession DEF Creating
<1>3. session' = [session EXCEPT ![w] = s]
  BY <1>1
<1> HIDE DEF s
<1>4. db' \in Database /\ ExclusiveAt(db', now)
  <2>1. session[w].locks \in Seq(HandedLock)
    BY InheritStep
  <2>2. CASE db' = AppendIndirect(db, q, session[w].locks, now)
    BY <2>1, <2>2, Untouched, AppendIndirectKeeps
  <2>3. CASE db' = db \/ db' = Purge(db, {q}, now)
    BY <2>3, Untouched, PurgeKeeps, PurgeExclusive
  <2> QED BY <2>2, <2>3, InheritStep
<1>5. exists' = exists /\ holder' = holder /\ UNCHANGED <<now, used>>
  BY InheritStep
<1> QED BY <1>2, <1>3, <1>4, <1>5, Untouched, WorkerStep

LEMMA WalkDoneKeeps ==
  ASSUME IInv, NEW w \in Worker, WalkDone(w) \/ WalkFails(w)
  PROVE  IInv'
<1>1. /\ session' = [session EXCEPT ![w] = Idle] /\ holder' = NoWorker
      /\ UNCHANGED <<exists, db, now, used>>
  BY DEF WalkDone, WalkFails
<1> QED BY <1>1, Untouched, IdleIsSession, WorkerStep

LEMMA RefreshKeeps ==
  ASSUME IInv, NEW w \in Worker, NEW p \in Path, NEW tok \in used,
         NEW secs \in Seconds, Refresh(w, p, tok, secs)
  PROVE  IInv'
<1> DEFINE timeout == IF secs = 0 THEN DAV_TIMEOUT_INFINITE ELSE now + secs
<1>1. /\ db' = RefreshLocks(Queried({p}, now), p, tok, timeout, now)
      /\ UNCHANGED <<exists, now, used, holder, session>>
  BY DEF Refresh
<1>2. timeout \in Nat
  BY DatabaseNow, TimeAssumption DEF DAV_TIMEOUT_INFINITE
<1> HIDE DEF timeout
<1>3. db' \in Database /\ ExclusiveAt(db', now)
  BY <1>1, <1>2, QueriedNow, RefreshLocksKeeps
<1>4. CreatesInTree'
  BY <1>1 DEF IInv, CreatesInTree
<1> QED BY <1>1, <1>3, <1>4, DatabaseStep DEF IInv, TypeOK

\* What is saved, whether or not a delete fails.
LEMMA SavedKeeps ==
  ASSUME NEW d \in Database, NEW left \in Database, NEW q, NEW t,
         ExclusiveAt(d, t), ExclusiveAt(left, t), NEW e \in Saved(d, left, q)
  PROVE  e \in Database /\ ExclusiveAt(e, t)
<1>1. e = left \/ e = d
  BY DEF Saved
<1> QED BY <1>1

\* remove_lock where the token was found.  (A path the tree does not have is
\* not found at all.)
LEMMA RemoveLockAnywhere ==
  ASSUME NEW d \in Database, NEW r, NEW tok, NEW t, ExclusiveAt(d, t)
  PROVE  RemoveLock(d, r, tok, t) \in Database
         /\ ExclusiveAt(RemoveLock(d, r, tok, t), t)
<1>1. CASE r \in Path
  BY <1>1, RemoveLockKeeps
<1>2. CASE r \notin Path
  <2>1. RemoveLock(d, r, tok, t) = d
    BY <1>2 DEF RemoveLock, Database
  <2> QED BY <2>1
<1> QED BY <1>1, <1>2

LEMMA UnlockKeeps ==
  ASSUME IInv, NEW w \in Worker, NEW p \in Path, NEW tok \in used,
         Unlock(w, p, tok)
  PROVE  IInv'
<1>1. PICK r : \E searched :
        /\ LET d == Purge(Queried({p}, now), searched, now)
           IN  db' \in Saved(d, RemoveLock(d, r, tok, now), r)
        /\ session' = [session EXCEPT ![w] =
             [op |-> "unlock", token |-> tok, todo |-> WalkedMembers(r)]]
  BY DEF Unlock
<1>2. holder' = w /\ UNCHANGED <<exists, now, used>>
  BY DEF Unlock
<1>3. PICK searched :
        LET d == Purge(Queried({p}, now), searched, now)
        IN  db' \in Saved(d, RemoveLock(d, r, tok, now), r)
  BY <1>1
<1> DEFINE d == Purge(Queried({p}, now), searched, now)
           s == [op |-> "unlock", token |-> tok, todo |-> WalkedMembers(r)]
<1>4. d \in Database /\ ExclusiveAt(d, now)
  BY QueriedNow, PurgeKeeps, PurgeExclusive
<1> HIDE DEF d
<1>5. db' \in Database /\ ExclusiveAt(db', now)
  BY <1>3, <1>4, RemoveLockAnywhere, SavedKeeps DEF d
<1>6. s \in Session /\ s.op \notin Creating
  BY Untouched DEF Session, WalkedMembers, Members, Creating
<1>7. session' = [session EXCEPT ![w] = s]
  BY <1>1
<1> HIDE DEF s
<1> QED BY <1>2, <1>5, <1>6, <1>7, Untouched, WorkerStep

\* One step of the walk of an UNLOCK or a DELETE: what it does to the session.
LEMMA RemoveStep ==
  ASSUME IInv, NEW w \in Worker, NEW q \in Path,
         UnlockMember(w, q) \/ DeleteClear(w, q) \/ RemoveFails(w, q)
  PROVE  /\ session[w].op \in {"unlock", "clear"}
         /\ UNCHANGED <<exists, now, used, holder>>
         /\ \E s \in Session : /\ session' = [session EXCEPT ![w] = s]
                               /\ s.op = session[w].op
<1>1. /\ session \in [Worker -> Session] /\ session[w] \in Session
      /\ session[w].op \in {"unlock", "clear"}
      /\ UNCHANGED <<exists, now, used, holder>>
  BY Untouched DEF UnlockMember, DeleteClear, RemoveFails
<1>2. PICK found \in SUBSET Path :
        session' = [session EXCEPT ![w].todo = (@ \ {q}) \cup found]
  <2>1. CASE UnlockMember(w, q) \/ DeleteClear(w, q)
    <3>1. PICK found \in Found(WalkedMembers(q), q) :
            session' = [session EXCEPT ![w].todo = (@ \ {q}) \cup found]
      BY <2>1 DEF UnlockMember, DeleteClear
    <3>2. WalkedMembers(q) \in SUBSET Path
      BY DEF WalkedMembers, Members
    <3>3. found \in SUBSET Path
      BY <3>2, FoundIs
    <3> QED BY <3>1, <3>3
  <2>2. CASE RemoveFails(w, q)
    <3>1. session' = [session EXCEPT ![w].todo = (@ \ {q}) \cup {}]
      BY <2>2 DEF RemoveFails
    <3> QED BY <3>1
  <2> QED BY <2>1, <2>2
<1> DEFINE S == (session[w].todo \ {q}) \cup found
           s == [session[w] EXCEPT !.todo = S]
<1>3. session' = [session EXCEPT ![w] = s]
  BY <1>1, <1>2
<1>4. S \in SUBSET Path
  BY <1>1, SessionKinds
<1> HIDE DEF S
<1>5. s \in Session /\ s.op = session[w].op
  BY <1>1, <1>4, WalkMovesOn
<1> HIDE DEF s
<1> QED BY <1>1, <1>3, <1>5

LEMMA UnlockMemberKeeps ==
  ASSUME IInv, NEW w \in Worker, NEW q \in Path,
         UnlockMember(w, q) \/ RemoveFails(w, q)
  PROVE  IInv'
<1>1. PICK s \in Session : /\ session' = [session EXCEPT ![w] = s]
                           /\ s.op = session[w].op
  BY RemoveStep
<1>2. s.op \notin Creating /\ UNCHANGED <<exists, now, used, holder>>
  BY <1>1, RemoveStep DEF Creating
<1>3. Purge(db, {q}, now) \in Database /\ ExclusiveAt(Purge(db, {q}, now), now)
  BY Untouched, PurgeKeeps, PurgeExclusive
<1>4. db' \in Database /\ ExclusiveAt(db', now)
  <2>1. CASE UnlockMember(w, q)
    <3>1. /\ RemoveLock(db, q, session[w].token, now) \in Database
          /\ ExclusiveAt(RemoveLock(db, q, session[w].token, now), now)
      BY Untouched, RemoveLockKeeps
    <3> QED BY <1>3, <2>1, <3>1, SavedKeeps DEF UnlockMember
  <2>2. CASE RemoveFails(w, q)
    BY <1>3, <2>2, Untouched DEF RemoveFails
  <2> QED BY <2>1, <2>2
<1> QED BY <1>1, <1>2, <1>4, Untouched, WorkerStep

LEMMA CreateKeeps ==
  ASSUME IInv, NEW w \in Worker, NEW p \in Path, Create(w, p)
  PROVE  IInv'
<1> DEFINE s == [op |-> "validate", path |-> p, locknull |-> HasLocks(db, p)]
<1>1. /\ Parent[p] \in exists
      /\ session' = [session EXCEPT ![w] = s]
      /\ UNCHANGED <<exists, db, now, used, holder>>
  BY DEF Create
<1>2. s \in Session /\ s.path = p
  BY DEF Session, HasLocks
<1> HIDE DEF s
<1>3. Parent[s.path] \in Path
  BY <1>1, <1>2, Untouched
<1> QED BY <1>1, <1>2, <1>3, Untouched, WorkerStep

\* The session of a PUT or MKCOL goes on to its next phase.
LEMMA CreateGoesOn ==
  ASSUME IInv, NEW w \in Worker, session[w].op \in Creating,
         NEW op \in Creating
  PROVE  LET s == [session[w] EXCEPT !.op = op]
         IN  /\ s \in Session
             /\ Parent[s.path] \in Path
             /\ [session EXCEPT ![w].op = op] = [session EXCEPT ![w] = s]
<1>1. session[w] \in [op : Creating, path : Path, locknull : BOOLEAN]
  BY Untouched, SessionKinds
<1>2. Parent[session[w].path] \in Path
  BY DEF IInv, CreatesInTree
<1>3. [session[w] EXCEPT !.op = op]
        \in [op : Creating, path : Path, locknull : BOOLEAN]
      /\ [session[w] EXCEPT !.op = op].path = session[w].path
  BY <1>1
<1>4. [session[w] EXCEPT !.op = op] \in Session
  BY <1>3 DEF Session, Creating
<1> QED BY <1>2, <1>3, <1>4, Untouched

LEMMA CreateValidatedKeeps ==
  ASSUME IInv, NEW w \in Worker, NEW submitted, CreateValidated(w, submitted)
  PROVE  IInv'
<1>1. PICK u \in Later :
        LET S == CreateScope(session[w])
        IN  \/ /\ db' = Queried(S, u) /\ now' = u
               /\ session' = [session EXCEPT ![w].op = "store"]
            \/ /\ UNCHANGED <<db, now>>
               /\ session' = [session EXCEPT ![w] = Idle]
  BY DEF CreateValidated
<1>2. session[w].op \in Creating /\ UNCHANGED <<exists, used, holder>>
  BY DEF CreateValidated, Creating
<1>3. CASE /\ db' = Queried(CreateScope(session[w]), u) /\ now' = u
           /\ session' = [session EXCEPT ![w].op = "store"]
  <2>1. db' \in Database /\ ExclusiveAt(db', now') /\ now' \in Nat
    BY <1>3, QueriedKeeps
  <2> DEFINE s == [session[w] EXCEPT !.op = "store"]
  <2>2. /\ s \in Session /\ Parent[s.path] \in Path
        /\ session' = [session EXCEPT ![w] = s]
    BY <1>2, <1>3, CreateGoesOn DEF Creating
  <2> HIDE DEF s
  <2>3. session' \in [Worker -> Session] /\ CreatesInTree'
    BY <2>2, SessionStep
  <2> QED BY <1>2, <2>1, <2>3, DatabaseStep DEF IInv, TypeOK
<1>4. CASE /\ UNCHANGED <<db, now>>
           /\ session' = [session EXCEPT ![w] = Idle]
  BY <1>2, <1>4, Untouched, IdleIsSession, WorkerStep
<1> QED BY <1>1, <1>3, <1>4

LEMMA CreateStoredKeeps ==
  ASSUME IInv, NEW w \in Worker, CreateStored(w)
  PROVE  IInv'
<1>1. session[w].op \in Creating /\ UNCHANGED <<db, now, used, holder>>
  BY DEF CreateStored, Creating
<1>2. CASE /\ exists' = exists \cup {session[w].path}
           /\ session' = [session EXCEPT ![w].op = "inherit"]
  <2> DEFINE s == [session[w] EXCEPT !.op = "inherit"]
  <2>1. /\ s \in Session /\ Parent[s.path] \in Path
        /\ session' = [session EXCEPT ![w] = s]
    BY <1>1, <1>2, CreateGoesOn DEF Creating
  <2>2. session[w].path \in Path
    BY <1>1, Untouched, SessionKinds
  <2>3. exists' \in SUBSET Path
    BY <1>2, <2>2, Untouched
  <2> HIDE DEF s
  <2> QED BY <1>1, <2>1, <2>3, Untouched, WorkerStep
<1>3. CASE session' = [session EXCEPT ![w] = Idle] /\ UNCHANGED exists
  BY <1>1, <1>3, Untouched, IdleIsSession, WorkerStep
<1> QED BY <1>2, <1>3 DEF CreateStored

\* What a new path inherits is what its parent holds.
LEMMA CreateNotifiedKeeps ==
  ASSUME IInv, NEW w \in Worker, CreateNotified(w)
  PROVE  IInv'
<1> DEFINE s == session[w]
           locks == IF s.locknull THEN <<>>
                    ELSE Inheritable(PartialLocks(db, Parent[s.path], now))
           n == [op |-> "notify", locks |-> locks, todo |-> {s.path},
                 missed |-> {}]
<1>1. /\ s.op \in Creating /\ UNCHANGED <<exists, now, used>>
      /\ db' = db \/ db' = Purge(db, ParentOf(s.path), now)
      /\ \/ session' = [session EXCEPT ![w] = Idle] /\ UNCHANGED holder
         \/ session' = [session EXCEPT ![w] = n] /\ holder' = w
  BY DEF CreateNotified, Creating
<1>2. db' \in Database /\ ExclusiveAt(db', now)
  BY <1>1, Untouched, PurgeKeeps, PurgeExclusive
<1>3. s.path \in Path /\ Parent[s.path] \in Path
  BY <1>1, Untouched, SessionKinds DEF IInv, CreatesInTree
<1>4. Inheritable(PartialLocks(db, Parent[s.path], now)) \in Seq(HandedLock)
  <2> DEFINE l == PartialLocks(db, Parent[s.path], now)
  <2>1. l \in Seq(HandedLock)
    BY <1>3, Untouched, PartialLocksType
  <2> HIDE DEF l
  <2>2. Inheritable(l) \in Seq(HandedLock)
    BY <2>1, PickKeeps DEF Inheritable
  <2> QED BY <2>2 DEF l
<1>5. locks \in Seq(HandedLock)
  BY <1>4
<1> HIDE DEF locks
<1>6. n \in Session /\ n.op \notin Creating
  BY <1>3, <1>5 DEF Session, Creating
<1> HIDE DEF n
<1>7. CASE session' = [session EXCEPT ![w] = Idle] /\ UNCHANGED holder
  BY <1>1, <1>2, <1>7, Untouched, IdleIsSession, WorkerStep
<1>8. CASE session' = [session EXCEPT ![w] = n] /\ holder' = w
  BY <1>1, <1>2, <1>6, <1>8, Untouched, WorkerStep
<1> QED BY <1>1, <1>7, <1>8

LEMMA DeleteKeeps ==
  ASSUME IInv, NEW w \in Worker, NEW p \in Path, NEW submitted,
         Delete(w, p, submitted)
  PROVE  IInv'
<1> DEFINE s == [op |-> "clear", path |-> p, todo |-> WalkedMembers(p)]
<1>1. PICK u \in Later :
        /\ db' \in Saved(Queried(DeleteScope(p), u),
                         RemoveAll(Queried(DeleteScope(p), u), p), p)
        /\ now' = u
        /\ session' = [session EXCEPT ![w] = s]
        /\ holder' = w
  BY DEF Delete
<1>2. UNCHANGED <<exists, used>>
  BY DEF Delete
<1>3. db' \in Database /\ ExclusiveAt(db', now') /\ now' \in Nat
  <2> DEFINE d == Queried(DeleteScope(p), u)
  <2>1. u \in Nat /\ d \in Database /\ ExclusiveAt(d, u)
    BY QueriedKeeps
  <2> HIDE DEF d
  <2>2. RemoveAll(d, p) \in Database /\ ExclusiveAt(RemoveAll(d, p), u)
    BY <2>1, RemoveAllKeeps
  <2> QED BY <1>1, <2>1, <2>2, SavedKeeps DEF d
<1>4. s \in Session /\ s.op \notin Creating
  BY DEF Session, WalkedMembers, Members, Creating
<1> HIDE DEF s
<1>5. session' \in [Worker -> Session] /\ CreatesInTree'
  BY <1>1, <1>4, SessionStep
<1> QED BY <1>1, <1>2, <1>3, <1>5, DatabaseStep DEF IInv, TypeOK

LEMMA DeleteClearKeeps ==
  ASSUME IInv, NEW w \in Worker, NEW q \in Path, DeleteClear(w, q)
  PROVE  IInv'
<1>1. PICK s \in Session : /\ session' = [session EXCEPT ![w] = s]
                           /\ s.op = session[w].op
  BY RemoveStep
<1>2. s.op \notin Creating /\ UNCHANGED <<exists, now, used, holder>>
  BY <1>1, RemoveStep DEF Creating
<1>3. db' \in Database /\ ExclusiveAt(db', now)
  BY Untouched, RemoveAllKeeps, SavedKeeps DEF DeleteClear
<1> QED BY <1>1, <1>2, <1>3, Untouched, WorkerStep

LEMMA DeleteClearedKeeps ==
  ASSUME IInv, NEW w \in Worker, DeleteCleared(w)
  PROVE  IInv'
<1> DEFINE s == [op |-> "remove", path |-> session[w].path]
<1>1. /\ session[w].op = "clear"
      /\ session' = [session EXCEPT ![w] = s]
      /\ holder' = NoWorker
      /\ UNCHANGED <<exists, db, now, used>>
  BY DEF DeleteCleared
<1>2. session[w].path \in Path
  BY <1>1, Untouched, SessionKinds
<1>3. s \in Session /\ s.op \notin Creating
  BY <1>2 DEF Session, Creating
<1> HIDE DEF s
<1> QED BY <1>1, <1>3, Untouched, WorkerStep

LEMMA DeleteRemovedKeeps ==
  ASSUME IInv, NEW w \in Worker, DeleteRemoved(w)
  PROVE  IInv'
<1>1. /\ session' = [session EXCEPT ![w] = Idle]
      /\ UNCHANGED <<db, now, used, holder>>
      /\ exists' \in SUBSET Path
  BY Untouched DEF DeleteRemoved
<1> QED BY <1>1, Untouched, IdleIsSession, WorkerStep

LEMMA CrashKeeps ==
  ASSUME IInv, NEW w \in Worker, Crash(w)
  PROVE  IInv'
<1>1. /\ session' = [session EXCEPT ![w] = Idle]
      /\ holder' \in Worker \cup {NoWorker}
      /\ UNCHANGED <<exists, db, now, used>>
  BY Untouched DEF Crash
<1> QED BY <1>1, Untouched, IdleIsSession, WorkerStep

LEMMA TickKeeps ==
  ASSUME IInv, Tick
  PROVE  IInv'
<1>1. now' = now + 1 /\ UNCHANGED <<exists, db, used, holder, session>>
  BY DEF Tick
<1>2. now \in Nat /\ now' \in Nat /\ now <= now'
  BY <1>1, DatabaseNow
<1>3. ExclusiveAt(db, now')
  BY <1>2, Untouched, LaterExclusiveAt
<1>4. db' \in Database /\ ExclusiveAt(db', now')
  BY <1>1, <1>3, Untouched
<1>5. CreatesInTree'
  BY <1>1 DEF IInv, CreatesInTree
<1> QED BY <1>1, <1>2, <1>4, <1>5, DatabaseStep DEF IInv, TypeOK

-----------------------------------------------------------------------------
(* The theorems.                                                           *)

LEMMA NextKeeps == IInv /\ [Next]_vars => IInv'
<1> SUFFICES ASSUME IInv, [Next]_vars PROVE IInv'
  OBVIOUS
<1>1. ASSUME NEW w \in Worker, Request(w) PROVE IInv'
  <2>1. PICK p \in Path :
          \/ \E scope \in Scope, depth \in Depth, secs \in Seconds,
                submitted \in SUBSET used, tok \in Token :
               Lock(w, p, scope, depth, secs, submitted, tok)
          \/ Query(w, p)
          \/ \E tok \in used, secs \in Seconds : Refresh(w, p, tok, secs)
          \/ \E tok \in used : Unlock(w, p, tok)
          \/ Create(w, p)
          \/ \E submitted \in SUBSET used : Delete(w, p, submitted)
    BY <1>1 DEF Request
  <2> QED BY <2>1, LockKeeps, QueryKeeps, RefreshKeeps, UnlockKeeps,
             CreateKeeps, DeleteKeeps
<1>2. ASSUME NEW w \in Worker, Progress(w) PROVE IInv'
  BY <1>2, InheritMemberKeeps, UnlockMemberKeeps, DeleteClearKeeps,
     WalkDoneKeeps, CreateValidatedKeeps, CreateStoredKeeps,
     CreateNotifiedKeeps, DeleteClearedKeeps, DeleteRemovedKeeps
     DEF Progress, GoesOn, CallFails
<1>3. ASSUME NEW w \in Worker, Crash(w) PROVE IInv'
  BY <1>3, CrashKeeps
<1>4. CASE Tick
  BY <1>4, TickKeeps
<1>5. CASE UNCHANGED vars
  BY <1>5 DEF vars, IInv, TypeOK, RecordExclusive, CreatesInTree
<1> QED BY <1>1, <1>2, <1>3, <1>4, <1>5 DEF Next

\* The inductive invariant: the types, the exclusive locks, and that whatever
\* is being created has a parent in the tree, whose locks it will be given.
THEOREM Invariance == Spec => []IInv
BY InitKeeps, NextKeeps, PTL DEF Spec

\* The state of the lock database and of the workers is well formed: what the
\* hooks of lock_local.c save is what they can load.
THEOREM LockingTypes == Spec => []TypeOK
<1>1. IInv => TypeOK
  BY DEF IInv
<1> QED BY <1>1, Invariance, PTL

\* Of two direct locks of one record that are both alive, both are shared, in
\* every state that the hooks of lock_local.c and the walks can reach.
THEOREM ExclusiveLocksAlone == Spec => []RecordExclusive
<1>1. IInv => RecordExclusive
  BY DEF IInv
<1> QED BY <1>1, Invariance, PTL

-----------------------------------------------------------------------------
(* The tree.                                                               *)

\* What is above a path is above its members, and so is the path itself.
LEMMA AboveMembers ==
  ASSUME NEW p \in Path, NEW q \in Path, Parent[q] = p
  PROVE  p \in Ancestors[q] /\ Ancestors[p] \subseteq Ancestors[q]
<1>1. \A x \in Path :
        Ancestors[x] = {a \in Path : \A S \in SUBSET Path :
          HasParentOf(S, x) /\ (\A y \in S : HasParentOf(S, y)) => a \in S}
  BY DEF Ancestors
<1>2. ASSUME NEW S \in SUBSET Path, HasParentOf(S, q),
             \A y \in S : HasParentOf(S, y)
      PROVE  p \in S /\ HasParentOf(S, p)
  BY <1>2, TreeAssumption DEF HasParentOf
<1>3. p \in Ancestors[q]
  BY <1>1, <1>2
<1>4. ASSUME NEW a \in Ancestors[p] PROVE a \in Ancestors[q]
  <2>1. /\ a \in Path
        /\ \A S \in SUBSET Path :
             HasParentOf(S, p) /\ (\A y \in S : HasParentOf(S, y)) => a \in S
    BY <1>1, <1>4
  <2>2. ASSUME NEW S \in SUBSET Path, HasParentOf(S, q),
               \A y \in S : HasParentOf(S, y)
        PROVE  a \in S
    BY <1>2, <2>1, <2>2
  <2> QED
    BY <1>1, <2>1, <2>2
<1> QED
  BY <1>3, <1>4

-----------------------------------------------------------------------------
(* Records that agree with a map from tokens to paths.                     *)

\* The entries of a are entries of b.
Drawn(a, b) == \A i \in DOMAIN a : \E j \in DOMAIN b : a[i] = b[j]

DirectRooted(s, p, root, U) ==
  \A i \in DOMAIN s : s[i].token \in U /\ root[s[i].token] = p

IndirectRooted(s, p, root, U) ==
  \A i \in DOMAIN s : /\ s[i].token \in U /\ root[s[i].token] = s[i].key
                      /\ s[i].key \in Ancestors[p]

RecordRooted(r, p, root, U) ==
  DirectRooted(r.direct, p, root, U) /\ IndirectRooted(r.indirect, p, root, U)

Rooted(d, root, U) == \A p \in Path : RecordRooted(d[p], p, root, U)

\* What a walk of LOCK or of dav_notify_created hands down.
HandsRooted(s, root, U) ==
  s.op \in {"lock", "notify"} =>
    \A i \in DOMAIN s.locks :
      /\ s.locks[i].token \in U /\ root[s.locks[i].token] = s.locks[i].key
      /\ \A q \in s.todo : s.locks[i].key \in Ancestors[q]

\* All agree.
AgreeOn(root) ==
  Rooted(db, root, used) /\ \A w \in Worker : HandsRooted(session[w], root, used)

Roots == [Token -> Path \cup {NoPath}]

RInv == IInv /\ \E root \in Roots : AgreeOn(root)

\* Fewer entries agree as well.
LEMMA DrawnRooted ==
  ASSUME NEW a, NEW b, Drawn(a, b), NEW p, NEW root, NEW U
  PROVE  /\ DirectRooted(b, p, root, U) => DirectRooted(a, p, root, U)
         /\ IndirectRooted(b, p, root, U) => IndirectRooted(a, p, root, U)
  BY DEF Drawn, DirectRooted, IndirectRooted

LEMMA EmbedsDrawn == ASSUME NEW a, NEW b, Embeds(a, b) PROVE Drawn(a, b)
  BY DEF Embeds, Drawn

\* load_lock_record.
LEMMA LoadRooted ==
  ASSUME NEW r \in LockRecord, NEW t, NEW p, NEW root, NEW U,
         RecordRooted(r, p, root, U)
  PROVE  RecordRooted(LoadRecord(r, t), p, root, U)
<1> DEFINE dl == Reverse(Pick(r.direct, Live(r.direct, t)))
           il == Reverse(Pick(r.indirect, Live(r.indirect, t)))
<1>1. r.direct \in Seq(DirectLock) /\ r.indirect \in Seq(IndirectLock)
  BY DEF LockRecord
<1>2. Drawn(dl, r.direct) /\ Drawn(il, r.indirect)
  BY <1>1, LoadedList, EmbedsDrawn
<1>3. LoadRecord(r, t) = [direct |-> dl, indirect |-> il]
  BY DEF LoadRecord
<1> HIDE DEF dl, il
<1> QED
  BY <1>2, <1>3, DrawnRooted DEF RecordRooted

LEMMA PurgeRooted ==
  ASSUME NEW d \in Database, NEW keys, NEW t, NEW root, NEW U, Rooted(d, root, U)
  PROVE  Rooted(Purge(d, keys, t), root, U)
<1>1. ASSUME NEW p \in Path PROVE RecordRooted(Purge(d, keys, t)[p], p, root, U)
  <2>1. d[p] \in LockRecord /\ RecordRooted(d[p], p, root, U)
    BY DEF Database, Rooted
  <2>2. Purge(d, keys, t)[p] = d[p] \/ Purge(d, keys, t)[p] = LoadRecord(d[p], t)
    BY DEF Purge
  <2> QED
    BY <2>1, <2>2, LoadRooted
<1> QED
  BY <1>1 DEF Rooted

\* A record is replaced by one that agrees.
LEMMA ReplacedRooted ==
  ASSUME NEW d \in Database, NEW p, NEW r, NEW root, NEW U,
         Rooted(d, root, U), p \in Path => RecordRooted(r, p, root, U)
  PROVE  Rooted([d EXCEPT ![p] = r], root, U)
<1>1. ASSUME NEW q \in Path PROVE RecordRooted([d EXCEPT ![p] = r][q], q, root, U)
  <2>1. [d EXCEPT ![p] = r][q] = IF q = p THEN r ELSE d[q]
    BY DEF Database
  <2> QED
    BY <2>1 DEF Rooted
<1> QED
  BY <1>1 DEF Rooted

\* append_locks of the lock that was created.
LEMMA AppendDirectRooted ==
  ASSUME NEW d \in Database, NEW p \in Path, NEW lock \in DirectLock, NEW t,
         NEW root, NEW U, Rooted(d, root, U),
         lock.token \in U, root[lock.token] = p
  PROVE  Rooted(AppendDirect(d, p, lock, t), root, U)
<1> DEFINE r == LoadRecord(d[p], t)
           new == [r EXCEPT !.direct = <<lock>> \o r.direct]
<1>1. r \in LockRecord /\ RecordRooted(r, p, root, U)
  BY LoadKeeps, LoadRooted DEF Database, Rooted
<1>2. AppendDirect(d, p, lock, t) = [d EXCEPT ![p] = new]
  BY DEF AppendDirect
<1> HIDE DEF r
<1>3. r.direct \in Seq(DirectLock) /\ new.direct = <<lock>> \o r.direct
      /\ new.indirect = r.indirect
  BY <1>1 DEF LockRecord
<1> DEFINE s == <<lock>> \o r.direct
<1>4. \A i \in DOMAIN s : s[i] = lock \/ \E j \in DOMAIN r.direct : s[i] = r.direct[j]
  BY <1>3
<1> HIDE DEF s, new
<1>5. DirectRooted(s, p, root, U)
  BY <1>1, <1>4 DEF RecordRooted, DirectRooted
<1>6. RecordRooted(new, p, root, U)
  BY <1>1, <1>3, <1>5 DEF RecordRooted, s
<1>7. Rooted([d EXCEPT ![p] = new], root, U)
  BY <1>6, ReplacedRooted
<1> QED
  BY <1>2, <1>7

\* append_locks of what a walk hands down.
LEMMA AppendIndirectRooted ==
  ASSUME NEW d \in Database, NEW p \in Path, NEW locks \in Seq(HandedLock), NEW t,
         NEW root, NEW U, Rooted(d, root, U),
         \A i \in DOMAIN locks :
           /\ locks[i].token \in U /\ root[locks[i].token] = locks[i].key
           /\ locks[i].key \in Ancestors[p]
  PROVE  Rooted(AppendIndirect(d, p, locks, t), root, U)
<1> DEFINE r == LoadRecord(d[p], t)
           given == [i \in DOMAIN locks |->
                       [token |-> locks[i].token, timeout |-> locks[i].timeout,
                        key |-> locks[i].key]]
           back == Reverse(given)
           new == [r EXCEPT !.indirect = back \o r.indirect]
<1>1. r \in LockRecord /\ RecordRooted(r, p, root, U)
  BY LoadKeeps, LoadRooted DEF Database, Rooted
<1>2. AppendIndirect(d, p, locks, t) = [d EXCEPT ![p] = new]
  BY DEF AppendIndirect, Image
<1>3. given \in Seq(IndirectLock)
  <2>1. \A i \in DOMAIN locks : locks[i] \in HandedLock
    OBVIOUS
  <2>2. \A i \in DOMAIN locks : given[i] \in IndirectLock
    BY <2>1 DEF HandedLock, IndirectLock
  <2> QED
    BY <2>2
<1>4. IndirectRooted(given, p, root, U)
  BY DEF IndirectRooted
<1> HIDE DEF r, given
<1>5. back \in Seq(IndirectLock) /\ IndirectRooted(back, p, root, U)
  BY <1>3, <1>4, ReverseKeeps, EmbedsDrawn, DrawnRooted
<1> HIDE DEF back
<1>6. r.indirect \in Seq(IndirectLock) /\ new.indirect = back \o r.indirect
      /\ new.direct = r.direct
  BY <1>1 DEF LockRecord
<1> DEFINE s == back \o r.indirect
<1>7. \A i \in DOMAIN s : \/ \E j \in DOMAIN back : s[i] = back[j]
                          \/ \E j \in DOMAIN r.indirect : s[i] = r.indirect[j]
  <2>1. /\ Len(back) \in Nat /\ Len(r.indirect) \in Nat
        /\ DOMAIN s = 1 .. Len(back) + Len(r.indirect)
        /\ DOMAIN back = 1 .. Len(back) /\ DOMAIN r.indirect = 1 .. Len(r.indirect)
        /\ \A i \in DOMAIN s : s[i] = IF i <= Len(back) THEN back[i]
                                      ELSE r.indirect[i - Len(back)]
    BY <1>5, <1>6
  <2> HIDE DEF s
  <2>2. ASSUME NEW i \in DOMAIN s, i > Len(back)
        PROVE  i - Len(back) \in DOMAIN r.indirect
    BY <2>1, <2>2
  <2>3. ASSUME NEW i \in DOMAIN s, i <= Len(back) PROVE i \in DOMAIN back
    BY <2>1, <2>3
  <2> QED
    BY <2>1, <2>2, <2>3
<1> HIDE DEF s, new
<1>8. IndirectRooted(s, p, root, U)
  BY <1>1, <1>5, <1>7 DEF RecordRooted, IndirectRooted
<1>9. RecordRooted(new, p, root, U)
  BY <1>1, <1>6, <1>8 DEF RecordRooted, s
<1>10. Rooted([d EXCEPT ![p] = new], root, U)
  BY <1>9, ReplacedRooted
<1> QED
  BY <1>2, <1>10

\* remove_lock, whatever it unlinks.
LEMMA RemoveLockRooted ==
  ASSUME NEW d \in Database, NEW p, NEW tok, NEW t, NEW root, NEW U,
         Rooted(d, root, U)
  PROVE  Rooted(RemoveLock(d, p, tok, t), root, U)
<1> DEFINE r == LoadRecord(d[p], t)
           new == [direct   |-> Unlink(r.direct, tok),
                   indirect |-> Unlink(r.indirect, tok)]
<1>1. RemoveLock(d, p, tok, t) = [d EXCEPT ![p] = new]
  BY DEF RemoveLock
<1>2. ASSUME p \in Path PROVE RecordRooted(new, p, root, U)
  <2>1. r \in LockRecord /\ RecordRooted(r, p, root, U)
    BY <1>2, LoadKeeps, LoadRooted DEF Database, Rooted
  <2> HIDE DEF r
  <2>2. r.direct \in Seq(DirectLock) /\ r.indirect \in Seq(IndirectLock)
    BY <2>1 DEF LockRecord
  <2>3. /\ Drawn(Unlink(r.direct, tok), r.direct)
        /\ Drawn(Unlink(r.indirect, tok), r.indirect)
    BY <2>2, PickKeeps, EmbedsDrawn DEF Unlink
  <2> QED
    BY <2>1, <2>3, DrawnRooted DEF RecordRooted
<1> HIDE DEF new
<1>3. Rooted([d EXCEPT ![p] = new], root, U)
  BY <1>2, ReplacedRooted
<1> QED
  BY <1>1, <1>3

LEMMA RemoveAllRooted ==
  ASSUME NEW d \in Database, NEW p, NEW root, NEW U, Rooted(d, root, U)
  PROVE  Rooted(RemoveAll(d, p), root, U)
<1>1. RecordRooted(NoLocks, p, root, U)
  BY DEF RecordRooted, DirectRooted, IndirectRooted, NoLocks
<1> QED
  BY <1>1, ReplacedRooted DEF RemoveAll

\* What is saved, whether or not a delete fails.
LEMMA SavedRooted ==
  ASSUME NEW d, NEW left, NEW q, NEW root, NEW U,
         Rooted(d, root, U), Rooted(left, root, U), NEW e \in Saved(d, left, q)
  PROVE  Rooted(e, root, U)
<1>1. e = left \/ e = d
  BY DEF Saved
<1> QED
  BY <1>1

\* A refresh moves a timeout and nothing else.
LEMMA RefreshRecordRooted ==
  ASSUME NEW r \in LockRecord, NEW tok, NEW timeout, NEW p, NEW root, NEW U,
         RecordRooted(r, p, root, U)
  PROVE  RecordRooted(RefreshRecord(r, tok, timeout), p, root, U)
<1> DEFINE s == Refreshed(r.direct, tok, timeout)
<1>1. \A i \in DOMAIN r.direct : r.direct[i] \in DirectLock
  BY DEF LockRecord
<1>2. DOMAIN s = DOMAIN r.direct
      /\ \A i \in DOMAIN r.direct : s[i].token = r.direct[i].token
  BY <1>1 DEF Refreshed, DirectLock
<1>3. RefreshRecord(r, tok, timeout) = [direct |-> s, indirect |-> r.indirect]
  BY DEF RefreshRecord, LockRecord
<1> HIDE DEF s
<1> QED
  BY <1>2, <1>3 DEF RecordRooted, DirectRooted

LEMMA RefreshLocksRooted ==
  ASSUME NEW d \in Database, NEW p \in Path, NEW tok, NEW timeout \in Nat, NEW t,
         ExclusiveAt(d, t), NEW root, NEW U, Rooted(d, root, U)
  PROVE  Rooted(RefreshLocks(d, p, tok, timeout, t), root, U)
<1>1. ASSUME NEW e \in Database, Rooted(e, root, U), NEW q \in Path
      PROVE  RecordRooted(RefreshRecord(LoadRecord(e[q], t), tok, timeout), q, root, U)
  <2>1. e[q] \in LockRecord /\ RecordRooted(e[q], q, root, U)
    BY <1>1 DEF Database, Rooted
  <2>2. LoadRecord(e[q], t) \in LockRecord
    BY <2>1, LoadKeeps
  <2> QED
    BY <2>1, <2>2, LoadRooted, RefreshRecordRooted
<1> DEFINE e == RefreshDirect(d, p, tok, timeout, t)
<1>2. e \in Database
  BY RefreshDirectKeeps
<1>3. Rooted(e, root, U)
  <2>1. \/ e = [d EXCEPT ![p] = RefreshRecord(LoadRecord(d[p], t), tok, timeout)]
        \/ e = Purge(d, {p}, t)
    BY DEF RefreshDirect
  <2> HIDE DEF e
  <2> QED
    BY <1>1, <2>1, ReplacedRooted, PurgeRooted
<1> HIDE DEF e
<1> DEFINE ips == LoadRecord(d[p], t).indirect
           new == RefreshIndirect(e, ips, tok, timeout, t)
<1>4. PICK hit, keys :
        new = [q \in Path |->
                 IF q \in hit THEN RefreshRecord(LoadRecord(e[q], t), tok, timeout)
                 ELSE Purge(e, keys, t)[q]]
  BY DEF RefreshIndirect
<1>5. new = RefreshLocks(d, p, tok, timeout, t)
  BY DEF RefreshLocks, e
<1> HIDE DEF new
<1>6. ASSUME NEW q \in Path PROVE RecordRooted(new[q], q, root, U)
  <2>1. Rooted(Purge(e, keys, t), root, U)
    BY <1>2, <1>3, PurgeRooted
  <2>2. \/ new[q] = RefreshRecord(LoadRecord(e[q], t), tok, timeout)
        \/ new[q] = Purge(e, keys, t)[q]
    BY <1>4
  <2> QED
    BY <1>1, <1>2, <1>3, <2>1, <2>2 DEF Rooted
<1>7. Rooted(new, root, U)
  BY <1>6 DEF Rooted
<1> QED
  BY <1>5, <1>7

\* What a DAV_GETLOCKS_PARTIAL query of p hands out is rooted at p or above it.
LEMMA PartialRooted ==
  ASSUME NEW d \in Database, NEW p \in Path, NEW t, NEW root, NEW U,
         Rooted(d, root, U), NEW n \in DOMAIN PartialLocks(d, p, t)
  PROVE  LET lock == PartialLocks(d, p, t)[n]
         IN  /\ lock.token \in U /\ root[lock.token] = lock.key
             /\ lock.key = p \/ lock.key \in Ancestors[p]
<1> DEFINE r == LoadRecord(d[p], t)
           a == [i \in DOMAIN r.direct |->
                   [rectype |-> "direct", token |-> r.direct[i].token,
                    depth |-> r.direct[i].depth,
                    timeout |-> r.direct[i].timeout, key |-> p]]
           b == [i \in DOMAIN r.indirect |->
                   [rectype |-> "partial", token |-> r.indirect[i].token,
                    depth |-> "zero", timeout |-> DAV_TIMEOUT_INFINITE,
                    key |-> r.indirect[i].key]]
           Good(lock) == /\ lock.token \in U /\ root[lock.token] = lock.key
                         /\ lock.key = p \/ lock.key \in Ancestors[p]
<1>1. r \in LockRecord /\ RecordRooted(r, p, root, U)
  BY LoadKeeps, LoadRooted DEF Database, Rooted
<1>2. PartialLocks(d, p, t) = Reverse(a \o b)
  BY DEF PartialLocks, Image
<1> HIDE DEF r
<1>3. r.direct \in Seq(DirectLock) /\ r.indirect \in Seq(IndirectLock)
  BY <1>1 DEF LockRecord
<1>4. (\A i \in DOMAIN a : Good(a[i])) /\ (\A i \in DOMAIN b : Good(b[i]))
  BY <1>1 DEF RecordRooted, DirectRooted, IndirectRooted
<1>5. a \in Seq({a[i] : i \in DOMAIN a}) /\ b \in Seq({b[i] : i \in DOMAIN b})
  <2>1. /\ DOMAIN a = 1 .. Len(r.direct) /\ DOMAIN b = 1 .. Len(r.indirect)
        /\ Len(r.direct) \in Nat /\ Len(r.indirect) \in Nat
        /\ a = [i \in 1 .. Len(r.direct) |-> a[i]]
        /\ b = [i \in 1 .. Len(r.indirect) |-> b[i]]
    BY <1>3
  <2> HIDE DEF a, b
  <2> QED
    BY <2>1
<1> HIDE DEF a, b, Good
<1> DEFINE S == {x \in {a[i] : i \in DOMAIN a} \cup {b[i] : i \in DOMAIN b} : Good(x)}
<1>6. a \in Seq(S) /\ b \in Seq(S)
  <2>1. \A x \in {a[i] : i \in DOMAIN a} : x \in S
    BY <1>4
  <2>2. \A x \in {b[i] : i \in DOMAIN b} : x \in S
    BY <1>4
  <2> HIDE DEF S
  <2> QED
    BY <1>5, <2>1, <2>2
<1>7. \A x \in S : Good(x)
  OBVIOUS
<1> HIDE DEF S
<1>8. a \o b \in Seq(S)
  BY <1>6
<1>9. Reverse(a \o b) \in Seq(S)
  BY <1>8, ReverseKeeps
<1>10. PartialLocks(d, p, t)[n] \in S
  BY <1>2, <1>9
<1> QED
  BY <1>7, <1>10 DEF Good

-----------------------------------------------------------------------------
(* The steps.                                                              *)

\* What the queries of a request leave.
LEMMA QueriedRooted ==
  ASSUME IInv, NEW S, NEW u, NEW root, NEW U, Rooted(db, root, U)
  PROVE  Rooted(Queried(S, u), root, U)
<1>1. db \in Database
  BY DatabaseNow
<1> DEFINE d == Purge(db, S, now)
<1>2. d \in Database /\ Rooted(d, root, U)
  BY <1>1, PurgeKeeps, PurgeRooted
<1> HIDE DEF d
<1>3. Queried(S, u) = Purge(d, UNION {ResolvedKeys(db, q, now) : q \in S}, u)
  BY DEF Queried, d
<1> QED
  BY <1>2, <1>3, PurgeRooted

\* One worker's session changes to another that agrees.
LEMMA WorkerAgrees ==
  ASSUME IInv, NEW root, AgreeOn(root), NEW w \in Worker, NEW s,
         s.op \in {"lock", "notify"} => HandsRooted(s, root, used),
         session' = [session EXCEPT ![w] = s], used' = used,
         Rooted(db', root, used)
  PROVE  AgreeOn(root)'
<1>1. session \in [Worker -> Session]
  BY Untouched
<1>2. ASSUME NEW v \in Worker PROVE HandsRooted(session'[v], root, used)
  <2>1. session'[v] = IF v = w THEN s ELSE session[v]
    BY <1>1
  <2>2. HandsRooted(s, root, used)
    BY DEF HandsRooted
  <2> QED
    BY <2>1, <2>2 DEF AgreeOn
<1>3. Rooted(db', root, used')
  OBVIOUS
<1>4. \A v \in Worker : HandsRooted(session'[v], root, used')
  BY <1>2
<1> QED
  BY <1>3, <1>4 DEF AgreeOn, Rooted, RecordRooted, DirectRooted, IndirectRooted,
     HandsRooted

\* A step that leaves the sessions and the tokens alone.
LEMMA DatabaseAgrees ==
  ASSUME NEW root, AgreeOn(root), Rooted(db', root, used),
         UNCHANGED <<session, used>>
  PROVE  AgreeOn(root)'
  BY DEF AgreeOn, Rooted, RecordRooted, DirectRooted, IndirectRooted, HandsRooted

\* A new lock: its token is on no record and in no walk, so that the root of it
\* can be chosen.
LEMMA LockAgrees ==
  ASSUME IInv, NEW root \in Roots, AgreeOn(root),
         NEW w \in Worker, NEW p \in Path, NEW scope \in Scope,
         NEW depth \in Depth, NEW secs \in Seconds, NEW submitted,
         NEW tok \in Token, Lock(w, p, scope, depth, secs, submitted, tok)
  PROVE  \E root2 \in Roots : AgreeOn(root2)'
<1> DEFINE S == LockScope(p, depth)
           timeout(u) == IF secs = 0 THEN DAV_TIMEOUT_INFINITE ELSE u + secs
           direct(u) == [token |-> tok, scope |-> scope, depth |-> depth,
                         timeout |-> timeout(u)]
           todo == IF depth = "infinity" THEN ExistingMembers(p) ELSE {}
           read == S \cup (IF p \in exists THEN {} ELSE ParentOf(p))
           lock(u) == [rectype |-> "direct", token |-> tok, depth |-> depth,
                       timeout |-> timeout(u), key |-> p]
           s(u) == [op |-> "lock", locks |-> <<lock(u)>>, todo |-> todo,
                    missed |-> {}]
<1>1. PICK u \in Later :
        /\ db' = AppendDirect(Queried(read, u), p, direct(u), u)
        /\ session' = [session EXCEPT ![w] = s(u)]
  BY DEF Lock
<1>2. tok \notin used /\ used' = used \cup {tok}
  BY DEF Lock
<1> DEFINE root2 == [root EXCEPT ![tok] = p]
           d == Queried(read, u)
<1>3. /\ root2 \in Roots /\ root2[tok] = p
      /\ \A x \in used : x \in Token /\ x # tok /\ root2[x] = root[x]
  BY <1>2, Untouched DEF Roots
<1> HIDE DEF root2
<1>4. \A q, r : RecordRooted(r, q, root, used) => RecordRooted(r, q, root2, used')
  BY <1>2, <1>3 DEF RecordRooted, DirectRooted, IndirectRooted
<1>5. \A x : HandsRooted(x, root, used) => HandsRooted(x, root2, used')
  BY <1>2, <1>3 DEF HandsRooted
<1>6. d \in Database /\ u \in Nat
  BY QueriedKeeps
<1>7. Rooted(d, root2, used')
  <2>1. Rooted(d, root, used)
    BY QueriedRooted DEF AgreeOn
  <2> QED
    BY <1>4, <2>1 DEF Rooted
<1> HIDE DEF d
<1>8. direct(u) \in DirectLock /\ direct(u).token = tok
  <2>1. timeout(u) \in Nat
    BY <1>6, TimeAssumption DEF DAV_TIMEOUT_INFINITE
  <2> HIDE DEF timeout
  <2> QED
    BY <2>1 DEF DirectLock
<1> DEFINE dl == direct(u)
<1>9. Rooted(AppendDirect(d, p, dl, u), root2, used')
  <2>1. dl \in DirectLock /\ dl.token \in used' /\ root2[dl.token] = p
    BY <1>2, <1>3, <1>8
  <2> HIDE DEF dl
  <2> QED
    BY <1>6, <1>7, <2>1, AppendDirectRooted
<1>10. Rooted(db', root2, used')
  BY <1>1, <1>9 DEF d
<1>11. HandsRooted(s(u), root2, used')
  <2>1. \A q \in todo : p \in Ancestors[q]
    BY AboveMembers DEF ExistingMembers, Members
  <2> HIDE DEF todo
  <2>2. s(u).locks = <<lock(u)>> /\ s(u).todo = todo
    OBVIOUS
  <2>3. \A i \in DOMAIN s(u).locks : s(u).locks[i] = lock(u)
    BY <2>2
  <2>4. lock(u).token = tok /\ lock(u).key = p
    OBVIOUS
  <2> HIDE DEF s, lock
  <2> QED
    BY <1>2, <1>3, <2>1, <2>2, <2>3, <2>4 DEF HandsRooted
<1> DEFINE new == s(u)
<1>12. session' = [session EXCEPT ![w] = new] /\ HandsRooted(new, root2, used')
  BY <1>1, <1>11
<1> HIDE DEF new
<1>13. ASSUME NEW v \in Worker PROVE HandsRooted(session'[v], root2, used')
  <2>1. session'[v] = IF v = w THEN new ELSE session[v]
    BY <1>12, Untouched
  <2> QED
    BY <1>5, <1>12, <2>1 DEF AgreeOn
<1>14. AgreeOn(root2)'
  BY <1>10, <1>13 DEF AgreeOn, Rooted, RecordRooted, DirectRooted,
     IndirectRooted, HandsRooted
<1> QED
  BY <1>3, <1>14

\* A walk hands its locks to the members of what it has just visited.
LEMMA InheritMemberAgrees ==
  ASSUME IInv, NEW root, AgreeOn(root), NEW w \in Worker, NEW q \in Path,
         InheritMember(w, q) \/ InheritFails(w, q)
  PROVE  AgreeOn(root)'
<1>1. PICK found \in SUBSET Onwards(session[w], q), lost \in SUBSET Path :
        session' = [session EXCEPT ![w] = Past(session[w], q, found, lost)]
  BY InheritStep
<1> DEFINE s == Past(session[w], q, found, lost)
<1>2. session' = [session EXCEPT ![w] = s]
  BY <1>1
<1>3. /\ session[w] \in Session /\ session[w].op \in {"lock", "notify"}
      /\ q \in session[w].todo /\ session[w].locks \in Seq(HandedLock)
      /\ found \in SUBSET Path /\ used' = used
  BY InheritStep
<1>4. s.locks = session[w].locks /\ s.todo = (session[w].todo \ {q}) \cup found
  BY <1>3, PastSession
<1> HIDE DEF s
<1>5. \A i \in DOMAIN session[w].locks :
        LET lock == session[w].locks[i]
        IN  /\ lock.token \in used /\ root[lock.token] = lock.key
            /\ \A x \in session[w].todo : lock.key \in Ancestors[x]
  BY <1>3 DEF AgreeOn, HandsRooted
<1>6. Rooted(db', root, used)
  <2>1. Rooted(AppendIndirect(db, q, session[w].locks, now), root, used)
    BY <1>3, <1>5, Untouched, AppendIndirectRooted DEF AgreeOn
  <2>2. Rooted(db, root, used) /\ Rooted(Purge(db, {q}, now), root, used)
    BY Untouched, PurgeRooted DEF AgreeOn
  <2> QED BY <2>1, <2>2, InheritStep
<1>7. \A x \in found : x \in Path /\ Ancestors[q] \subseteq Ancestors[x]
  BY AboveMembers DEF Onwards, ExistingMembers, WalkedMembers, Members
<1>8. ASSUME NEW i \in DOMAIN s.locks, NEW x \in s.todo
      PROVE  s.locks[i].key \in Ancestors[x]
  BY <1>3, <1>4, <1>5, <1>7
<1>9. HandsRooted(s, root, used)
  BY <1>4, <1>5, <1>8 DEF HandsRooted
<1> QED
  BY <1>2, <1>3, <1>6, <1>9, WorkerAgrees

LEMMA UnlockAgrees ==
  ASSUME IInv, NEW root, AgreeOn(root), NEW w \in Worker, NEW p \in Path,
         NEW tok, Unlock(w, p, tok)
  PROVE  AgreeOn(root)'
<1>1. PICK r : \E searched :
        /\ LET d == Purge(Queried({p}, now), searched, now)
           IN  db' \in Saved(d, RemoveLock(d, r, tok, now), r)
        /\ session' = [session EXCEPT ![w] =
             [op |-> "unlock", token |-> tok, todo |-> WalkedMembers(r)]]
  BY DEF Unlock
<1>2. PICK searched :
        LET d == Purge(Queried({p}, now), searched, now)
        IN  db' \in Saved(d, RemoveLock(d, r, tok, now), r)
  BY <1>1
<1> DEFINE d == Purge(Queried({p}, now), searched, now)
           s == [op |-> "unlock", token |-> tok, todo |-> WalkedMembers(r)]
<1>3. d \in Database /\ Rooted(d, root, used)
  <2>1. Queried({p}, now) \in Database /\ Rooted(Queried({p}, now), root, used)
    BY QueriedNow, QueriedRooted DEF AgreeOn
  <2> QED
    BY <2>1, PurgeKeeps, PurgeRooted
<1> HIDE DEF d
<1>4. Rooted(db', root, used)
  BY <1>2, <1>3, RemoveLockRooted, SavedRooted DEF d
<1>5. session' = [session EXCEPT ![w] = s] /\ s.op \notin {"lock", "notify"}
  BY <1>1
<1>6. used' = used
  BY DEF Unlock
<1> HIDE DEF s
<1> QED
  BY <1>4, <1>5, <1>6, WorkerAgrees

LEMMA RemoveAgrees ==
  ASSUME IInv, NEW root, AgreeOn(root), NEW w \in Worker, NEW q \in Path,
         UnlockMember(w, q) \/ DeleteClear(w, q) \/ RemoveFails(w, q)
  PROVE  AgreeOn(root)'
<1>1. PICK s \in Session : /\ session' = [session EXCEPT ![w] = s]
                           /\ s.op = session[w].op
  BY RemoveStep
<1>2. s.op \notin {"lock", "notify"} /\ used' = used
  BY <1>1, RemoveStep
<1>3. Rooted(db, root, used) /\ Rooted(Purge(db, {q}, now), root, used)
  BY Untouched, PurgeRooted DEF AgreeOn
<1>4. Rooted(db', root, used)
  <2>1. CASE UnlockMember(w, q)
    BY <1>3, <2>1, Untouched, RemoveLockRooted, SavedRooted DEF UnlockMember
  <2>2. CASE DeleteClear(w, q)
    BY <1>3, <2>2, Untouched, RemoveAllRooted, SavedRooted DEF DeleteClear
  <2>3. CASE RemoveFails(w, q)
    BY <1>3, <2>3 DEF RemoveFails
  <2> QED BY <2>1, <2>2, <2>3
<1> QED
  BY <1>1, <1>2, <1>4, WorkerAgrees

\* The phases of a PUT or MKCOL before it notifies.
LEMMA CreatingAgrees ==
  ASSUME IInv, NEW root, AgreeOn(root), NEW w \in Worker, NEW submitted,
         CreateValidated(w, submitted) \/ CreateStored(w)
  PROVE  AgreeOn(root)'
<1>1. /\ session[w].op \in Creating /\ used' = used
      /\ db' = db \/ \E u : db' = Queried(CreateScope(session[w]), u)
      /\ \/ session' = [session EXCEPT ![w].op = "store"]
         \/ session' = [session EXCEPT ![w].op = "inherit"]
         \/ session' = [session EXCEPT ![w] = Idle]
  BY DEF CreateValidated, CreateStored, Creating
<1>2. Rooted(db', root, used)
  BY <1>1, QueriedRooted DEF AgreeOn
<1>3. PICK s : /\ session' = [session EXCEPT ![w] = s]
               /\ s.op \notin {"lock", "notify"}
  <2>1. ASSUME NEW op \in {"store", "inherit"},
               session' = [session EXCEPT ![w].op = op]
        PROVE  LET s == [session[w] EXCEPT !.op = op]
               IN  session' = [session EXCEPT ![w] = s] /\ s.op = op
    <3>1. session[w] \in [op : Creating, path : Path, locknull : BOOLEAN]
      BY <1>1, Untouched, SessionKinds
    <3> QED
      BY <2>1, <3>1, Untouched
  <2> QED
    BY <1>1, <2>1 DEF Idle
<1> QED
  BY <1>1, <1>2, <1>3, WorkerAgrees

\* What a new path inherits is rooted above it, as it is at or above its parent.
LEMMA CreateNotifiedAgrees ==
  ASSUME IInv, NEW root, AgreeOn(root), NEW w \in Worker, CreateNotified(w)
  PROVE  AgreeOn(root)'
<1> DEFINE s == session[w]
           l == PartialLocks(db, Parent[s.path], now)
           locks == IF s.locknull THEN <<>> ELSE Inheritable(l)
           n == [op |-> "notify", locks |-> locks, todo |-> {s.path},
                 missed |-> {}]
<1>1. /\ s.op \in Creating /\ used' = used
      /\ db' = db \/ db' = Purge(db, ParentOf(s.path), now)
      /\ \/ session' = [session EXCEPT ![w] = Idle]
         \/ session' = [session EXCEPT ![w] = n]
  BY DEF CreateNotified, Creating
<1>2. Rooted(db', root, used)
  BY <1>1, Untouched, PurgeRooted DEF AgreeOn
<1>3. s.path \in Path /\ Parent[s.path] \in Path
  BY <1>1, Untouched, SessionKinds DEF IInv, CreatesInTree
<1>4. l \in Seq(HandedLock)
  BY <1>3, Untouched, PartialLocksType
<1>5. ASSUME NEW i \in DOMAIN l
      PROVE  /\ l[i].token \in used /\ root[l[i].token] = l[i].key
             /\ l[i].key \in Ancestors[s.path]
  <2>1. /\ l[i].token \in used /\ root[l[i].token] = l[i].key
        /\ l[i].key = Parent[s.path] \/ l[i].key \in Ancestors[Parent[s.path]]
    BY <1>3, Untouched, PartialRooted DEF AgreeOn
  <2> QED
    BY <1>3, <2>1, AboveMembers
<1> HIDE DEF l
<1>6. Drawn(Inheritable(l), l)
  BY <1>4, PickKeeps, EmbedsDrawn DEF Inheritable
<1>7. \A i \in DOMAIN locks :
        /\ locks[i].token \in used /\ root[locks[i].token] = locks[i].key
        /\ locks[i].key \in Ancestors[s.path]
  BY <1>5, <1>6 DEF Drawn
<1> HIDE DEF locks
<1>8. HandsRooted(n, root, used)
  BY <1>7 DEF HandsRooted
<1> HIDE DEF n
<1> QED
  BY <1>1, <1>2, <1>8, WorkerAgrees DEF Idle

\* DELETE drops whole records, or fails to.
LEMMA DeleteAgrees ==
  ASSUME IInv, NEW root, AgreeOn(root), NEW w \in Worker, NEW p \in Path,
         NEW submitted, Delete(w, p, submitted)
  PROVE  AgreeOn(root)'
<1> DEFINE s == [op |-> "clear", path |-> p, todo |-> WalkedMembers(p)]
<1>1. PICK u \in Later :
        /\ db' \in Saved(Queried(DeleteScope(p), u),
                         RemoveAll(Queried(DeleteScope(p), u), p), p)
        /\ session' = [session EXCEPT ![w] = s]
  BY DEF Delete
<1> DEFINE d == Queried(DeleteScope(p), u)
<1>2. d \in Database /\ Rooted(d, root, used)
  BY QueriedKeeps, QueriedRooted DEF AgreeOn
<1> HIDE DEF d
<1>3. Rooted(db', root, used)
  BY <1>1, <1>2, RemoveAllRooted, SavedRooted DEF d
<1>4. s.op \notin {"lock", "notify"} /\ used' = used
  BY DEF Delete
<1> HIDE DEF s
<1> QED
  BY <1>1, <1>3, <1>4, WorkerAgrees

\* A worker stops walking, or never did.
LEMMA OthersAgree ==
  ASSUME IInv, NEW root, AgreeOn(root), NEW w \in Worker,
         \/ WalkDone(w) \/ WalkFails(w) \/ Crash(w)
         \/ DeleteCleared(w) \/ DeleteRemoved(w)
         \/ \E p \in Path : Create(w, p)
  PROVE  AgreeOn(root)'
<1>1. db' = db /\ used' = used
  BY DEF WalkDone, WalkFails, DeleteCleared, DeleteRemoved, Crash, Create
<1>2. PICK s : /\ session' = [session EXCEPT ![w] = s]
               /\ s.op \notin {"lock", "notify"}
  BY DEF WalkDone, WalkFails, DeleteCleared, DeleteRemoved, Crash, Create, Idle
<1>3. Rooted(db', root, used)
  BY <1>1 DEF AgreeOn
<1> QED
  BY <1>1, <1>2, <1>3, WorkerAgrees

-----------------------------------------------------------------------------
(* The theorems.                                                           *)

LEMMA InitAgrees == ASSUME Init PROVE \E root \in Roots : AgreeOn(root)
<1> DEFINE root == [tok \in Token |-> NoPath]
<1>1. root \in Roots
  BY DEF Roots
<1> HIDE DEF root
<1>2. AgreeOn(root)
  BY DEF Init, AgreeOn, Rooted, RecordRooted, DirectRooted, IndirectRooted,
     HandsRooted, NoLocks, Idle
<1> QED
  BY <1>1, <1>2

LEMMA NextAgrees ==
  ASSUME IInv, NEW root \in Roots, AgreeOn(root), [Next]_vars
  PROVE  \E root2 \in Roots : AgreeOn(root2)'
<1>1. ASSUME NEW w \in Worker, Request(w) PROVE \E root2 \in Roots : AgreeOn(root2)'
  <2>1. PICK p \in Path :
          \/ \E scope \in Scope, depth \in Depth, secs \in Seconds,
                submitted \in SUBSET used, tok \in Token :
               Lock(w, p, scope, depth, secs, submitted, tok)
          \/ Query(w, p)
          \/ \E tok \in used, secs \in Seconds : Refresh(w, p, tok, secs)
          \/ \E tok \in used : Unlock(w, p, tok)
          \/ Create(w, p)
          \/ \E submitted \in SUBSET used : Delete(w, p, submitted)
    BY <1>1 DEF Request
  <2>2. CASE Query(w, p)
    <3>1. Rooted(db', root, used) /\ UNCHANGED <<session, used>>
      BY <2>2, QueriedRooted DEF Query, AgreeOn
    <3> QED
      BY <3>1, DatabaseAgrees
  <2>3. ASSUME NEW tok \in used, NEW secs \in Seconds, Refresh(w, p, tok, secs)
        PROVE  AgreeOn(root)'
    <3> DEFINE timeout == IF secs = 0 THEN DAV_TIMEOUT_INFINITE ELSE now + secs
    <3>1. /\ db' = RefreshLocks(Queried({p}, now), p, tok, timeout, now)
          /\ UNCHANGED <<session, used>>
      BY <2>3 DEF Refresh
    <3>2. timeout \in Nat
      BY DatabaseNow, TimeAssumption DEF DAV_TIMEOUT_INFINITE
    <3> HIDE DEF timeout
    <3>3. /\ Queried({p}, now) \in Database /\ ExclusiveAt(Queried({p}, now), now)
          /\ Rooted(Queried({p}, now), root, used)
      BY QueriedNow, QueriedRooted DEF AgreeOn
    <3>4. Rooted(db', root, used)
      BY <3>1, <3>2, <3>3, RefreshLocksRooted
    <3> QED
      BY <3>1, <3>4, DatabaseAgrees
  <2> QED
    BY <2>1, <2>2, <2>3, LockAgrees, UnlockAgrees, OthersAgree, DeleteAgrees
<1>2. ASSUME NEW w \in Worker, Progress(w) PROVE AgreeOn(root)'
  BY <1>2, InheritMemberAgrees, RemoveAgrees, CreatingAgrees,
     CreateNotifiedAgrees, OthersAgree DEF Progress, GoesOn, CallFails
<1>3. ASSUME NEW w \in Worker, Crash(w) PROVE AgreeOn(root)'
  BY <1>3, OthersAgree
<1>4. CASE Tick \/ UNCHANGED vars
  <2>1. UNCHANGED <<db, session, used>>
    BY <1>4 DEF Tick, vars
  <2>2. Rooted(db', root, used)
    BY <2>1 DEF AgreeOn
  <2> QED
    BY <2>1, <2>2, DatabaseAgrees
<1> QED
  BY <1>1, <1>2, <1>3, <1>4 DEF Next

\* There is a map from the tokens to the paths of their locks that every record
\* and every walk on its way agrees with.
THEOREM RootInvariance == Spec => []RInv
<1>1. Init => RInv
  BY InitKeeps, InitAgrees DEF RInv
<1>2. RInv /\ [Next]_vars => RInv'
  <2> SUFFICES ASSUME RInv, [Next]_vars PROVE RInv'
    OBVIOUS
  <2>1. PICK root \in Roots : IInv /\ AgreeOn(root)
    BY DEF RInv
  <2>2. IInv'
    BY <2>1, NextKeeps
  <2>3. \E root2 \in Roots : AgreeOn(root2)'
    BY <2>1, NextAgrees
  <2> QED
    BY <2>2, <2>3 DEF RInv, Roots
<1> QED
  BY <1>1, <1>2, PTL DEF Spec

\* All records agree on where a token's lock is, and it is above every path
\* that it was handed down to.
THEOREM OneRoot == Spec => []OneRootPerToken
<1>1. RInv => OneRootPerToken
  <2> SUFFICES ASSUME RInv PROVE OneRootPerToken
    OBVIOUS
  <2>1. PICK root \in Roots : AgreeOn(root)
    BY DEF RInv
  <2>2. \A q \in Path : \A i : i \in DOMAIN db[q].indirect =>
          /\ root[db[q].indirect[i].token] = db[q].indirect[i].key
          /\ db[q].indirect[i].key \in Ancestors[q]
    BY <2>1 DEF AgreeOn, Rooted, RecordRooted, IndirectRooted
  <2>3. \A p \in Path : \A tok : HasToken(db[p].direct, tok) => root[tok] = p
    BY <2>1 DEF AgreeOn, Rooted, RecordRooted, DirectRooted, HasToken
  <2> QED
    BY <2>2, <2>3 DEF OneRootPerToken
<1> QED
  BY <1>1, RootInvariance, PTL

-----------------------------------------------------------------------------
(* The locks of the service: what the records keep of them.                *)

\* The direct lock e of path p, as the service has it.
LockAt(p, e) == [path |-> p, token |-> e.token, scope |-> e.scope,
                 depth |-> e.depth, timeout |-> e.timeout]

KeptIn(d) == UNION {{LockAt(p, e) : e \in Range(d[p].direct)} : p \in Path}

LEMMA KeptMeans == Kept = KeptIn(db) /\ Kept' = KeptIn(db')
BY DEF Kept, KeptIn, LockAt

\* No two direct locks of a record have the same token.
TokensApart(s) == \A i, j \in DOMAIN s : s[i].token = s[j].token => i = j

RecordsApart(d) == \A p \in Path : TokensApart(d[p].direct)

LEMMA KeptLock ==
  ASSUME NEW d, NEW l
  PROVE  l \in KeptIn(d) <=>
           \E p \in Path : \E i \in DOMAIN d[p].direct : l = LockAt(p, d[p].direct[i])
BY DEF KeptIn, Range

LEMMA LockAtIs ==
  ASSUME NEW p, NEW e
  PROVE  /\ LockAt(p, e).path = p /\ LockAt(p, e).token = e.token
         /\ LockAt(p, e).scope = e.scope /\ LockAt(p, e).depth = e.depth
         /\ LockAt(p, e).timeout = e.timeout
BY DEF LockAt

\* Equal locks are the same entry.
LEMMA LockAtSame ==
  ASSUME NEW p, NEW q, NEW d \in DirectLock, NEW e \in DirectLock,
         LockAt(p, d) = LockAt(q, e)
  PROVE  p = q /\ d = e
<1>1. /\ p = q /\ d.token = e.token /\ d.scope = e.scope /\ d.depth = e.depth
      /\ d.timeout = e.timeout
  BY LockAtIs
<1> QED BY <1>1 DEF DirectLock

LEMMA EntriesTyped ==
  ASSUME NEW d \in Database, NEW p \in Path
  PROVE  /\ d[p].direct \in Seq(DirectLock)
         /\ \A i \in DOMAIN d[p].direct : d[p].direct[i] \in DirectLock
<1>1. d[p] \in LockRecord
  BY DEF Database
<1> DEFINE s == d[p].direct
<1>2. s \in Seq(DirectLock)
  BY <1>1 DEF LockRecord
<1> HIDE DEF s
<1>3. \A i \in DOMAIN s : s[i] \in DirectLock
  BY <1>2
<1> QED BY <1>2, <1>3 DEF s

\* A token is on one lock, if records agree where it is and each has it once.
LEMMA KeptOnce ==
  ASSUME NEW d \in Database, RecordsApart(d), NEW root, NEW U, Rooted(d, root, U),
         NEW l \in KeptIn(d), NEW m \in KeptIn(d), l.token = m.token
  PROVE  l = m /\ l.token \in U
<1>1. PICK p \in Path : \E i \in DOMAIN d[p].direct : l = LockAt(p, d[p].direct[i])
  BY KeptLock
<1>2. PICK i \in DOMAIN d[p].direct : l = LockAt(p, d[p].direct[i])
  BY <1>1
<1>3. PICK q \in Path : \E j \in DOMAIN d[q].direct : m = LockAt(q, d[q].direct[j])
  BY KeptLock
<1>4. PICK j \in DOMAIN d[q].direct : m = LockAt(q, d[q].direct[j])
  BY <1>3
<1>5. d[p].direct[i].token = d[q].direct[j].token
  BY <1>2, <1>4, LockAtIs
<1>6. /\ root[d[p].direct[i].token] = p /\ d[p].direct[i].token \in U
      /\ root[d[q].direct[j].token] = q
  BY DEF Rooted, RecordRooted, DirectRooted
<1>7. p = q
  BY <1>5, <1>6
<1>8. i = j
  BY <1>5, <1>7 DEF RecordsApart, TokensApart
<1> QED BY <1>2, <1>4, <1>6, <1>7, <1>8, LockAtIs

LEMMA KeptTyped ==
  ASSUME NEW d \in Database, NEW l \in KeptIn(d)
  PROVE  l \in Service!Lock
<1>1. PICK p \in Path : \E i \in DOMAIN d[p].direct : l = LockAt(p, d[p].direct[i])
  BY KeptLock
<1>2. PICK i \in DOMAIN d[p].direct : l = LockAt(p, d[p].direct[i])
  BY <1>1
<1>3. d[p].direct[i] \in DirectLock
  BY EntriesTyped
<1> QED BY <1>2, <1>3 DEF LockAt, DirectLock, Scope, Depth, Service!Lock

\* The list a is b without some of its entries, and none of those is alive
\* at t, ...
Sheds(a, b, t) ==
  Embeds(a, b) /\ \A i \in Live(b, t) : \E j \in DOMAIN a : a[j] = b[i]

\* ... or those that are have the token tok, ...
Loses(a, b, tok, t) ==
  /\ Embeds(a, b)
  /\ \A i \in Live(b, t) : b[i].token = tok \/ \E j \in DOMAIN a : a[j] = b[i]

\* ... or these have a new timeout.
MovedTo(e, timeout) == [e EXCEPT !.timeout = timeout]

TokensEmbed(a, b) ==
  \E f \in [DOMAIN a -> DOMAIN b] :
    /\ \A i, j \in DOMAIN a : f[i] = f[j] => i = j
    /\ \A i \in DOMAIN a : a[i].token = b[f[i]].token

Moves(a, b, tok, timeout, t) ==
  /\ TokensEmbed(a, b)
  /\ \A j \in DOMAIN a : \E i \in DOMAIN b :
       \/ a[j] = b[i]
       \/ i \in Live(b, t) /\ b[i].token = tok /\ a[j] = MovedTo(b[i], timeout)
  /\ \A i \in Live(b, t) : \E j \in DOMAIN a :
       \/ a[j] = b[i]
       \/ b[i].token = tok /\ a[j] = MovedTo(b[i], timeout)

ShedsAll(e, d, t) == \A p \in Path : Sheds(e[p].direct, d[p].direct, t)

LosesAll(e, d, tok, t) == \A p \in Path : Loses(e[p].direct, d[p].direct, tok, t)

MovesAll(e, d, tok, timeout, t) ==
  \A p \in Path : Moves(e[p].direct, d[p].direct, tok, timeout, t)

LEMMA EmbedsTokens ==
  ASSUME NEW a, NEW b, Embeds(a, b)
  PROVE  TokensEmbed(a, b)
BY DEF Embeds, TokensEmbed

LEMMA TokensStayApart ==
  ASSUME NEW a, NEW b, TokensEmbed(a, b), TokensApart(b)
  PROVE  TokensApart(a)
BY DEF TokensEmbed, TokensApart

LEMMA LiveIs ==
  ASSUME NEW s, NEW t, NEW i
  PROVE  i \in Live(s, t) <=> i \in DOMAIN s /\ ~ Expired(s[i].timeout, t)
BY DEF Live

LEMMA LaterLive ==
  ASSUME NEW s \in Seq(DirectLock), NEW t \in Nat, NEW u \in Nat, t <= u
  PROVE  Live(s, u) \subseteq Live(s, t)
<1>1. \A i \in DOMAIN s : s[i].timeout \in Nat
  <2>1. \A i \in DOMAIN s : s[i] \in DirectLock
    OBVIOUS
  <2> QED BY <2>1 DEF DirectLock
<1> QED BY <1>1 DEF Live, Expired, DAV_TIMEOUT_INFINITE

LEMMA ShedsItself == \A a, t : Sheds(a, a, t)
BY EmbedsItself, LiveIs DEF Sheds

LEMMA ShedsLater ==
  ASSUME NEW a, NEW b \in Seq(DirectLock), NEW t \in Nat, NEW u \in Nat, t <= u,
         Sheds(a, b, t)
  PROVE  Sheds(a, b, u)
BY LaterLive DEF Sheds

LEMMA ShedsTransitive ==
  ASSUME NEW a, NEW b, NEW c, NEW t, Sheds(a, b, t), Sheds(b, c, t)
  PROVE  Sheds(a, c, t)
<1>1. Embeds(a, c)
  BY EmbedsTransitive DEF Sheds
<1>2. ASSUME NEW i \in Live(c, t) PROVE \E j \in DOMAIN a : a[j] = c[i]
  <2>1. PICK j \in DOMAIN b : b[j] = c[i]
    BY DEF Sheds
  <2>2. j \in Live(b, t)
    BY <2>1, LiveIs
  <2> QED BY <2>1, <2>2 DEF Sheds
<1> QED BY <1>1, <1>2 DEF Sheds

LEMMA LosesAfterSheds ==
  ASSUME NEW a, NEW b, NEW c, NEW tok, NEW t, Loses(a, b, tok, t), Sheds(b, c, t)
  PROVE  Loses(a, c, tok, t)
<1>1. Embeds(a, c)
  BY EmbedsTransitive DEF Sheds, Loses
<1>2. ASSUME NEW i \in Live(c, t)
      PROVE  c[i].token = tok \/ \E j \in DOMAIN a : a[j] = c[i]
  <2>1. PICK j \in DOMAIN b : b[j] = c[i]
    BY DEF Sheds
  <2>2. j \in Live(b, t)
    BY <2>1, LiveIs
  <2> QED BY <2>1, <2>2 DEF Loses
<1> QED BY <1>1, <1>2 DEF Loses

LEMMA ShedsLoses ==
  ASSUME NEW a, NEW b, NEW tok, NEW t, Sheds(a, b, t)
  PROVE  Loses(a, b, tok, t)
BY DEF Sheds, Loses

LEMMA ShedsMoves ==
  ASSUME NEW a, NEW b, NEW tok, NEW timeout, NEW t, Sheds(a, b, t)
  PROVE  Moves(a, b, tok, timeout, t)
<1>1. TokensEmbed(a, b)
  BY EmbedsTokens DEF Sheds
<1>2. \A j \in DOMAIN a : \E i \in DOMAIN b : a[j] = b[i]
  <2>1. Drawn(a, b)
    BY EmbedsDrawn DEF Sheds
  <2> QED BY <2>1 DEF Drawn
<1>3. \A i \in Live(b, t) : \E j \in DOMAIN a : a[j] = b[i]
  BY DEF Sheds
<1>4. \A j \in DOMAIN a : \E i \in DOMAIN b :
        \/ a[j] = b[i]
        \/ i \in Live(b, t) /\ b[i].token = tok /\ a[j] = MovedTo(b[i], timeout)
  BY <1>2
<1>5. \A i \in Live(b, t) : \E j \in DOMAIN a :
        \/ a[j] = b[i]
        \/ b[i].token = tok /\ a[j] = MovedTo(b[i], timeout)
  BY <1>3
<1> QED BY <1>1, <1>4, <1>5 DEF Moves

-----------------------------------------------------------------------------
(* What the hooks do to the direct locks of all records.                   *)

LEMMA LoadSheds ==
  ASSUME NEW r \in LockRecord, NEW t
  PROVE  Sheds(LoadRecord(r, t).direct, r.direct, t)
BY LoadKeeps DEF Sheds

LEMMA PurgeSheds ==
  ASSUME NEW d \in Database, NEW keys, NEW t
  PROVE  ShedsAll(Purge(d, keys, t), d, t)
<1>1. ASSUME NEW p \in Path PROVE Sheds(Purge(d, keys, t)[p].direct, d[p].direct, t)
  <2>1. d[p] \in LockRecord
    BY DEF Database
  <2>2. Purge(d, keys, t)[p] = d[p] \/ Purge(d, keys, t)[p] = LoadRecord(d[p], t)
    BY DEF Purge
  <2> QED BY <2>1, <2>2, ShedsItself, LoadSheds
<1> QED BY <1>1 DEF ShedsAll

LEMMA ShedsAllTransitive ==
  ASSUME NEW d, NEW e, NEW f, NEW t, ShedsAll(f, e, t), ShedsAll(e, d, t)
  PROVE  ShedsAll(f, d, t)
BY ShedsTransitive DEF ShedsAll

LEMMA ShedsAllLater ==
  ASSUME NEW e, NEW d \in Database, NEW t \in Nat, NEW u \in Nat, t <= u,
         ShedsAll(e, d, t)
  PROVE  ShedsAll(e, d, u)
<1>1. ASSUME NEW p \in Path PROVE Sheds(e[p].direct, d[p].direct, u)
  <2>1. d[p].direct \in Seq(DirectLock) /\ Sheds(e[p].direct, d[p].direct, t)
    BY EntriesTyped DEF ShedsAll
  <2> QED BY <2>1, ShedsLater
<1> QED BY <1>1 DEF ShedsAll

LEMMA ShedsAllItself == \A d, t : ShedsAll(d, d, t)
BY ShedsItself DEF ShedsAll

LEMMA QueriedSheds ==
  ASSUME IInv, NEW S, NEW u \in Nat, now <= u
  PROVE  /\ Queried(S, u) \in Database
         /\ ShedsAll(Queried(S, u), db, u)
<1>1. db \in Database /\ now \in Nat
  BY DatabaseNow
<1> DEFINE d == Purge(db, S, now)
           K == UNION {ResolvedKeys(db, q, now) : q \in S}
<1>2. Queried(S, u) = Purge(d, K, u)
  BY DEF Queried
<1>3. d \in Database /\ ShedsAll(d, db, now)
  BY <1>1, PurgeKeeps, PurgeSheds
<1>4. ShedsAll(d, db, u)
  BY <1>1, <1>3, ShedsAllLater
<1> HIDE DEF d, K
<1>5. Purge(d, K, u) \in Database /\ ShedsAll(Purge(d, K, u), d, u)
  BY <1>3, PurgeKeeps, PurgeSheds
<1> QED BY <1>2, <1>4, <1>5, ShedsAllTransitive

\* One record is replaced.
LEMMA ReplacedAt ==
  ASSUME NEW d \in Database, NEW p \in Path, NEW r, NEW q \in Path
  PROVE  [d EXCEPT ![p] = r][q] = IF q = p THEN r ELSE d[q]
BY DEF Database

\* append_locks of indirect locks leaves the direct ones.
LEMMA AppendIndirectSheds ==
  ASSUME NEW d \in Database, NEW p \in Path, NEW locks, NEW t
  PROVE  ShedsAll(AppendIndirect(d, p, locks, t), d, t)
<1>1. PICK new : AppendIndirect(d, p, locks, t) =
        [d EXCEPT ![p] = [LoadRecord(d[p], t) EXCEPT !.indirect = new]]
  BY DEF AppendIndirect
<1> DEFINE r == LoadRecord(d[p], t)
           a == [r EXCEPT !.indirect = new]
<1>2. d[p] \in LockRecord /\ r \in LockRecord
  BY LoadKeeps DEF Database
<1>3. Sheds(r.direct, d[p].direct, t)
  BY <1>2, LoadSheds
<1>5. AppendIndirect(d, p, locks, t) = [d EXCEPT ![p] = a]
  BY <1>1
<1> HIDE DEF r
<1>4. a.direct = r.direct
  BY <1>2 DEF LockRecord
<1> HIDE DEF a
<1>6. ASSUME NEW q \in Path
      PROVE  Sheds(AppendIndirect(d, p, locks, t)[q].direct, d[q].direct, t)
  <2>1. AppendIndirect(d, p, locks, t)[q] =
          IF q = p THEN a ELSE d[q]
    BY <1>5, ReplacedAt
  <2> QED BY <1>3, <1>4, <2>1, ShedsItself
<1> QED BY <1>6 DEF ShedsAll

\* remove_lock takes nothing that is alive but what has the token.
LEMMA RemoveLockLoses ==
  ASSUME NEW d \in Database, NEW p \in Path, NEW tok, NEW t
  PROVE  LosesAll(RemoveLock(d, p, tok, t), d, tok, t)
<1> DEFINE r == LoadRecord(d[p], t)
           new == [direct   |-> Unlink(r.direct, tok),
                   indirect |-> Unlink(r.indirect, tok)]
<1>1. RemoveLock(d, p, tok, t) = [d EXCEPT ![p] = new]
  BY DEF RemoveLock
<1>2. d[p] \in LockRecord /\ r \in LockRecord
  BY LoadKeeps DEF Database
<1>3. Sheds(r.direct, d[p].direct, t)
  BY <1>2, LoadSheds
<1> HIDE DEF r
<1> DEFINE s == r.direct
<1>4. s \in Seq(DirectLock)
  BY <1>2 DEF LockRecord
<1> HIDE DEF s
<1>5. /\ Embeds(Unlink(s, tok), s)
      /\ \A i \in DOMAIN s \ Unlinked(s, tok) :
           \E n \in DOMAIN Unlink(s, tok) : Unlink(s, tok)[n] = s[i]
  <2> DEFINE pos == DOMAIN s \ Unlinked(s, tok)
  <2>1. Unlink(s, tok) = Pick(s, pos) /\ pos \in SUBSET (DOMAIN s)
    BY DEF Unlink
  <2> HIDE DEF pos
  <2>2. /\ Embeds(Pick(s, pos), s)
        /\ \A i \in pos : \E n \in DOMAIN Pick(s, pos) : Pick(s, pos)[n] = s[i]
    BY <1>4, <2>1, PickKeeps
  <2> QED BY <2>1, <2>2 DEF pos
<1>6. \A i \in Unlinked(s, tok) : s[i].token = tok
  <2>1. \A i \in Unlinked(s, tok) : i \in 1 .. Len(s)
    BY <1>4 DEF Unlinked
  <2> QED BY <2>1 DEF Unlinked
<1>7. Loses(Unlink(s, tok), s, tok, t)
  BY <1>5, <1>6, LiveIs DEF Loses
<1>8. new.direct = Unlink(s, tok)
  BY DEF s
<1>9. Loses(new.direct, d[p].direct, tok, t)
  BY <1>3, <1>7, <1>8, LosesAfterSheds DEF s
<1> HIDE DEF new
<1>10. ASSUME NEW q \in Path
       PROVE  Loses(RemoveLock(d, p, tok, t)[q].direct, d[q].direct, tok, t)
  <2>1. RemoveLock(d, p, tok, t)[q] = IF q = p THEN new ELSE d[q]
    BY <1>1, ReplacedAt
  <2> QED BY <1>9, <2>1, ShedsItself, ShedsLoses
<1> QED BY <1>10 DEF LosesAll

LEMMA LosesAllAfterSheds ==
  ASSUME NEW d, NEW e, NEW f, NEW tok, NEW t,
         LosesAll(f, e, tok, t), ShedsAll(e, d, t)
  PROVE  LosesAll(f, d, tok, t)
BY LosesAfterSheds DEF ShedsAll, LosesAll

LEMMA ShedsAllLoses ==
  ASSUME NEW d, NEW e, NEW tok, NEW t, ShedsAll(e, d, t)
  PROVE  LosesAll(e, d, tok, t)
BY ShedsLoses DEF ShedsAll, LosesAll

-----------------------------------------------------------------------------
(* Refreshing.                                                             *)

LEMMA MovedToIs ==
  ASSUME NEW e \in DirectLock, NEW timeout
  PROVE  /\ MovedTo(e, timeout).token = e.token
         /\ MovedTo(e, timeout).timeout = timeout
         /\ MovedTo(MovedTo(e, timeout), timeout) = MovedTo(e, timeout)
BY DEF MovedTo, DirectLock

LEMMA TokensEmbedTransitive ==
  ASSUME NEW a, NEW b, NEW c, TokensEmbed(a, b), TokensEmbed(b, c)
  PROVE  TokensEmbed(a, c)
<1>1. PICK f \in [DOMAIN a -> DOMAIN b] :
        /\ \A i, j \in DOMAIN a : f[i] = f[j] => i = j
        /\ \A i \in DOMAIN a : a[i].token = b[f[i]].token
  BY DEF TokensEmbed
<1>2. PICK g \in [DOMAIN b -> DOMAIN c] :
        /\ \A i, j \in DOMAIN b : g[i] = g[j] => i = j
        /\ \A i \in DOMAIN b : b[i].token = c[g[i]].token
  BY DEF TokensEmbed
<1> DEFINE h == [i \in DOMAIN a |-> g[f[i]]]
<1>3. /\ h \in [DOMAIN a -> DOMAIN c]
      /\ \A i, j \in DOMAIN a : h[i] = h[j] => i = j
      /\ \A i \in DOMAIN a : a[i].token = c[h[i]].token
  BY <1>1, <1>2
<1> QED BY <1>3 DEF TokensEmbed

\* An entry that is moved twice is moved.
LEMMA MovesTransitive ==
  ASSUME NEW a, NEW b, NEW c \in Seq(DirectLock), NEW tok, NEW timeout, NEW t,
         ~ Expired(timeout, t),
         Moves(a, b, tok, timeout, t), Moves(b, c, tok, timeout, t)
  PROVE  Moves(a, c, tok, timeout, t)
<1>1. TokensEmbed(a, c)
  BY TokensEmbedTransitive DEF Moves
<1>2. \A k \in DOMAIN c : c[k] \in DirectLock
  OBVIOUS
<1>3. ASSUME NEW j \in DOMAIN a
      PROVE  \E k \in DOMAIN c :
               \/ a[j] = c[k]
               \/ k \in Live(c, t) /\ c[k].token = tok /\ a[j] = MovedTo(c[k], timeout)
  <2>1. PICK i \in DOMAIN b :
          \/ a[j] = b[i]
          \/ i \in Live(b, t) /\ b[i].token = tok /\ a[j] = MovedTo(b[i], timeout)
    BY DEF Moves
  <2>2. PICK k \in DOMAIN c :
          \/ b[i] = c[k]
          \/ k \in Live(c, t) /\ c[k].token = tok /\ b[i] = MovedTo(c[k], timeout)
    BY DEF Moves
  <2>3. CASE b[i] = c[k]
    BY <2>1, <2>3, LiveIs
  <2>4. CASE k \in Live(c, t) /\ c[k].token = tok /\ b[i] = MovedTo(c[k], timeout)
    BY <1>2, <2>1, <2>4, MovedToIs
  <2> QED BY <2>2, <2>3, <2>4
<1>4. ASSUME NEW k \in Live(c, t)
      PROVE  \E j \in DOMAIN a : \/ a[j] = c[k]
                                 \/ c[k].token = tok /\ a[j] = MovedTo(c[k], timeout)
  <2>1. PICK i \in DOMAIN b : \/ b[i] = c[k]
                              \/ c[k].token = tok /\ b[i] = MovedTo(c[k], timeout)
    BY DEF Moves
  <2>2. k \in DOMAIN c /\ ~ Expired(c[k].timeout, t)
    BY LiveIs
  <2>3. i \in Live(b, t)
    BY <1>2, <2>1, <2>2, LiveIs, MovedToIs
  <2>4. PICK j \in DOMAIN a : \/ a[j] = b[i]
                              \/ b[i].token = tok /\ a[j] = MovedTo(b[i], timeout)
    BY <2>3 DEF Moves
  <2> QED BY <1>2, <2>1, <2>2, <2>4, MovedToIs
<1> QED BY <1>1, <1>3, <1>4 DEF Moves

\* do_refresh of what was loaded.
LEMMA RefreshRecordMoves ==
  ASSUME NEW r \in LockRecord, NEW tok, NEW timeout, NEW t
  PROVE  LET l == LoadRecord(r, t)
         IN  Moves(RefreshRecord(l, tok, timeout).direct, r.direct, tok, timeout, t)
<1> DEFINE l == LoadRecord(r, t)
           s == Refreshed(l.direct, tok, timeout)
           b == r.direct
<1>1. /\ l \in LockRecord /\ Sheds(l.direct, b, t)
      /\ \A n \in DOMAIN l.direct : ~ Expired(l.direct[n].timeout, t)
  BY LoadKeeps, LoadSheds
<1>2. RefreshRecord(l, tok, timeout).direct = s
  BY <1>1 DEF RefreshRecord, LockRecord
<1> HIDE DEF l
<1> DEFINE c == l.direct
<1>3. c \in Seq(DirectLock) /\ \A i \in DOMAIN c : c[i] \in DirectLock
  <2>1. c \in Seq(DirectLock)
    BY <1>1 DEF LockRecord
  <2> HIDE DEF c
  <2> QED BY <2>1
<1>4. /\ DOMAIN s = DOMAIN c
      /\ \A i \in DOMAIN c : s[i] = IF c[i].token = tok THEN MovedTo(c[i], timeout)
                                    ELSE c[i]
  BY DEF Refreshed, MovedTo
<1> HIDE DEF s
<1>5. /\ Sheds(c, b, t) /\ \A n \in DOMAIN c : ~ Expired(c[n].timeout, t)
  BY <1>1
<1> HIDE DEF c, b
<1>6. \A i \in DOMAIN c : s[i].token = c[i].token
  BY <1>3, <1>4, MovedToIs
<1>7. TokensEmbed(s, c)
  <2> DEFINE f == [i \in DOMAIN s |-> i]
  <2>1. /\ f \in [DOMAIN s -> DOMAIN c]
        /\ \A i, j \in DOMAIN s : f[i] = f[j] => i = j
        /\ \A i \in DOMAIN s : s[i].token = c[f[i]].token
    BY <1>4, <1>6
  <2> QED BY <2>1 DEF TokensEmbed
<1>8. TokensEmbed(s, b)
  BY <1>5, <1>7, EmbedsTokens, TokensEmbedTransitive DEF Sheds
<1>9. ASSUME NEW j \in DOMAIN s
      PROVE  \E i \in DOMAIN b :
               \/ s[j] = b[i]
               \/ i \in Live(b, t) /\ b[i].token = tok /\ s[j] = MovedTo(b[i], timeout)
  <2>1. PICK i \in DOMAIN b : c[j] = b[i]
    <3>1. Drawn(c, b)
      BY <1>5, EmbedsDrawn DEF Sheds
    <3> QED BY <1>4, <3>1 DEF Drawn
  <2>2. i \in Live(b, t)
    BY <1>4, <1>5, <2>1, LiveIs
  <2> QED BY <1>4, <2>1, <2>2
<1>10. ASSUME NEW i \in Live(b, t)
       PROVE  \E j \in DOMAIN s : \/ s[j] = b[i]
                                  \/ b[i].token = tok /\ s[j] = MovedTo(b[i], timeout)
  <2>1. PICK j \in DOMAIN c : c[j] = b[i]
    BY <1>5 DEF Sheds
  <2> QED BY <1>4, <2>1
<1>11. Moves(s, b, tok, timeout, t)
  BY <1>8, <1>9, <1>10 DEF Moves
<1> QED BY <1>2, <1>11 DEF l, b

LEMMA ShedsAllMoves ==
  ASSUME NEW d, NEW e, NEW tok, NEW timeout, NEW t, ShedsAll(e, d, t)
  PROVE  MovesAll(e, d, tok, timeout, t)
BY ShedsMoves DEF ShedsAll, MovesAll

LEMMA MovesAllTransitive ==
  ASSUME NEW d \in Database, NEW e, NEW f, NEW tok, NEW timeout, NEW t,
         ~ Expired(timeout, t),
         MovesAll(f, e, tok, timeout, t), MovesAll(e, d, tok, timeout, t)
  PROVE  MovesAll(f, d, tok, timeout, t)
<1>1. ASSUME NEW p \in Path
      PROVE  Moves(f[p].direct, d[p].direct, tok, timeout, t)
  <2>1. d[p].direct \in Seq(DirectLock)
    BY EntriesTyped
  <2>2. /\ Moves(f[p].direct, e[p].direct, tok, timeout, t)
        /\ Moves(e[p].direct, d[p].direct, tok, timeout, t)
    BY DEF MovesAll
  <2> QED BY <2>1, <2>2, MovesTransitive
<1> QED BY <1>1 DEF MovesAll

\* Both halves of refresh_locks.
LEMMA RefreshDirectMoves ==
  ASSUME NEW d \in Database, NEW p \in Path, NEW tok, NEW timeout, NEW t
  PROVE  MovesAll(RefreshDirect(d, p, tok, timeout, t), d, tok, timeout, t)
<1> DEFINE e == RefreshDirect(d, p, tok, timeout, t)
           new == RefreshRecord(LoadRecord(d[p], t), tok, timeout)
<1>1. e = [d EXCEPT ![p] = new] \/ e = Purge(d, {p}, t)
  BY DEF RefreshDirect
<1>2. CASE e = Purge(d, {p}, t)
  BY <1>2, PurgeSheds, ShedsAllMoves
<1>3. CASE e = [d EXCEPT ![p] = new]
  <2>1. Moves(new.direct, d[p].direct, tok, timeout, t)
    BY RefreshRecordMoves DEF Database
  <2> HIDE DEF e, new
  <2>2. ASSUME NEW q \in Path
        PROVE  Moves(e[q].direct, d[q].direct, tok, timeout, t)
    <3>1. e[q] = IF q = p THEN new ELSE d[q]
      BY <1>3, ReplacedAt
    <3> QED BY <2>1, <3>1, ShedsItself, ShedsMoves
  <2> QED BY <2>2 DEF MovesAll, e
<1> QED BY <1>1, <1>2, <1>3

LEMMA RefreshIndirectMoves ==
  ASSUME NEW d \in Database, NEW ips, NEW tok, NEW timeout, NEW t
  PROVE  MovesAll(RefreshIndirect(d, ips, tok, timeout, t), d, tok, timeout, t)
<1> DEFINE new == RefreshIndirect(d, ips, tok, timeout, t)
<1>1. PICK hit, keys :
        new = [p \in Path |->
                 IF p \in hit THEN RefreshRecord(LoadRecord(d[p], t), tok, timeout)
                 ELSE Purge(d, keys, t)[p]]
  BY DEF RefreshIndirect
<1> HIDE DEF new
<1>2. ASSUME NEW p \in Path
      PROVE  Moves(new[p].direct, d[p].direct, tok, timeout, t)
  <2>1. \/ new[p] = RefreshRecord(LoadRecord(d[p], t), tok, timeout)
        \/ new[p] = Purge(d, keys, t)[p]
    BY <1>1
  <2>2. d[p] \in LockRecord
    BY DEF Database
  <2>3. Sheds(Purge(d, keys, t)[p].direct, d[p].direct, t)
    BY PurgeSheds DEF ShedsAll
  <2> QED BY <2>1, <2>2, <2>3, ShedsMoves, RefreshRecordMoves
<1> QED BY <1>2 DEF MovesAll, new

LEMMA RefreshLocksMoves ==
  ASSUME NEW d \in Database, NEW p \in Path, NEW tok, NEW timeout \in Nat, NEW t,
         ~ Expired(timeout, t), ExclusiveAt(d, t)
  PROVE  MovesAll(RefreshLocks(d, p, tok, timeout, t), d, tok, timeout, t)
<1> DEFINE e == RefreshDirect(d, p, tok, timeout, t)
           ips == LoadRecord(d[p], t).indirect
<1>1. e \in Database /\ MovesAll(e, d, tok, timeout, t)
  BY RefreshDirectKeeps, RefreshDirectMoves
<1>2. RefreshLocks(d, p, tok, timeout, t) = RefreshIndirect(e, ips, tok, timeout, t)
  BY DEF RefreshLocks
<1> HIDE DEF e, ips
<1> QED BY <1>1, <1>2, RefreshIndirectMoves, MovesAllTransitive

-----------------------------------------------------------------------------
(* The steps of the service.                                               *)

\* The record of p goes, ...
ClearsAt(e, d, p, t) ==
  /\ e[p].direct = <<>>
  /\ \A q \in Path : q # p => Sheds(e[q].direct, d[q].direct, t)

\* ... or gets one more lock.
GrantsAt(e, d, p, lock, t) ==
  /\ \E r : Sheds(r, d[p].direct, t) /\ r \in Seq(DirectLock)
            /\ e[p].direct = <<lock>> \o r
  /\ \A q \in Path : q # p => Sheds(e[q].direct, d[q].direct, t)

\* The lock is one the service may grant next to what is in d.
Grantable(d, p, lock, t) ==
  \A i \in Live(d[p].direct, t) :
    lock.scope = "shared" /\ d[p].direct[i].scope = "shared"

\* What a step does to the direct locks.
Loss == /\ used' = used /\ now <= now'
        /\ \E tok : LosesAll(db', db, tok, now')

Clearing == /\ used' = used /\ now <= now'
            /\ \E p \in Path : ClearsAt(db', db, p, now')

Moving == /\ used' = used /\ now' = now
          /\ \E tok, timeout : MovesAll(db', db, tok, timeout, now)

Granting == /\ now <= now'
            /\ \E p \in Path, lock \in DirectLock :
                 /\ lock.token \notin used /\ used' = used \cup {lock.token}
                 /\ GrantsAt(db', db, p, lock, now')
                 /\ Grantable(db, p, lock, now')

\* What the records keep is what the service needs to know of them.
KeepsApart(d, root, U) == d \in Database /\ RecordsApart(d) /\ Rooted(d, root, U)

LEMMA OverExpired ==
  ASSUME NEW p, NEW e, NEW t
  PROVE  Service!Over(LockAt(p, e), t) <=> Expired(e.timeout, t)
BY LockAtIs DEF Service!Over, Expired, DAV_TIMEOUT_INFINITE

LEMMA ShedsKept ==
  ASSUME NEW d, NEW e, NEW t, NEW p \in Path, Sheds(e[p].direct, d[p].direct, t)
  PROVE  /\ \A j \in DOMAIN e[p].direct : LockAt(p, e[p].direct[j]) \in KeptIn(d)
         /\ \A i \in DOMAIN d[p].direct :
              \/ LockAt(p, d[p].direct[i]) \in KeptIn(e)
              \/ Service!Over(LockAt(p, d[p].direct[i]), t)
<1>1. ASSUME NEW j \in DOMAIN e[p].direct PROVE LockAt(p, e[p].direct[j]) \in KeptIn(d)
  <2>1. PICK i \in DOMAIN d[p].direct : e[p].direct[j] = d[p].direct[i]
    <3>1. Drawn(e[p].direct, d[p].direct)
      BY EmbedsDrawn DEF Sheds
    <3> QED BY <3>1 DEF Drawn
  <2> QED BY <2>1, KeptLock
<1>2. ASSUME NEW i \in DOMAIN d[p].direct
      PROVE  \/ LockAt(p, d[p].direct[i]) \in KeptIn(e)
             \/ Service!Over(LockAt(p, d[p].direct[i]), t)
  <2>1. CASE i \in Live(d[p].direct, t)
    <3>1. PICK j \in DOMAIN e[p].direct : e[p].direct[j] = d[p].direct[i]
      BY <2>1 DEF Sheds
    <3> QED BY <3>1, KeptLock
  <2>2. CASE i \notin Live(d[p].direct, t)
    BY <2>2, LiveIs, OverExpired
  <2> QED BY <2>1, <2>2
<1> QED BY <1>1, <1>2

\* Locks are lost to one token, and time: a release, or nothing.
LEMMA LossIsStep ==
  ASSUME IInv, IInv', NEW root, KeepsApart(db, root, used), Loss
  PROVE  Service!Next
<1>1. PICK tok : LosesAll(db', db, tok, now')
  BY DEF Loss
<1>2. db \in Database /\ db' \in Database /\ now' \in Nat /\ now' >= now /\ used' = used
  BY DatabaseNow DEF Loss, IInv, TypeOK, Database
<1>3. KeptIn(db') \subseteq KeptIn(db)
  <2> SUFFICES ASSUME NEW l \in KeptIn(db') PROVE l \in KeptIn(db)
    OBVIOUS
  <2>1. PICK p \in Path : \E j \in DOMAIN db'[p].direct : l = LockAt(p, db'[p].direct[j])
    BY KeptLock
  <2>2. PICK j \in DOMAIN db'[p].direct : l = LockAt(p, db'[p].direct[j])
    BY <2>1
  <2>3. Drawn(db'[p].direct, db[p].direct)
    BY <1>1, EmbedsDrawn DEF LosesAll, Loses
  <2>4. PICK i \in DOMAIN db[p].direct : db'[p].direct[j] = db[p].direct[i]
    BY <2>3 DEF Drawn
  <2> QED BY <2>2, <2>4, KeptLock
<1>4. ASSUME NEW l \in KeptIn(db), l \notin KeptIn(db')
      PROVE  Service!Over(l, now') \/ l.token = tok
  <2>1. PICK p \in Path : \E i \in DOMAIN db[p].direct : l = LockAt(p, db[p].direct[i])
    BY KeptLock
  <2>2. PICK i \in DOMAIN db[p].direct : l = LockAt(p, db[p].direct[i])
    BY <2>1
  <2>3. CASE i \in Live(db[p].direct, now')
    <3>1. \/ db[p].direct[i].token = tok
          \/ \E j \in DOMAIN db'[p].direct : db'[p].direct[j] = db[p].direct[i]
      BY <1>1, <2>3 DEF LosesAll, Loses
    <3> QED BY <1>4, <2>2, <3>1, KeptLock, LockAtIs
  <2>4. CASE i \notin Live(db[p].direct, now')
    BY <2>2, <2>4, LiveIs, OverExpired
  <2> QED BY <2>3, <2>4
<1>5. CASE \A l \in KeptIn(db) : l.token = tok => l \in KeptIn(db')
  <2>1. Service!Pass
    BY <1>2, <1>3, <1>4, <1>5, KeptMeans DEF Service!Pass, Service!Forget
  <2> QED BY <2>1 DEF Service!Next
<1>6. ASSUME NEW l \in KeptIn(db), l.token = tok, l \notin KeptIn(db')
      PROVE  Service!Next
  <2>1. \A m \in KeptIn(db) : m.token = tok => m = l
    BY <1>6, KeptOnce DEF KeepsApart
  <2>2. Service!Release(l)
    BY <1>2, <1>3, <1>4, <1>6, <2>1, KeptMeans DEF Service!Release, Service!Forget
  <2> QED BY <2>2, KeptMeans DEF Service!Next
<1> QED BY <1>5, <1>6

LEMMA ClearingIsStep ==
  ASSUME IInv, IInv', Clearing
  PROVE  Service!Next
<1>1. PICK p \in Path : ClearsAt(db', db, p, now')
  BY DEF Clearing
<1>2. now' \in Nat /\ now' >= now /\ used' = used
  BY DatabaseNow DEF Clearing, IInv, TypeOK
<1>3. ASSUME NEW l \in KeptIn(db')
      PROVE  l \in KeptIn(db) /\ l.path # p
  <2>1. PICK q \in Path : \E j \in DOMAIN db'[q].direct : l = LockAt(q, db'[q].direct[j])
    BY KeptLock
  <2>2. PICK j \in DOMAIN db'[q].direct : l = LockAt(q, db'[q].direct[j])
    BY <2>1
  <2>3. q # p
    BY <1>1, <2>2 DEF ClearsAt
  <2>4. Sheds(db'[q].direct, db[q].direct, now')
    BY <1>1, <2>3 DEF ClearsAt
  <2> QED BY <2>2, <2>3, <2>4, ShedsKept, LockAtIs
<1>4. ASSUME NEW l \in KeptIn(db), l.path # p, l \notin KeptIn(db')
      PROVE  Service!Over(l, now')
  <2>1. PICK q \in Path : \E i \in DOMAIN db[q].direct : l = LockAt(q, db[q].direct[i])
    BY KeptLock
  <2>2. q # p
    BY <1>4, <2>1, LockAtIs
  <2> QED BY <1>1, <1>4, <2>1, <2>2, ShedsKept DEF ClearsAt
<1>5. Service!Clear(p)
  BY <1>2, <1>3, <1>4, KeptMeans DEF Service!Clear, Service!Forget
<1> QED BY <1>5 DEF Service!Next

LEMMA GrantingIsStep ==
  ASSUME IInv, IInv', Granting
  PROVE  Service!Next
<1>1. PICK p \in Path, lock \in DirectLock :
        /\ lock.token \notin used /\ used' = used \cup {lock.token}
        /\ GrantsAt(db', db, p, lock, now')
        /\ Grantable(db, p, lock, now')
  BY DEF Granting
<1>2. /\ now' \in Nat /\ now' >= now
      /\ db \in Database /\ db' \in Database
  BY DatabaseNow DEF Granting, IInv, TypeOK, Database
<1>3. PICK r : Sheds(r, db[p].direct, now') /\ r \in Seq(DirectLock)
               /\ db'[p].direct = <<lock>> \o r
  BY <1>1 DEF GrantsAt
<1> DEFINE l == LockAt(p, lock)
           s == <<lock>> \o r
<1>4. /\ 1 \in DOMAIN s /\ s[1] = lock
      /\ \A j \in DOMAIN s : s[j] = lock \/ \E i \in DOMAIN r : s[j] = r[i]
      /\ \A i \in DOMAIN r : \E j \in DOMAIN s : s[j] = r[i]
  <2>1. /\ Len(r) \in Nat /\ DOMAIN r = 1 .. Len(r)
        /\ DOMAIN s = 1 .. Len(r) + 1 /\ s[1] = lock
        /\ \A i \in 2 .. Len(r) + 1 : s[i] = r[i - 1]
    BY <1>3
  <2> HIDE DEF s
  <2>2. ASSUME NEW j \in DOMAIN s, j # 1 PROVE j - 1 \in DOMAIN r /\ s[j] = r[j - 1]
    BY <2>1, <2>2
  <2>3. ASSUME NEW i \in DOMAIN r PROVE i + 1 \in DOMAIN s /\ s[i + 1] = r[i]
    BY <2>1, <2>3
  <2>4. 1 \in DOMAIN s
    BY <2>1
  <2> QED BY <2>1, <2>2, <2>3, <2>4
<1>5. db'[p].direct = s
  BY <1>3
<1> HIDE DEF s
<1>6. l \in Service!Lock /\ l.token = lock.token /\ l.path = p /\ l.scope = lock.scope
  BY DEF LockAt, DirectLock, Scope, Depth, Service!Lock
<1>7. l \in KeptIn(db')
  BY <1>4, <1>5, KeptLock
<1> HIDE DEF l
<1>8. ASSUME NEW m \in KeptIn(db'), m # l PROVE m \in KeptIn(db)
  <2>1. PICK q \in Path : \E j \in DOMAIN db'[q].direct : m = LockAt(q, db'[q].direct[j])
    BY KeptLock
  <2>2. CASE q # p
    <3>1. Sheds(db'[q].direct, db[q].direct, now')
      BY <1>1, <2>2 DEF GrantsAt
    <3> QED BY <2>1, <3>1, ShedsKept
  <2>3. CASE q = p
    <3>1. PICK i \in DOMAIN r : m = LockAt(p, r[i])
      BY <1>4, <1>5, <1>8, <2>1, <2>3 DEF l
    <3>2. Drawn(r, db[p].direct)
      BY <1>3, EmbedsDrawn DEF Sheds
    <3> QED BY <3>1, <3>2, KeptLock DEF Drawn
  <2> QED BY <2>2, <2>3
<1>9. ASSUME NEW m \in KeptIn(db), m \notin KeptIn(db') PROVE Service!Over(m, now')
  <2>1. PICK q \in Path : \E i \in DOMAIN db[q].direct : m = LockAt(q, db[q].direct[i])
    BY KeptLock
  <2>2. CASE q # p
    BY <1>1, <1>9, <2>1, <2>2, ShedsKept DEF GrantsAt
  <2>3. CASE q = p
    <3>1. PICK i \in DOMAIN db[p].direct : m = LockAt(p, db[p].direct[i])
      BY <2>1, <2>3
    <3>2. i \notin Live(db[p].direct, now')
      <4>1. ASSUME i \in Live(db[p].direct, now') PROVE FALSE
        <5>1. PICK j \in DOMAIN r : r[j] = db[p].direct[i]
          BY <1>3, <4>1 DEF Sheds
        <5> QED BY <1>4, <1>5, <1>9, <3>1, <5>1, KeptLock
      <4> QED BY <4>1
    <3> QED BY <3>1, <3>2, LiveIs, OverExpired
  <2> QED BY <2>2, <2>3
<1>10. ASSUME NEW m \in KeptIn(db), m.path = p
       PROVE  Service!Over(m, now') \/ Service!Compatible(l, m)
  <2>1. PICK q \in Path : \E i \in DOMAIN db[q].direct : m = LockAt(q, db[q].direct[i])
    BY KeptLock
  <2>2. PICK i \in DOMAIN db[q].direct : m = LockAt(q, db[q].direct[i])
    BY <2>1
  <2>3. q = p /\ m.scope = db[q].direct[i].scope
    BY <1>10, <2>2, LockAtIs
  <2>4. CASE i \in Live(db[p].direct, now')
    BY <1>1, <1>6, <2>3, <2>4 DEF Grantable, Service!Compatible
  <2>5. CASE i \notin Live(db[p].direct, now')
    BY <2>2, <2>3, <2>5, LiveIs, OverExpired
  <2> QED BY <2>4, <2>5
<1>11. Service!Forget(Kept \cup {l})
  <2>1. KeptIn(db') \subseteq KeptIn(db) \cup {l}
    BY <1>8
  <2>2. \A m \in (KeptIn(db) \cup {l}) \ KeptIn(db') : Service!Over(m, now')
    BY <1>7, <1>9
  <2> QED BY <1>2, <2>1, <2>2, KeptMeans DEF Service!Forget
<1>12. Service!Grant(l)
  BY <1>1, <1>6, <1>7, <1>10, <1>11, KeptMeans DEF Service!Grant
<1> QED BY <1>7, <1>12, KeptMeans DEF Service!Next

\* At most one lock has the token, and it is the one that is moved.
LEMMA MovingIsStep ==
  ASSUME IInv, IInv', NEW root, KeepsApart(db, root, used),
         NEW root2, KeepsApart(db', root2, used'), Moving
  PROVE  Service!Next
<1>1. PICK tok, timeout : MovesAll(db', db, tok, timeout, now)
  BY DEF Moving
<1>2. /\ now' \in Nat /\ now' = now /\ now' >= now /\ used' = used
      /\ db \in Database /\ db' \in Database
  BY DatabaseNow DEF Moving, IInv, TypeOK, Database
<1> DEFINE Moved(l, m) ==
             /\ l \in KeptIn(db) /\ ~ Service!Over(l, now) /\ l.token = tok
             /\ m = [l EXCEPT !.timeout = timeout]
<1>3. ASSUME NEW p \in Path, NEW e \in DirectLock
      PROVE  LockAt(p, MovedTo(e, timeout)) = [LockAt(p, e) EXCEPT !.timeout = timeout]
  BY DEF LockAt, MovedTo, DirectLock
<1>4. ASSUME NEW m \in KeptIn(db')
      PROVE  m \in KeptIn(db) \/ \E l : Moved(l, m)
  <2>1. PICK p \in Path : \E j \in DOMAIN db'[p].direct : m = LockAt(p, db'[p].direct[j])
    BY KeptLock
  <2>2. PICK j \in DOMAIN db'[p].direct : m = LockAt(p, db'[p].direct[j])
    BY <2>1
  <2>3. PICK i \in DOMAIN db[p].direct :
          \/ db'[p].direct[j] = db[p].direct[i]
          \/ /\ i \in Live(db[p].direct, now) /\ db[p].direct[i].token = tok
             /\ db'[p].direct[j] = MovedTo(db[p].direct[i], timeout)
    BY <1>1 DEF MovesAll, Moves
  <2>4. CASE db'[p].direct[j] = db[p].direct[i]
    BY <2>2, <2>4, KeptLock
  <2>5. CASE /\ i \in Live(db[p].direct, now) /\ db[p].direct[i].token = tok
             /\ db'[p].direct[j] = MovedTo(db[p].direct[i], timeout)
    <3> DEFINE l == LockAt(p, db[p].direct[i])
    <3>1. db[p].direct[i] \in DirectLock
      BY <1>2, EntriesTyped
    <3>2. m = [l EXCEPT !.timeout = timeout]
      BY <1>3, <2>2, <2>5, <3>1
    <3>3. l \in KeptIn(db) /\ ~ Service!Over(l, now) /\ l.token = tok
      BY <2>5, KeptLock, LiveIs, OverExpired, LockAtIs
    <3> HIDE DEF l
    <3> QED BY <3>2, <3>3
  <2> QED BY <2>3, <2>4, <2>5
<1>5. ASSUME NEW l \in KeptIn(db), l \notin KeptIn(db')
      PROVE  Service!Over(l, now) \/ \E m \in KeptIn(db') : Moved(l, m)
  <2>1. PICK p \in Path : \E i \in DOMAIN db[p].direct : l = LockAt(p, db[p].direct[i])
    BY KeptLock
  <2>2. PICK i \in DOMAIN db[p].direct : l = LockAt(p, db[p].direct[i])
    BY <2>1
  <2>3. CASE i \notin Live(db[p].direct, now)
    BY <2>2, <2>3, LiveIs, OverExpired
  <2>4. CASE i \in Live(db[p].direct, now)
    <3>1. PICK j \in DOMAIN db'[p].direct :
            \/ db'[p].direct[j] = db[p].direct[i]
            \/ /\ db[p].direct[i].token = tok
               /\ db'[p].direct[j] = MovedTo(db[p].direct[i], timeout)
      BY <1>1, <2>4 DEF MovesAll, Moves
    <3>2. db'[p].direct[j] # db[p].direct[i]
      BY <1>5, <2>2, KeptLock
    <3> DEFINE m == LockAt(p, db'[p].direct[j])
    <3>3. db[p].direct[i] \in DirectLock
      BY <1>2, EntriesTyped
    <3>4. m \in KeptIn(db') /\ m = [l EXCEPT !.timeout = timeout]
      BY <1>3, <2>2, <3>1, <3>2, <3>3, KeptLock
    <3>5. ~ Service!Over(l, now) /\ l.token = tok
      BY <2>2, <2>4, <3>1, <3>2, LiveIs, OverExpired, LockAtIs
    <3> HIDE DEF m
    <3> QED BY <3>4, <3>5
  <2> QED BY <2>3, <2>4
<1>6. CASE \A m \in KeptIn(db') : \A l : ~ Moved(l, m)
  <2> HIDE DEF Moved
  <2>1. Service!Pass
    BY <1>2, <1>4, <1>5, <1>6, KeptMeans DEF Service!Pass, Service!Forget
  <2> QED BY <2>1 DEF Service!Next
<1>7. ASSUME NEW m \in KeptIn(db'), NEW l, Moved(l, m)
      PROVE  Service!Next
  <2>1. /\ l \in KeptIn(db) /\ ~ Service!Over(l, now) /\ l.token = tok
        /\ m = [l EXCEPT !.timeout = timeout]
    BY <1>7
  <2>2. l \in Service!Lock /\ m \in Service!Lock
    BY <1>2, <2>1, KeptTyped
  <2>3. m.token = tok /\ m.timeout = timeout
    BY <2>1, <2>2 DEF Service!Lock
  <2>4. /\ \A k \in KeptIn(db) : k.token = tok => k = l
        /\ \A k \in KeptIn(db') : k.token = tok => k = m
    <3>1. ASSUME NEW k \in KeptIn(db), k.token = tok PROVE k = l
      BY <2>1, <3>1, KeptOnce DEF KeepsApart
    <3>2. ASSUME NEW k \in KeptIn(db'), k.token = tok PROVE k = m
      <4>1. db' \in Database /\ RecordsApart(db') /\ Rooted(db', root2, used')
        BY DEF KeepsApart
      <4> QED BY <1>7, <2>3, <3>2, <4>1, KeptOnce
    <3> QED BY <3>1, <3>2
  <2>5. ASSUME NEW k \in KeptIn(db'), k # m PROVE k \in KeptIn(db) /\ k # l
    <3>1. k.token # tok
      BY <2>4, <2>5
    <3>2. ASSUME NEW x, Moved(x, k) PROVE FALSE
      <4>1. x \in Service!Lock
        BY <1>2, <3>2, KeptTyped
      <4>2. k.token = x.token
        BY <3>2, <4>1 DEF Service!Lock
      <4> QED BY <3>1, <3>2, <4>2
    <3> QED BY <1>4, <2>1, <3>1, <3>2
  <2>6. ASSUME NEW k \in KeptIn(db), k # l, k \notin KeptIn(db')
        PROVE  Service!Over(k, now)
    <3>1. \A x : ~ Moved(k, x)
      BY <2>4, <2>6
    <3> HIDE DEF Moved
    <3> QED BY <1>5, <2>6, <3>1
  <2>7. Service!Forget((Kept \ {l}) \cup {m})
    BY <1>2, <1>7, <2>5, <2>6, KeptMeans DEF Service!Forget
  <2>8. Service!Refresh(l, m)
    BY <1>2, <1>7, <2>1, <2>2, <2>3, <2>7, KeptMeans DEF Service!Refresh
  <2> QED BY <1>7, <2>1, <2>8, KeptMeans DEF Service!Next
<1> QED BY <1>6, <1>7

-----------------------------------------------------------------------------
(* What each step does to the direct locks.                                *)

\* No more than time does.
LEMMA ShedsIsLoss ==
  ASSUME used' = used, now <= now', ShedsAll(db', db, now')
  PROVE  Loss
<1> DEFINE tok == 0
<1>1. LosesAll(db', db, tok, now')
  BY ShedsAllLoses
<1> HIDE DEF tok
<1> QED BY <1>1 DEF Loss

\* A step that leaves the database alone.
LEMMA NothingIsLoss ==
  ASSUME used' = used, now <= now', db' = db
  PROVE  Loss
BY ShedsAllItself, ShedsIsLoss

LEMMA LaterIs ==
  ASSUME IInv, NEW u \in Later
  PROVE  u \in Nat /\ now <= u
BY DatabaseNow, TimeAssumption DEF Later

LEMMA QueryIsLoss ==
  ASSUME IInv, NEW w \in Worker, NEW p \in Path, Query(w, p)
  PROVE  Loss
<1>1. PICK u \in Later : db' = Queried({p}, u) /\ now' = u
  BY DEF Query
<1>2. used' = used
  BY DEF Query
<1> QED BY <1>1, <1>2, LaterIs, QueriedSheds, ShedsIsLoss

\* Validation has found no lock that the new one conflicts with, and none can
\* have come since.
LEMMA LockIsGranting ==
  ASSUME IInv, NEW w \in Worker, NEW p \in Path, NEW scope \in Scope,
         NEW depth \in Depth, NEW secs \in Seconds, NEW submitted,
         NEW tok \in Token, Lock(w, p, scope, depth, secs, submitted, tok)
  PROVE  Granting
<1> DEFINE S == LockScope(p, depth)
           timeout(u) == IF secs = 0 THEN DAV_TIMEOUT_INFINITE ELSE u + secs
           direct(u) == [token |-> tok, scope |-> scope, depth |-> depth,
                         timeout |-> timeout(u)]
           read == S \cup (IF p \in exists THEN {} ELSE ParentOf(p))
<1>1. PICK u \in Later :
        /\ LockAllowed(p, scope, depth, submitted, u)
        /\ now' = u
        /\ db' = AppendDirect(Queried(read, u), p, direct(u), u)
  BY DEF Lock
<1>2. used' = used \cup {tok} /\ tok \notin used
  BY DEF Lock
<1>3. u \in Nat /\ now <= u /\ now \in Nat /\ db \in Database
  BY LaterIs, DatabaseNow
<1>4. timeout(u) \in Nat
  BY <1>3, TimeAssumption DEF DAV_TIMEOUT_INFINITE
<1> HIDE DEF timeout
<1> DEFINE lock == direct(u)
           d == Queried(read, u)
           r == LoadRecord(d[p], u)
           new == [r EXCEPT !.direct = <<lock>> \o r.direct]
<1>5. lock \in DirectLock /\ lock.token = tok /\ lock.scope = scope
  BY <1>4 DEF DirectLock
<1>6. d \in Database /\ ShedsAll(d, db, u)
  BY <1>3, QueriedSheds
<1>7. p \in S /\ ~ Conflicts(S, scope, u)
  BY <1>1 DEF LockAllowed, LockScope
<1>8. db' = [d EXCEPT ![p] = new]
  BY <1>1 DEF AppendDirect
<1> HIDE DEF S, read, d, lock
<1>9. d[p] \in LockRecord /\ r \in LockRecord /\ Sheds(r.direct, d[p].direct, u)
  BY <1>6, LoadKeeps, LoadSheds DEF Database
<1> HIDE DEF r
<1>10. Sheds(r.direct, db[p].direct, u) /\ r.direct \in Seq(DirectLock)
  BY <1>6, <1>9, ShedsTransitive DEF ShedsAll, LockRecord
<1>11. new.direct = <<lock>> \o r.direct
  BY <1>9 DEF LockRecord
<1> HIDE DEF new
<1>12. \A q \in Path : db'[q] = IF q = p THEN new ELSE d[q]
  BY <1>6, <1>8, ReplacedAt
<1>13. GrantsAt(db', db, p, lock, u)
  BY <1>6, <1>10, <1>11, <1>12 DEF GrantsAt, ShedsAll
<1>14. ASSUME NEW i \in Live(db[p].direct, u)
       PROVE  lock.scope = "shared" /\ db[p].direct[i].scope = "shared"
  <2> DEFINE l == LoadRecord(db[p], now).direct
             h(n) == [token |-> l[n].token, scope |-> l[n].scope]
  <2>1. db[p] \in LockRecord /\ db[p].direct \in Seq(DirectLock)
        /\ \A n \in DOMAIN db[p].direct : db[p].direct[n] \in DirectLock
    BY <1>3, EntriesTyped DEF Database
  <2>2. i \in Live(db[p].direct, now) /\ i \in DOMAIN db[p].direct
    BY <1>3, <2>1, LaterLive, LiveIs
  <2>3. PICK n \in DOMAIN l : l[n] = db[p].direct[i]
    <3>1. \A k \in Live(db[p].direct, now) :
            \E n \in DOMAIN LoadRecord(db[p], now).direct :
              LoadRecord(db[p], now).direct[n] = db[p].direct[k]
      BY <2>1, LoadKeeps
    <3> QED BY <2>2, <3>1
  <2>4. h(n) \in Holds(db, p, now, u)
    BY DEF Holds
  <2>5. scope # "exclusive" /\ l[n].scope # "exclusive"
    BY <1>7, <2>4 DEF Conflicts
  <2>6. l[n].scope \in Scope
    BY <2>1, <2>2, <2>3 DEF DirectLock
  <2> QED BY <1>5, <2>3, <2>5, <2>6 DEF Scope
<1>15. Grantable(db, p, lock, u)
  BY <1>14 DEF Grantable
<1> QED BY <1>1, <1>2, <1>3, <1>5, <1>13, <1>15 DEF Granting

LEMMA RefreshIsMoving ==
  ASSUME IInv, NEW w \in Worker, NEW p \in Path, NEW tok \in used,
         NEW secs \in Seconds, Refresh(w, p, tok, secs)
  PROVE  Moving
<1> DEFINE timeout == IF secs = 0 THEN DAV_TIMEOUT_INFINITE ELSE now + secs
           d == Queried({p}, now)
<1>1. db' = RefreshLocks(d, p, tok, timeout, now) /\ now' = now /\ used' = used
  BY DEF Refresh
<1>2. timeout \in Nat /\ ~ Expired(timeout, now)
  BY DatabaseNow, TimeAssumption DEF DAV_TIMEOUT_INFINITE, Expired
<1> HIDE DEF timeout
<1>3. d \in Database /\ ExclusiveAt(d, now)
  BY QueriedNow
<1>4. db \in Database /\ now \in Nat
  BY DatabaseNow
<1>5. ShedsAll(d, db, now)
  BY <1>4, QueriedSheds
<1> HIDE DEF d
<1>6. MovesAll(db', d, tok, timeout, now)
  BY <1>1, <1>2, <1>3, RefreshLocksMoves
<1>7. MovesAll(db', db, tok, timeout, now)
  BY <1>2, <1>4, <1>5, <1>6, ShedsAllMoves, MovesAllTransitive
<1> QED BY <1>1, <1>7 DEF Moving

\* remove_lock of what a search has left, whether or not it can be saved.
LEMMA RemovalIsLoss ==
  ASSUME IInv, used' = used, now' = now,
         NEW d \in Database, ShedsAll(d, db, now), NEW e \in Database,
         ShedsAll(e, db, now), NEW r \in Path, NEW tok,
         db' \in Saved(e, RemoveLock(d, r, tok, now), r)
  PROVE  Loss
<1>1. now \in Nat /\ now <= now'
  BY DatabaseNow
<1>2. db' = e \/ db' = RemoveLock(d, r, tok, now)
  BY DEF Saved
<1>3. LosesAll(RemoveLock(d, r, tok, now), db, tok, now)
  BY RemoveLockLoses, LosesAllAfterSheds
<1>4. LosesAll(db', db, tok, now')
  BY <1>2, <1>3, ShedsAllLoses
<1> QED BY <1>1, <1>4 DEF Loss

LEMMA UnlockIsLoss ==
  ASSUME IInv, NEW w \in Worker, NEW p \in Path, NEW tok, Unlock(w, p, tok)
  PROVE  Loss
<1>1. PICK r \in DirectResource(p, tok) :
        LET searched == {p} \cup (Ancestors[p] \ Ancestors[r])
            d == Purge(Queried({p}, now), searched, now)
        IN  db' \in Saved(d, RemoveLock(d, r, tok, now), r)
  BY DEF Unlock
<1> DEFINE searched == {p} \cup (Ancestors[p] \ Ancestors[r])
           c == Queried({p}, now)
           d == Purge(c, searched, now)
<1>2. r \in Path
  <2>1. Ancestors[p] \subseteq Path
    BY DEF Ancestors
  <2> QED BY <1>1, <2>1 DEF DirectResource
<1>3. db' \in Saved(d, RemoveLock(d, r, tok, now), r)
  BY <1>1
<1>4. now \in Nat /\ now' = now /\ used' = used
  BY DatabaseNow DEF Unlock
<1>5. c \in Database /\ ShedsAll(c, db, now)
  BY <1>4, QueriedSheds
<1> HIDE DEF c, searched
<1>6. d \in Database /\ ShedsAll(d, db, now)
  BY <1>5, PurgeKeeps, PurgeSheds, ShedsAllTransitive
<1> HIDE DEF d
<1> QED BY <1>2, <1>3, <1>4, <1>6, RemovalIsLoss

LEMMA UnlockMemberIsLoss ==
  ASSUME IInv, NEW w \in Worker, NEW q \in Path,
         UnlockMember(w, q) \/ RemoveFails(w, q)
  PROVE  Loss
<1> DEFINE e == Purge(db, {q}, now)
<1>1. /\ \/ db' \in Saved(e, RemoveLock(db, q, session[w].token, now), q)
         \/ db' = e \/ db' = db
      /\ now' = now /\ used' = used
  BY DEF UnlockMember, RemoveFails
<1>2. db \in Database /\ ShedsAll(db, db, now) /\ now \in Nat /\ now <= now'
  BY <1>1, DatabaseNow, ShedsAllItself
<1>3. e \in Database /\ ShedsAll(e, db, now)
  BY <1>2, PurgeKeeps, PurgeSheds
<1> HIDE DEF e
<1>4. CASE db' = e \/ db' = db
  BY <1>1, <1>2, <1>3, <1>4, ShedsIsLoss
<1>5. CASE db' \in Saved(e, RemoveLock(db, q, session[w].token, now), q)
  BY <1>1, <1>2, <1>3, <1>5, RemovalIsLoss
<1> QED BY <1>1, <1>4, <1>5

\* A whole record goes, or cannot be deleted.
LEMMA RemoveAllIsStep ==
  ASSUME used' = used, now <= now', NEW d \in Database,
         ShedsAll(d, db, now'), NEW p \in Path,
         db' \in Saved(d, RemoveAll(d, p), p)
  PROVE  Loss \/ Clearing
<1>1. db' = d \/ db' = RemoveAll(d, p)
  BY DEF Saved
<1>2. CASE db' = d
  BY <1>2, ShedsIsLoss
<1>3. CASE db' = RemoveAll(d, p)
  <2>1. \A q \in Path : db'[q] = IF q = p THEN NoLocks ELSE d[q]
    BY <1>3, ReplacedAt DEF RemoveAll
  <2>2. db'[p].direct = <<>>
    BY <2>1 DEF NoLocks
  <2>3. ClearsAt(db', db, p, now')
    BY <2>1, <2>2 DEF ClearsAt, ShedsAll
  <2> QED BY <2>3 DEF Clearing
<1> QED BY <1>1, <1>2, <1>3

LEMMA DeleteIsStep ==
  ASSUME IInv, NEW w \in Worker, NEW p \in Path, NEW submitted,
         Delete(w, p, submitted)
  PROVE  Loss \/ Clearing
<1>1. PICK u \in Later :
        /\ db' \in Saved(Queried(DeleteScope(p), u),
                         RemoveAll(Queried(DeleteScope(p), u), p), p)
        /\ now' = u
  BY DEF Delete
<1> DEFINE d == Queried(DeleteScope(p), u)
<1>2. u \in Nat /\ now <= u /\ used' = used
  BY LaterIs DEF Delete
<1>3. d \in Database /\ ShedsAll(d, db, u)
  BY <1>2, QueriedSheds
<1>4. db' \in Saved(d, RemoveAll(d, p), p)
  BY <1>1
<1> HIDE DEF d
<1> QED BY <1>1, <1>2, <1>3, <1>4, RemoveAllIsStep

LEMMA DeleteClearIsStep ==
  ASSUME IInv, NEW w \in Worker, NEW q \in Path, DeleteClear(w, q)
  PROVE  Loss \/ Clearing
<1>1. db' \in Saved(db, RemoveAll(db, q), q) /\ now' = now /\ used' = used
  BY DEF DeleteClear
<1>2. db \in Database /\ now \in Nat /\ now <= now' /\ ShedsAll(db, db, now')
  BY <1>1, DatabaseNow, ShedsAllItself
<1> QED BY <1>1, <1>2, RemoveAllIsStep

\* The steps of a walk that adds locks, and of PUT and MKCOL.
LEMMA InheritMemberIsLoss ==
  ASSUME IInv, NEW w \in Worker, NEW q \in Path,
         InheritMember(w, q) \/ InheritFails(w, q)
  PROVE  Loss
<1>1. /\ \/ db' = AppendIndirect(db, q, session[w].locks, now)
         \/ db' = db \/ db' = Purge(db, {q}, now)
      /\ now' = now /\ used' = used
  BY InheritStep
<1>2. db \in Database /\ now \in Nat /\ now <= now'
  BY <1>1, DatabaseNow
<1>3. ShedsAll(db, db, now) /\ ShedsAll(Purge(db, {q}, now), db, now)
  BY <1>2, ShedsAllItself, PurgeSheds
<1>4. CASE db' = AppendIndirect(db, q, session[w].locks, now)
  BY <1>1, <1>2, <1>4, AppendIndirectSheds, ShedsIsLoss
<1>5. CASE db' = db \/ db' = Purge(db, {q}, now)
  BY <1>1, <1>2, <1>3, <1>5, ShedsIsLoss
<1> QED BY <1>1, <1>4, <1>5

LEMMA CreateValidatedIsLoss ==
  ASSUME IInv, NEW w \in Worker, NEW submitted, CreateValidated(w, submitted)
  PROVE  Loss
<1>1. PICK u \in Later :
        \/ db' = Queried(CreateScope(session[w]), u) /\ now' = u
        \/ UNCHANGED <<db, now>>
  BY DEF CreateValidated
<1>2. used' = used /\ now \in Nat /\ u \in Nat /\ now <= u
  BY DatabaseNow, LaterIs DEF CreateValidated
<1>3. CASE db' = Queried(CreateScope(session[w]), u) /\ now' = u
  BY <1>2, <1>3, QueriedSheds, ShedsIsLoss
<1>4. CASE UNCHANGED <<db, now>>
  BY <1>2, <1>4, NothingIsLoss
<1> QED BY <1>1, <1>3, <1>4

LEMMA CreateNotifiedIsLoss ==
  ASSUME IInv, NEW w \in Worker, CreateNotified(w)
  PROVE  Loss
<1>1. /\ db' = db \/ db' = Purge(db, ParentOf(session[w].path), now)
      /\ now' = now /\ used' = used
  BY DEF CreateNotified
<1>2. db \in Database /\ now \in Nat /\ now <= now'
  BY <1>1, DatabaseNow
<1>3. CASE db' = db
  BY <1>1, <1>2, <1>3, NothingIsLoss
<1>4. CASE db' = Purge(db, ParentOf(session[w].path), now)
  BY <1>1, <1>2, <1>4, PurgeSheds, ShedsIsLoss
<1> QED BY <1>1, <1>3, <1>4

LEMMA OthersAreLoss ==
  ASSUME IInv,
         \/ \E w \in Worker : \/ WalkDone(w) \/ WalkFails(w) \/ CreateStored(w)
                              \/ DeleteCleared(w) \/ DeleteRemoved(w) \/ Crash(w)
                              \/ \E p \in Path : Create(w, p)
         \/ Tick \/ UNCHANGED vars
  PROVE  Loss
<1>1. db' = db /\ used' = used /\ (now' = now \/ now' = now + 1)
  BY DEF WalkDone, WalkFails, CreateStored, DeleteCleared, DeleteRemoved, Crash,
     Create, Tick, vars
<1>2. now <= now'
  BY <1>1, DatabaseNow
<1> QED BY <1>1, <1>2, NothingIsLoss

LEMMA StepKinds ==
  ASSUME IInv, [Next]_vars
  PROVE  Loss \/ Clearing \/ Moving \/ Granting
<1>1. ASSUME NEW w \in Worker, Request(w)
      PROVE  Loss \/ Clearing \/ Moving \/ Granting
  <2>1. PICK p \in Path :
          \/ \E scope \in Scope, depth \in Depth, secs \in Seconds,
                submitted \in SUBSET used, tok \in Token :
               Lock(w, p, scope, depth, secs, submitted, tok)
          \/ Query(w, p)
          \/ \E tok \in used, secs \in Seconds : Refresh(w, p, tok, secs)
          \/ \E tok \in used : Unlock(w, p, tok)
          \/ Create(w, p)
          \/ \E submitted \in SUBSET used : Delete(w, p, submitted)
    BY <1>1 DEF Request
  <2> QED BY <2>1, LockIsGranting, QueryIsLoss, RefreshIsMoving, UnlockIsLoss,
             OthersAreLoss, DeleteIsStep
<1>2. ASSUME NEW w \in Worker, Progress(w) PROVE Loss \/ Clearing
  BY <1>2, InheritMemberIsLoss, UnlockMemberIsLoss, DeleteClearIsStep,
     CreateValidatedIsLoss, CreateNotifiedIsLoss, OthersAreLoss DEF Progress, GoesOn, CallFails
<1>3. ASSUME NEW w \in Worker, Crash(w) PROVE Loss
  BY <1>3, OthersAreLoss
<1>4. CASE Tick \/ UNCHANGED vars
  BY <1>4, OthersAreLoss
<1> QED BY <1>1, <1>2, <1>3, <1>4 DEF Next

-----------------------------------------------------------------------------
(* The refinement.                                                         *)

\* The records agree, and each has a token once.
SInv == RInv /\ RecordsApart(db)

LEMMA StepsKeepApart ==
  ASSUME IInv, NEW root, KeepsApart(db, root, used),
         Loss \/ Clearing \/ Moving \/ Granting
  PROVE  RecordsApart(db')
<1> SUFFICES ASSUME NEW p \in Path PROVE TokensApart(db'[p].direct)
  BY DEF RecordsApart
<1>1. TokensApart(db[p].direct) /\ \A i \in DOMAIN db[p].direct : db[p].direct[i].token \in used
  BY DEF KeepsApart, RecordsApart, Rooted, RecordRooted, DirectRooted
<1>2. ASSUME NEW t, Sheds(db'[p].direct, db[p].direct, t)
      PROVE  TokensApart(db'[p].direct)
  BY <1>1, <1>2, EmbedsTokens, TokensStayApart DEF Sheds
<1>3. CASE Loss
  <2>1. TokensEmbed(db'[p].direct, db[p].direct)
    BY <1>3, EmbedsTokens DEF Loss, LosesAll, Loses
  <2> QED BY <1>1, <2>1, TokensStayApart
<1>4. CASE Moving
  <2>1. TokensEmbed(db'[p].direct, db[p].direct)
    BY <1>4 DEF Moving, MovesAll, Moves
  <2> QED BY <1>1, <2>1, TokensStayApart
<1>5. CASE Clearing
  <2>1. db'[p].direct = <<>> \/ Sheds(db'[p].direct, db[p].direct, now')
    BY <1>5 DEF Clearing, ClearsAt
  <2>2. TokensApart(<<>>)
    BY DEF TokensApart
  <2> QED BY <1>2, <2>1, <2>2
<1>6. CASE Granting
  <2>1. PICK q \in Path, lock \in DirectLock :
          lock.token \notin used /\ GrantsAt(db', db, q, lock, now')
    BY <1>6 DEF Granting
  <2>2. CASE p # q
    BY <1>2, <2>1, <2>2 DEF GrantsAt
  <2>3. CASE p = q
    <3>1. PICK r : Sheds(r, db[p].direct, now') /\ r \in Seq(DirectLock)
                   /\ db'[p].direct = <<lock>> \o r
      BY <2>1, <2>3 DEF GrantsAt
    <3>2. TokensApart(r)
      BY <1>1, <3>1, EmbedsTokens, TokensStayApart DEF Sheds
    <3>3. \A i \in DOMAIN r : r[i].token # lock.token
      <4>1. Drawn(r, db[p].direct)
        BY <3>1, EmbedsDrawn DEF Sheds
      <4> QED BY <1>1, <2>1, <4>1 DEF Drawn
    <3> DEFINE s == <<lock>> \o r
    <3>4. /\ Len(r) \in Nat /\ DOMAIN r = 1 .. Len(r)
          /\ DOMAIN s = 1 .. Len(r) + 1 /\ s[1] = lock
          /\ \A i \in 2 .. Len(r) + 1 : s[i] = r[i - 1]
      BY <3>1
    <3> HIDE DEF s
    <3>5. ASSUME NEW j \in DOMAIN s, j # 1
          PROVE  j \in Nat /\ j - 1 \in DOMAIN r /\ s[j] = r[j - 1]
      BY <3>4, <3>5
    <3>6. ASSUME NEW i \in DOMAIN s, NEW j \in DOMAIN s, s[i].token = s[j].token
          PROVE  i = j
      <4>1. CASE i = 1 /\ j = 1
        BY <4>1
      <4>2. CASE i # 1 /\ j = 1
        BY <3>3, <3>4, <3>5, <3>6, <4>2
      <4>3. CASE i = 1 /\ j # 1
        BY <3>3, <3>4, <3>5, <3>6, <4>3
      <4>4. CASE i # 1 /\ j # 1
        <5>1. i - 1 = j - 1
          BY <3>2, <3>5, <3>6, <4>4 DEF TokensApart
        <5> QED BY <3>5, <4>4, <5>1
      <4> QED BY <4>1, <4>2, <4>3, <4>4
    <3> QED BY <3>1, <3>6 DEF TokensApart, s
  <2> QED BY <2>2, <2>3
<1> QED BY <1>3, <1>4, <1>5, <1>6

\* A record has no token twice among its direct locks, so that the lock of a
\* token in it is one lock of the service.
THEOREM ServiceInvariance == Spec => []SInv
<1>1. Init => SInv
  <2> SUFFICES ASSUME Init PROVE SInv
    OBVIOUS
  <2>1. RInv
    BY InitKeeps, InitAgrees DEF RInv
  <2>2. RecordsApart(db)
    BY DEF Init, RecordsApart, TokensApart, NoLocks
  <2> QED BY <2>1, <2>2 DEF SInv
<1>2. SInv /\ [Next]_vars => SInv'
  <2> SUFFICES ASSUME SInv, [Next]_vars PROVE SInv'
    OBVIOUS
  <2>1. PICK root \in Roots : IInv /\ AgreeOn(root)
    BY DEF SInv, RInv
  <2>2. IInv' /\ \E root2 \in Roots : AgreeOn(root2)'
    BY <2>1, NextKeeps, NextAgrees
  <2>3. RInv'
    BY <2>2 DEF RInv, Roots
  <2>4. KeepsApart(db, root, used)
    BY <2>1, DatabaseNow DEF KeepsApart, SInv, AgreeOn
  <2>5. RecordsApart(db')
    BY <2>1, <2>4, StepKinds, StepsKeepApart
  <2> QED BY <2>3, <2>5 DEF SInv, RecordsApart
<1> QED BY <1>1, <1>2, PTL DEF Spec

\* The lock database and the hooks that keep it behave as the lock service
\* promises: a lock is granted once, under a new token and next to locks it is
\* compatible with; a refresh moves its expiry; and it goes only when it is
\* released or its path deleted, or when its time has come.
THEOREM LockServiceKept == Spec => LockServiceSpec
<1>1. Init => Service!Init
  <2> SUFFICES ASSUME Init PROVE Service!Init
    OBVIOUS
  <2>1. KeptIn(db) = {}
    <3>1. \A p \in Path : db[p].direct = <<>>
      BY DEF Init, NoLocks
    <3> QED BY <3>1, KeptLock
  <2> QED BY <2>1, KeptMeans DEF Init, Service!Init
<1>2. SInv /\ SInv' /\ [Next]_vars => [Service!Next]_(Service!vars)
  <2> SUFFICES ASSUME SInv, SInv', [Next]_vars PROVE Service!Next
    OBVIOUS
  <2>1. PICK root \in Roots : IInv /\ AgreeOn(root)
    BY DEF SInv, RInv
  <2>2. PICK root2 \in Roots : AgreeOn(root2)'
    BY DEF SInv, RInv, Roots
  <2>3. IInv'
    BY DEF SInv, RInv
  <2>4. KeepsApart(db, root, used)
    BY <2>1, DatabaseNow DEF KeepsApart, SInv, AgreeOn
  <2>5. KeepsApart(db', root2, used')
    <3>1. db' \in Database /\ RecordsApart(db')
      BY <2>3 DEF SInv, RecordsApart, IInv, TypeOK, Database
    <3>2. Rooted(db', root2, used')
      BY <2>2 DEF AgreeOn, Rooted, RecordRooted, DirectRooted, IndirectRooted
    <3> QED BY <3>1, <3>2 DEF KeepsApart
  <2>6. Loss \/ Clearing \/ Moving \/ Granting
    BY <2>1, StepKinds
  <2> QED BY <2>1, <2>3, <2>4, <2>5, <2>6, LossIsStep, ClearingIsStep,
             MovingIsStep, GrantingIsStep
<1> QED BY <1>1, <1>2, ServiceInvariance, PTL DEF Spec, Service!Spec, LockServiceSpec

-----------------------------------------------------------------------------
(* The walk of a LOCK reaches the whole tree.                              *)

\* What is above q is closed: it has the parent of q and of all that is in it.
LEMMA AncestorsClosed ==
  ASSUME NEW q \in Path
  PROVE  /\ Ancestors[q] \subseteq Path
         /\ HasParentOf(Ancestors[q], q)
         /\ \A a \in Ancestors[q] : HasParentOf(Ancestors[q], a)
<1>1. Ancestors[q] = {a \in Path : \A S \in SUBSET Path :
        HasParentOf(S, q) /\ (\A y \in S : HasParentOf(S, y)) => a \in S}
  BY DEF Ancestors
<1> DEFINE A == Ancestors[q]
           Closing(S) == HasParentOf(S, q) /\ \A y \in S : HasParentOf(S, y)
<1>2. A \subseteq Path /\ \A a \in A : \A S \in SUBSET Path : Closing(S) => a \in S
  BY <1>1
<1>3. \A a \in Path : (\A S \in SUBSET Path : Closing(S) => a \in S) => a \in A
  BY <1>1
<1> HIDE DEF A
<1>4. HasParentOf(A, q)
  <2>1. CASE Parent[q] = NoPath
    BY <2>1 DEF HasParentOf
  <2>2. CASE Parent[q] # NoPath
    <3>1. Parent[q] \in Path
      BY <2>2, TreeAssumption
    <3>2. \A S \in SUBSET Path : Closing(S) => Parent[q] \in S
      BY <2>2 DEF HasParentOf
    <3> QED BY <1>3, <3>1, <3>2 DEF HasParentOf
  <2> QED BY <2>1, <2>2
<1>5. ASSUME NEW a \in A PROVE HasParentOf(A, a)
  <2>1. CASE Parent[a] = NoPath
    BY <2>1 DEF HasParentOf
  <2>2. CASE Parent[a] # NoPath
    <3>1. a \in Path /\ Parent[a] \in Path
      BY <1>2, <2>2, TreeAssumption
    <3>2. ASSUME NEW S \in SUBSET Path, Closing(S) PROVE Parent[a] \in S
      <4>1. a \in S
        BY <1>2, <3>2
      <4> QED BY <2>2, <3>2, <4>1 DEF HasParentOf
    <3> QED BY <1>3, <3>1, <3>2 DEF HasParentOf
  <2> QED BY <2>1, <2>2
<1> QED BY <1>2, <1>4, <1>5 DEF A

\* It is in every set that is closed so.
LEMMA AncestorsLeast ==
  ASSUME NEW q \in Path, NEW S \in SUBSET Path, HasParentOf(S, q),
         \A y \in S : HasParentOf(S, y)
  PROVE  Ancestors[q] \subseteq S
<1>1. Ancestors[q] = {a \in Path : \A T \in SUBSET Path :
        HasParentOf(T, q) /\ (\A y \in T : HasParentOf(T, y)) => a \in T}
  BY DEF Ancestors
<1> QED BY <1>1

\* The way from q up to a path above it goes through one of its members.
LEMMA ThroughMember ==
  ASSUME NEW q \in Path, NEW p \in Ancestors[q]
  PROVE  \E x \in {q} \cup Ancestors[q] : Parent[x] = p
<1> SUFFICES ASSUME \A x \in {q} \cup Ancestors[q] : Parent[x] # p PROVE FALSE
  OBVIOUS
<1> DEFINE S == Ancestors[q] \ {p}
<1>1. HasParentOf(S, q) /\ \A y \in S : HasParentOf(S, y)
  BY AncestorsClosed DEF HasParentOf
<1>2. S \in SUBSET Path
  BY AncestorsClosed
<1>3. Ancestors[q] \subseteq S
  <2> HIDE DEF S
  <2> QED BY <1>1, <1>2, AncestorsLeast
<1> QED BY <1>3

\* What exists, exists with all that is above it.
LEMMA AboveExists ==
  ASSUME NEW S \in SUBSET Path, TreeClosed(S), NEW q \in S
  PROVE  Ancestors[q] \subseteq S
<1>1. HasParentOf(S, q) /\ \A y \in S : HasParentOf(S, y)
  BY DEF TreeClosed, HasParentOf
<1> QED BY <1>1, AncestorsLeast

Walks == {"lock", "notify", "unlock", "clear"}

\* The worker that walks has the lock file.
WalkerHolds == \A w \in Worker : session[w].op \in Walks => holder = w

\* The walk has left an entry at q ...
Handed(d, q, lock) ==
  \E i \in DOMAIN d[q].indirect : /\ d[q].indirect[i].token = lock.token
                                  /\ d[q].indirect[i].timeout = lock.timeout

\* ... or one of the paths of S is on the way to it.
OnTheWay(S, q) == ({q} \cup Ancestors[q]) \cap S # {}

\* The walk of the LOCK in session s, in a tree of what is in E, where B is
\* being created: what is below the locked path is locked, still to be, left
\* out because a call failed, or new.
CoversBelow(s, lock, d, E, B, t) ==
  \/ lock.depth = "zero"
  \/ Expired(lock.timeout, t)
  \/ \A q \in Below(lock.key) \cap E :
       \/ Handed(d, q, lock) \/ OnTheWay(s.todo, q)
       \/ OnTheWay(s.missed, q) \/ OnTheWay(B, q)

Covers(s, d, E, B, t) ==
  s.op = "lock" => 1 \in DOMAIN s.locks /\ CoversBelow(s, s.locks[1], d, E, B, t)

CInv == /\ IInv /\ WalkerHolds /\ TreeClosed(exists)
        /\ \A w \in Worker : Covers(session[w], db, exists, BeingCreated, now)

\* A walk that stands still covers what it did, if all that is new is being
\* created.
LEMMA CoversStill ==
  ASSUME NEW s \in Session, NEW d, NEW E, NEW E2, NEW B, NEW B2,
         NEW t \in Nat, NEW u \in Nat, t <= u,
         B \subseteq B2, E2 \subseteq E \cup B2,
         Covers(s, d, E, B, t)
  PROVE  Covers(s, d, E2, B2, u)
<1> SUFFICES ASSUME s.op = "lock"
             PROVE  1 \in DOMAIN s.locks /\ CoversBelow(s, s.locks[1], d, E2, B2, u)
  BY DEF Covers
<1>1. s.locks \in Seq(HandedLock) /\ 1 \in DOMAIN s.locks
  BY SessionKinds DEF Covers
<1> DEFINE lock == s.locks[1]
<1>2. lock \in HandedLock /\ CoversBelow(s, lock, d, E, B, t)
  BY <1>1 DEF Covers
<1> HIDE DEF lock
<1>3. Expired(lock.timeout, t) => Expired(lock.timeout, u)
  BY <1>2 DEF HandedLock, Expired
<1>4. ASSUME NEW q, q \in E2, q \notin E PROVE OnTheWay(B2, q)
  BY <1>4 DEF OnTheWay
<1>5. \A q : OnTheWay(B, q) => OnTheWay(B2, q)
  BY DEF OnTheWay
<1>6. CoversBelow(s, lock, d, E2, B2, u)
  BY <1>2, <1>3, <1>4, <1>5 DEF CoversBelow
<1> QED BY <1>1, <1>6 DEF lock

\* The walk sets out from the members of the locked path.
LEMMA CoversFirst ==
  ASSUME IInv, TreeClosed(exists), NEW p \in Path, NEW s, NEW lock, NEW d, NEW B,
         NEW t, s.locks = <<lock>>, lock.key = p, lock.depth \in Depth,
         s.todo = IF lock.depth = "infinity" THEN ExistingMembers(p) ELSE {}
  PROVE  Covers(s, d, exists, B, t)
<1>1. exists \in SUBSET Path
  BY Untouched
<1>2. ASSUME lock.depth = "infinity", NEW q \in Below(p) \cap exists
      PROVE  OnTheWay(s.todo, q)
  <2>1. q \in Path /\ p \in Ancestors[q] /\ q \in exists
    BY <1>1, <1>2 DEF Below
  <2>2. PICK x \in {q} \cup Ancestors[q] : Parent[x] = p
    BY <2>1, ThroughMember
  <2>3. x \in exists /\ p \in exists /\ x \in Path
    BY <1>1, <2>1, <2>2, AboveExists
  <2>4. x \in s.todo
    BY <1>2, <2>2, <2>3 DEF ExistingMembers, Members
  <2> QED BY <2>2, <2>4 DEF OnTheWay
<1>3. CoversBelow(s, lock, d, exists, B, t)
  BY <1>2 DEF CoversBelow, Depth
<1>4. 1 \in DOMAIN s.locks /\ s.locks[1] = lock
  OBVIOUS
<1> QED BY <1>3, <1>4 DEF Covers

\* append_locks leaves an entry for each lock that it is given, and those that
\* are alive.
LEMMA AppendIndirectHands ==
  ASSUME NEW d \in Database, NEW p \in Path, NEW locks \in Seq(HandedLock),
         NEW i \in DOMAIN locks, NEW t
  PROVE  Handed(AppendIndirect(d, p, locks, t), p, locks[i])
<1> DEFINE r == LoadRecord(d[p], t)
           given == [n \in DOMAIN locks |->
                       [token |-> locks[n].token, timeout |-> locks[n].timeout,
                        key |-> locks[n].key]]
           back == Reverse(given)
           new == [r EXCEPT !.indirect = back \o r.indirect]
<1>1. r \in LockRecord
  BY LoadKeeps DEF Database
<1>2. AppendIndirect(d, p, locks, t) = [d EXCEPT ![p] = new]
  BY DEF AppendIndirect, Image
<1>3. given \in Seq(IndirectLock)
  <2>1. \A n \in DOMAIN locks : locks[n] \in HandedLock
    OBVIOUS
  <2>2. \A n \in DOMAIN locks : given[n] \in IndirectLock
    BY <2>1 DEF HandedLock, IndirectLock
  <2> QED BY <2>2
<1>4. /\ i \in DOMAIN given /\ given[i].token = locks[i].token
      /\ given[i].timeout = locks[i].timeout
  OBVIOUS
<1> HIDE DEF r, given
<1>5. back \in Seq(IndirectLock) /\ \E n \in DOMAIN back : back[n] = given[i]
  BY <1>3, <1>4, ReverseKeeps
<1>6. PICK n \in DOMAIN back : back[n] = given[i]
  BY <1>5
<1> HIDE DEF back
<1>7. r.indirect \in Seq(IndirectLock) /\ new.indirect = back \o r.indirect
  BY <1>1 DEF LockRecord
<1> DEFINE s == back \o r.indirect
<1>8. n \in DOMAIN s /\ s[n] = back[n]
  BY <1>5, <1>6, <1>7
<1> HIDE DEF s, new
<1>9. AppendIndirect(d, p, locks, t)[p] = new
  BY <1>2 DEF Database
<1> QED BY <1>4, <1>6, <1>7, <1>8, <1>9 DEF Handed, s

\* One step of the walk: q is done, or left out, and what is in it is still to
\* come, or left out.
LEMMA CoversNext ==
  ASSUME IInv, TreeClosed(exists), NEW w \in Worker, NEW q \in Path,
         session[w].op = "lock",
         Covers(session[w], db, exists, BeingCreated, now),
         NEW d, \A x \in Path : x # q => d[x] = db[x],
         NEW s, s.op = "lock", s.locks = session[w].locks,
         NEW found, s.todo = (session[w].todo \ {q}) \cup found,
         NEW lost, s.missed = session[w].missed \cup lost,
         \/ q \in lost
         \/ /\ \A i \in DOMAIN s.locks : Handed(d, q, s.locks[i])
            /\ ExistingMembers(q) \subseteq found \cup lost
  PROVE  Covers(s, d, exists, BeingCreated, now)
<1> DEFINE lock == session[w].locks[1]
<1>1. 1 \in DOMAIN s.locks /\ s.locks[1] = lock
  BY DEF Covers
<1>2. CoversBelow(session[w], lock, db, exists, BeingCreated, now)
  BY DEF Covers
<1>3. exists \in SUBSET Path
  BY Untouched
<1> HIDE DEF lock
<1>4. ASSUME NEW x \in Path, x # q, Handed(db, x, lock) PROVE Handed(d, x, lock)
  BY <1>4 DEF Handed
<1>5. ASSUME NEW x, OnTheWay(session[w].missed, x) PROVE OnTheWay(s.missed, x)
  BY <1>5 DEF OnTheWay
<1>6. Handed(d, q, lock) \/ OnTheWay(s.missed, q)
  BY <1>1 DEF OnTheWay
<1>7. ASSUME NEW x \in exists, OnTheWay(session[w].todo, x), x # q
      PROVE  OnTheWay(s.todo, x) \/ OnTheWay(s.missed, x)
  <2>1. PICK y \in {x} \cup Ancestors[x] : y \in session[w].todo
    BY <1>7 DEF OnTheWay
  <2>2. CASE y # q
    BY <2>1, <2>2 DEF OnTheWay
  <2>3. CASE y = q
    <3>1. x \in Path /\ q \in Ancestors[x]
      BY <1>3, <1>7, <2>1, <2>3
    <3>2. CASE q \in lost
      BY <3>1, <3>2 DEF OnTheWay
    <3>3. CASE ExistingMembers(q) \subseteq found \cup lost
      <4>1. PICK z \in {x} \cup Ancestors[x] : Parent[z] = q
        BY <3>1, ThroughMember
      <4>2. z \in exists /\ q \in exists /\ z \in Path
        BY <1>3, <3>1, <4>1, AboveExists
      <4>3. z \in s.todo \/ z \in s.missed
        BY <3>3, <4>1, <4>2 DEF ExistingMembers, Members
      <4> QED BY <4>1, <4>3 DEF OnTheWay
    <3> QED BY <3>2, <3>3
  <2> QED BY <2>2, <2>3
<1>8. ASSUME NEW x \in exists,
             \/ Handed(db, x, lock) \/ OnTheWay(session[w].todo, x)
             \/ OnTheWay(session[w].missed, x) \/ OnTheWay(BeingCreated, x)
      PROVE  \/ Handed(d, x, lock) \/ OnTheWay(s.todo, x)
             \/ OnTheWay(s.missed, x) \/ OnTheWay(BeingCreated, x)
  BY <1>3, <1>4, <1>5, <1>6, <1>7, <1>8
<1>9. CoversBelow(s, lock, d, exists, BeingCreated, now)
  BY <1>2, <1>8 DEF CoversBelow
<1> QED BY <1>1, <1>9 DEF Covers

\* Who walks when a step is over, and with what session.
LEMMA SessionOf ==
  ASSUME IInv, NEW w \in Worker, NEW s, session' = [session EXCEPT ![w] = s],
         NEW v \in Worker
  PROVE  session'[v] = IF v = w THEN s ELSE session[v]
BY Untouched

LEMMA WalkersApart ==
  ASSUME WalkerHolds, NEW w \in Worker, NEW v \in Worker,
         session[w].op \in Walks,
         session[v].op \in Walks \/ holder = NoWorker \/ Free(v)
  PROVE  v = w
BY WorkerAssumption DEF WalkerHolds, Free

\* The steps that begin when nobody has the lock file leave no other walk.
LEMMA NobodyWalks ==
  ASSUME WalkerHolds, holder = NoWorker, NEW v \in Worker
  PROVE  session[v].op \notin Walks
BY WorkerAssumption DEF WalkerHolds

LEMMA HolderKept ==
  ASSUME IInv, WalkerHolds, NEW w \in Worker, NEW s,
         session' = [session EXCEPT ![w] = s],
         s.op \in Walks => holder' = w,
         \/ holder' = holder
         \/ holder = NoWorker
         \/ session[w].op \in Walks
         \/ holder = w
  PROVE  WalkerHolds'
<1> SUFFICES ASSUME NEW v \in Worker, session'[v].op \in Walks PROVE holder' = v
  BY DEF WalkerHolds
<1>1. session'[v] = IF v = w THEN s ELSE session[v]
  BY SessionOf
<1>2. CASE v # w
  <2>1. session[v].op \in Walks
    BY <1>1, <1>2
  <2> QED BY <1>2, <2>1, WorkerAssumption DEF WalkerHolds
<1> QED BY <1>1, <1>2

LEMMA IdleNowhere == Idle.op = "idle" /\ Idle.op # "lock" /\ Idle.op \notin Walks
BY DEF Idle, Walks

\* What there is to show of a step.
CoversAll ==
  \A v \in Worker : Covers(session'[v], db', exists', BeingCreated', now')

\* No LOCK is under way when the step is over.
LEMMA NoLockCovers ==
  ASSUME CInv, NEW w \in Worker, NEW s, session' = [session EXCEPT ![w] = s],
         s.op # "lock", holder = NoWorker \/ session[w].op \in Walks
  PROVE  CoversAll
<1> SUFFICES ASSUME NEW v \in Worker PROVE session'[v].op # "lock"
  BY DEF CoversAll, Covers
<1>1. session'[v] = IF v = w THEN s ELSE session[v]
  BY SessionOf DEF CInv
<1>2. v # w => session[v].op \notin Walks
  BY NobodyWalks, WalkersApart DEF CInv
<1> QED BY <1>1, <1>2 DEF Walks

\* The other steps of PUT, MKCOL and DELETE, next to a LOCK that is under way.
LEMMA AsideCovers ==
  ASSUME CInv, NEW w \in Worker, NEW s, session' = [session EXCEPT ![w] = s],
         s.op # "lock", db' = db, now' = now,
         BeingCreated \subseteq BeingCreated',
         exists' \subseteq exists \cup BeingCreated'
  PROVE  CoversAll
<1> SUFFICES ASSUME NEW v \in Worker
             PROVE  Covers(session'[v], db', exists', BeingCreated', now')
  BY DEF CoversAll
<1>1. session'[v] = IF v = w THEN s ELSE session[v]
  BY SessionOf DEF CInv
<1>2. CASE v = w
  BY <1>1, <1>2 DEF Covers
<1>3. CASE v # w
  <2>1. session[v] \in Session /\ now \in Nat /\ now <= now
    BY Untouched, DatabaseNow DEF CInv
  <2>2. Covers(session[v], db, exists, BeingCreated, now)
    BY DEF CInv
  <2> DEFINE B == BeingCreated
             B2 == BeingCreated'
  <2>3. Covers(session[v], db, exists, B, now) /\ B \subseteq B2 /\ exists' \subseteq exists \cup B2
    BY <2>2
  <2> HIDE DEF B, B2
  <2>4. Covers(session[v], db, exists', B2, now)
    BY <2>1, <2>3, CoversStill
  <2>5. Covers(session'[v], db', exists', B2, now')
    BY <1>1, <1>3, <2>4
  <2> QED BY <2>5 DEF B2
<1> QED BY <1>2, <1>3

LEMMA BeingCreatedOf ==
  ASSUME IInv, NEW w \in Worker, NEW s, session' = [session EXCEPT ![w] = s],
         session[w].op # "inherit"
  PROVE  /\ BeingCreated \subseteq BeingCreated'
         /\ s.op = "inherit" => s.path \in BeingCreated'
<1>1. \A v \in Worker : session'[v] = IF v = w THEN s ELSE session[v]
  BY SessionOf
<1>2. BeingCreated' = {session'[x].path : x \in {v \in Worker : session'[v].op = "inherit"}}
  BY DEF BeingCreated
<1>3. BeingCreated = {session[x].path : x \in {v \in Worker : session[v].op = "inherit"}}
  BY DEF BeingCreated
<1>4. ASSUME NEW x \in Worker, session[x].op = "inherit" PROVE session[x].path \in BeingCreated'
  <2>1. session'[x] = session[x]
    BY <1>1, <1>4
  <2> QED BY <1>2, <1>4, <2>1
<1>5. ASSUME s.op = "inherit" PROVE s.path \in BeingCreated'
  <2>1. session'[w] = s
    BY <1>1
  <2> QED BY <1>2, <1>5, <2>1
<1> QED BY <1>3, <1>4, <1>5

LEMMA CreateStoredCovers ==
  ASSUME CInv, NEW w \in Worker, CreateStored(w)
  PROVE  WalkerHolds' /\ TreeClosed(exists') /\ CoversAll
<1>1. /\ IInv /\ WalkerHolds /\ TreeClosed(exists) /\ session[w].op = "store"
      /\ db' = db /\ now' = now /\ holder' = holder
  BY DEF CInv, CreateStored
<1>2. CASE /\ Parent[session[w].path] \in exists
           /\ exists' = exists \cup {session[w].path}
           /\ session' = [session EXCEPT ![w].op = "inherit"]
  <2> DEFINE s == [session[w] EXCEPT !.op = "inherit"]
  <2>1. session[w] \in [op : Creating, path : Path, locknull : BOOLEAN]
    BY <1>1, Untouched, SessionKinds DEF Creating
  <2>2. session' = [session EXCEPT ![w] = s]
    BY <1>1, <1>2, Untouched
  <2>3. s.op = "inherit" /\ s.path = session[w].path
    BY <2>1
  <2> HIDE DEF s
  <2>4. BeingCreated \subseteq BeingCreated' /\ session[w].path \in BeingCreated'
    BY <1>1, <2>2, <2>3, BeingCreatedOf
  <2>5. exists' \subseteq exists \cup BeingCreated'
    BY <1>2, <2>4
  <2>6. CoversAll
    BY <1>1, <2>2, <2>3, <2>4, <2>5, AsideCovers
  <2>7. TreeClosed(exists')
    BY <1>1, <1>2 DEF TreeClosed
  <2>8. WalkerHolds'
    BY <1>1, <2>2, <2>3, HolderKept DEF Walks
  <2> QED BY <2>6, <2>7, <2>8
<1>3. CASE session' = [session EXCEPT ![w] = Idle] /\ exists' = exists
  <2>1. BeingCreated \subseteq BeingCreated'
    BY <1>1, <1>3, BeingCreatedOf
  <2>2. exists' \subseteq exists \cup BeingCreated'
    BY <1>3
  <2>3. CoversAll
    BY <1>1, <1>3, <2>1, <2>2, IdleNowhere, AsideCovers
  <2>4. WalkerHolds'
    BY <1>1, <1>3, IdleNowhere, HolderKept
  <2> QED BY <1>1, <1>3, <2>3, <2>4
<1> QED BY <1>2, <1>3 DEF CreateStored

LEMMA DeleteRemovedCovers ==
  ASSUME CInv, NEW w \in Worker, DeleteRemoved(w)
  PROVE  WalkerHolds' /\ TreeClosed(exists') /\ CoversAll
<1>1. /\ IInv /\ WalkerHolds /\ TreeClosed(exists) /\ session[w].op = "remove"
      /\ db' = db /\ now' = now /\ holder' = holder
      /\ session' = [session EXCEPT ![w] = Idle]
  BY DEF CInv, DeleteRemoved
<1>2. BeingCreated \subseteq BeingCreated'
  BY <1>1, BeingCreatedOf
<1>3. exists' \subseteq exists
  BY DEF DeleteRemoved
<1>4. exists' \subseteq exists \cup BeingCreated'
  BY <1>3
<1>5. CoversAll
  BY <1>1, <1>2, <1>4, IdleNowhere, AsideCovers
<1>6. WalkerHolds'
  BY <1>1, IdleNowhere, HolderKept
<1>7. TreeClosed(exists')
  <2>1. CASE exists' = exists
    BY <1>1, <2>1
  <2>2. CASE exists' = exists \ ({session[w].path} \cup Below(session[w].path))
    <3> DEFINE p == session[w].path
    <3>1. exists \in SUBSET Path
      BY <1>1, Untouched
    <3>2. ASSUME NEW y \in exists', Parent[y] # NoPath PROVE Parent[y] \in exists'
      <4>1. y \in Path /\ y \in exists /\ y \notin Below(p) /\ Parent[y] \in exists
        BY <1>1, <2>2, <3>1, <3>2 DEF TreeClosed
      <4>2. /\ Parent[y] \in Path /\ Parent[y] \in Ancestors[y]
            /\ Ancestors[Parent[y]] \subseteq Ancestors[y]
        BY <3>1, <4>1, AboveMembers
      <4>3. Parent[y] # p /\ Parent[y] \notin Below(p)
        BY <4>1, <4>2 DEF Below
      <4> QED BY <2>2, <4>1, <4>3
    <3> QED BY <3>2 DEF TreeClosed
  <2> QED BY <2>1, <2>2 DEF DeleteRemoved
<1> QED BY <1>5, <1>6, <1>7

LEMMA LockCovers ==
  ASSUME CInv, NEW w \in Worker, NEW p \in Path, NEW scope \in Scope,
         NEW depth \in Depth, NEW secs \in Seconds, NEW submitted,
         NEW tok \in Token, Lock(w, p, scope, depth, secs, submitted, tok)
  PROVE  WalkerHolds' /\ TreeClosed(exists') /\ CoversAll
<1>1. /\ IInv /\ WalkerHolds /\ TreeClosed(exists) /\ holder = NoWorker
      /\ exists' = exists /\ holder' = w
  BY DEF CInv, Lock, Free
<1>2. PICK timeout :
        session' = [session EXCEPT ![w] =
          [op |-> "lock",
           locks |-> <<[rectype |-> "direct", token |-> tok, depth |-> depth,
                        timeout |-> timeout, key |-> p]>>,
           todo |-> IF depth = "infinity" THEN ExistingMembers(p) ELSE {},
           missed |-> {}]]
  BY DEF Lock
<1> DEFINE lock == [rectype |-> "direct", token |-> tok, depth |-> depth,
                    timeout |-> timeout, key |-> p]
           s == [op |-> "lock", locks |-> <<lock>>,
                 todo |-> IF depth = "infinity" THEN ExistingMembers(p) ELSE {},
                 missed |-> {}]
<1>3. session' = [session EXCEPT ![w] = s]
  BY <1>2
<1>4. lock.key = p /\ lock.depth = depth
  OBVIOUS
<1>5. /\ s.op = "lock" /\ s.locks = <<lock>>
      /\ s.todo = IF depth = "infinity" THEN ExistingMembers(p) ELSE {}
  OBVIOUS
<1> HIDE DEF lock, s
<1>6. \A d, B, t : Covers(s, d, exists, B, t)
  BY <1>1, <1>4, <1>5, CoversFirst
<1>7. ASSUME NEW v \in Worker
      PROVE  Covers(session'[v], db', exists', BeingCreated', now')
  <2>1. session'[v] = IF v = w THEN s ELSE session[v]
    BY <1>1, <1>3, SessionOf
  <2>2. CASE v = w
    BY <1>1, <1>6, <2>1, <2>2
  <2>3. CASE v # w
    <3>1. session'[v].op # "lock"
      BY <1>1, <2>1, <2>3, NobodyWalks DEF Walks
    <3> QED BY <3>1 DEF Covers
  <2> QED BY <2>2, <2>3
<1>8. WalkerHolds'
  BY <1>1, <1>3, HolderKept
<1> QED BY <1>1, <1>7, <1>8 DEF CoversAll

LEMMA InheritMemberCovers ==
  ASSUME CInv, NEW w \in Worker, NEW q \in Path,
         InheritMember(w, q) \/ InheritFails(w, q)
  PROVE  WalkerHolds' /\ TreeClosed(exists') /\ CoversAll
<1>1. /\ IInv /\ WalkerHolds /\ TreeClosed(exists)
      /\ session[w].op \in {"lock", "notify"} /\ session[w] \in Session
      /\ session[w].locks \in Seq(HandedLock)
      /\ exists' = exists /\ now' = now /\ holder' = holder
  BY InheritStep DEF CInv
<1> DEFINE more == Onwards(session[w], q)
<1>2. PICK found \in SUBSET Path, lost \in SUBSET Path :
        /\ session' = [session EXCEPT ![w] = Past(session[w], q, found, lost)]
        /\ \/ /\ db' = AppendIndirect(db, q, session[w].locks, now)
              /\ more = found \cup lost
           \/ q \in lost /\ db' \in {db, Purge(db, {q}, now)}
  <2>1. CASE InheritMember(w, q)
    <3>1. PICK found \in Found(more, q) :
            session' = [session EXCEPT ![w] =
              Past(session[w], q, found, more \ found)]
      BY <2>1 DEF InheritMember
    <3>2. db' = AppendIndirect(db, q, session[w].locks, now)
      BY <2>1 DEF InheritMember
    <3>3. more \in SUBSET Path
      BY <1>1, InheritStep
    <3> HIDE DEF more
    <3>4. /\ found \in SUBSET Path /\ more \ found \in SUBSET Path
          /\ more = found \cup (more \ found)
      BY <3>3, FoundIs
    <3> QED BY <3>1, <3>2, <3>4
  <2>2. CASE InheritFails(w, q)
    BY <2>2 DEF InheritFails
  <2> QED BY <2>1, <2>2
<1> DEFINE s == Past(session[w], q, found, lost)
<1>3. session' = [session EXCEPT ![w] = s]
  BY <1>2
<1>4. /\ s.op = session[w].op /\ s.locks = session[w].locks /\ s \in Session
      /\ s.todo = (session[w].todo \ {q}) \cup found
      /\ s.missed = session[w].missed \cup lost
  <2>1. found \cup lost \in SUBSET Path
    OBVIOUS
  <2> QED BY <1>1, <2>1, PastSession
<1> HIDE DEF s
<1>5. holder = w
  BY <1>1 DEF WalkerHolds, Walks
<1>6. WalkerHolds'
  BY <1>1, <1>3, <1>5, HolderKept
<1>7. CASE session[w].op = "notify"
  <2>1. CoversAll
    BY <1>1, <1>3, <1>4, <1>7, NoLockCovers DEF Walks
  <2> QED BY <1>1, <1>6, <2>1
<1>8. CASE session[w].op = "lock"
  <2>1. \A x \in Path : x # q => db'[x] = db[x]
    <3>1. db \in Database
      BY <1>1, Untouched
    <3>2. CASE db' = AppendIndirect(db, q, session[w].locks, now)
      <4>1. \E new : db' = [db EXCEPT ![q] = new]
        BY <3>2 DEF AppendIndirect
      <4> QED BY <3>1, <4>1, ReplacedAt
    <3>3. CASE db' \in {db, Purge(db, {q}, now)}
      BY <3>1, <3>3 DEF Purge, Database
    <3> QED BY <1>2, <3>2, <3>3
  <2>2. \/ q \in lost
        \/ /\ \A i \in DOMAIN s.locks : Handed(db', q, s.locks[i])
           /\ ExistingMembers(q) \subseteq found \cup lost
    <3>1. CASE /\ db' = AppendIndirect(db, q, session[w].locks, now)
               /\ more = found \cup lost
      <4>1. ExistingMembers(q) \subseteq found \cup lost
        BY <1>8, <3>1 DEF Onwards
      <4>2. \A i \in DOMAIN s.locks : Handed(db', q, s.locks[i])
        BY <1>1, <1>4, <3>1, Untouched, AppendIndirectHands
      <4> QED BY <4>1, <4>2
    <3> QED BY <1>2, <3>1
  <2>3. Covers(session[w], db, exists, BeingCreated, now)
    BY DEF CInv
  <2> DEFINE B == BeingCreated
             B2 == BeingCreated'
             d == db'
  <2>4. Covers(s, d, exists, B, now)
    <3> HIDE DEF d, more
    <3> QED BY <1>1, <1>4, <1>8, <2>1, <2>2, <2>3, CoversNext DEF d
  <2>5. B \subseteq B2 /\ exists \subseteq exists \cup B2
    BY <1>1, <1>3, <1>8, BeingCreatedOf
  <2>6. now \in Nat /\ now <= now
    BY <1>1, DatabaseNow
  <2> HIDE DEF B, B2, d
  <2>7. Covers(s, d, exists, B2, now)
    BY <1>4, <2>4, <2>5, <2>6, CoversStill
  <2>8. ASSUME NEW v \in Worker PROVE Covers(session'[v], db', exists', B2, now')
    <3>1. session'[v] = IF v = w THEN s ELSE session[v]
      BY <1>1, <1>3, SessionOf
    <3>2. CASE v = w
      BY <1>1, <2>7, <3>1, <3>2 DEF d
    <3>3. CASE v # w
      <4>1. session[v].op \notin Walks
        BY <1>1, <3>3, WalkersApart DEF Walks
      <4>2. session'[v].op # "lock"
        BY <3>1, <3>3, <4>1 DEF Walks
      <4> QED BY <4>2 DEF Covers
    <3> QED BY <3>2, <3>3
  <2>9. CoversAll
    BY <2>8 DEF CoversAll, B2
  <2> QED BY <1>1, <1>6, <2>9
<1> QED BY <1>1, <1>7, <1>8

\* Every other step of a worker starts when nobody walks, or walks itself, and
\* is no part of a LOCK when it is over.
LEMMA OthersCover ==
  ASSUME CInv, NEW w \in Worker,
         \/ \E q \in Path : \/ UnlockMember(w, q) \/ DeleteClear(w, q)
                            \/ RemoveFails(w, q)
         \/ WalkDone(w) \/ WalkFails(w) \/ CreateNotified(w) \/ DeleteCleared(w)
         \/ \E submitted : CreateValidated(w, submitted)
         \/ \E p \in Path : \/ Create(w, p)
                            \/ \E tok : Unlock(w, p, tok)
                            \/ \E submitted : Delete(w, p, submitted)
  PROVE  WalkerHolds' /\ TreeClosed(exists') /\ CoversAll
<1>1. IInv /\ WalkerHolds /\ TreeClosed(exists) /\ session \in [Worker -> Session]
  BY Untouched DEF CInv
<1>2. ASSUME NEW s, session' = [session EXCEPT ![w] = s], s.op # "lock",
             s.op \in Walks => holder' = w,
             holder = NoWorker \/ session[w].op \in Walks, exists' = exists
      PROVE  WalkerHolds' /\ TreeClosed(exists') /\ CoversAll
  <2>1. CoversAll
    BY <1>2, NoLockCovers
  <2>2. WalkerHolds'
    BY <1>1, <1>2, HolderKept
  <2> QED BY <1>1, <1>2, <2>1, <2>2
<1>3. ASSUME NEW q \in Path,
             UnlockMember(w, q) \/ DeleteClear(w, q) \/ RemoveFails(w, q)
      PROVE  WalkerHolds' /\ TreeClosed(exists') /\ CoversAll
  <2>1. PICK s \in Session : /\ session' = [session EXCEPT ![w] = s]
                             /\ s.op = session[w].op
    BY <1>1, <1>3, RemoveStep
  <2>2. /\ session[w].op \in {"unlock", "clear"} /\ exists' = exists
        /\ holder' = holder
    BY <1>1, <1>3, RemoveStep
  <2>3. holder = w
    BY <2>2 , <1>1 DEF WalkerHolds, Walks
  <2> QED BY <1>2, <2>1, <2>2, <2>3 DEF Walks
<1>4. CASE WalkDone(w) \/ WalkFails(w)
  <2>1. /\ session' = [session EXCEPT ![w] = Idle] /\ exists' = exists
        /\ session[w].op \in Walks
    BY <1>4 DEF WalkDone, WalkFails, Walks
  <2> QED BY <1>2, <2>1, IdleNowhere
<1>5. CASE CreateNotified(w)
  <2>1. /\ holder = NoWorker /\ exists' = exists
        /\ \/ session' = [session EXCEPT ![w] = Idle]
           \/ /\ holder' = w
              /\ \E locks : session' = [session EXCEPT ![w] =
                   [op |-> "notify", locks |-> locks, todo |-> {session[w].path},
                    missed |-> {}]]
    BY <1>5 DEF CreateNotified
  <2>2. CASE session' = [session EXCEPT ![w] = Idle]
    BY <1>2, <2>1, <2>2, IdleNowhere
  <2>3. ASSUME NEW locks, holder' = w, session' = [session EXCEPT ![w] =
                 [op |-> "notify", locks |-> locks, todo |-> {session[w].path},
                    missed |-> {}]]
        PROVE  WalkerHolds' /\ TreeClosed(exists') /\ CoversAll
    <3> DEFINE s == [op |-> "notify", locks |-> locks, todo |-> {session[w].path},
                     missed |-> {}]
    <3>1. session' = [session EXCEPT ![w] = s] /\ s.op # "lock"
      BY <2>3
    <3> HIDE DEF s
    <3> QED BY <1>2, <2>1, <2>3, <3>1
  <2> QED BY <2>1, <2>2, <2>3
<1>6. CASE DeleteCleared(w)
  <2> DEFINE s == [op |-> "remove", path |-> session[w].path]
  <2>1. session' = [session EXCEPT ![w] = s] /\ s.op = "remove"
    BY <1>6 DEF DeleteCleared
  <2> HIDE DEF s
  <2>2. exists' = exists /\ session[w].op \in Walks /\ s.op \notin Walks
    BY <1>6, <2>1 DEF DeleteCleared, Walks
  <2> QED BY <1>2, <2>1, <2>2
<1>7. ASSUME NEW submitted, CreateValidated(w, submitted)
      PROVE  WalkerHolds' /\ TreeClosed(exists') /\ CoversAll
  <2>1. /\ holder = NoWorker /\ exists' = exists /\ session[w].op = "validate"
        /\ \/ session' = [session EXCEPT ![w].op = "store"]
           \/ session' = [session EXCEPT ![w] = Idle]
    BY <1>7 DEF CreateValidated
  <2>2. CASE session' = [session EXCEPT ![w] = Idle]
    BY <1>2, <2>1, <2>2, IdleNowhere
  <2>3. CASE session' = [session EXCEPT ![w].op = "store"]
    <3> DEFINE s == [session[w] EXCEPT !.op = "store"]
    <3>1. session[w] \in [op : Creating, path : Path, locknull : BOOLEAN]
      BY <1>1, <2>1, SessionKinds DEF Creating
    <3>2. session' = [session EXCEPT ![w] = s] /\ s.op = "store"
      BY <1>1, <2>3, <3>1
    <3> HIDE DEF s
    <3> QED BY <1>2, <2>1, <3>2 DEF Walks
  <2> QED BY <2>1, <2>2, <2>3
<1>8. ASSUME NEW p \in Path, Create(w, p)
      PROVE  WalkerHolds' /\ TreeClosed(exists') /\ CoversAll
  <2> DEFINE s == [op |-> "validate", path |-> p, locknull |-> HasLocks(db, p)]
  <2>1. /\ holder = NoWorker /\ exists' = exists
        /\ session' = [session EXCEPT ![w] = s]
    BY <1>8 DEF Create, Free
  <2>2. s.op # "lock" /\ s.op \notin Walks
    BY DEF Walks
  <2> HIDE DEF s
  <2> QED BY <1>2, <2>1, <2>2
<1>9. ASSUME NEW p \in Path, NEW tok, Unlock(w, p, tok)
      PROVE  WalkerHolds' /\ TreeClosed(exists') /\ CoversAll
  <2>1. PICK r : session' = [session EXCEPT ![w] =
             [op |-> "unlock", token |-> tok, todo |-> WalkedMembers(r)]]
    BY <1>9 DEF Unlock
  <2> DEFINE s == [op |-> "unlock", token |-> tok, todo |-> WalkedMembers(r)]
  <2>2. session' = [session EXCEPT ![w] = s] /\ s.op # "lock"
    BY <2>1
  <2> HIDE DEF s
  <2>3. holder = NoWorker /\ exists' = exists /\ holder' = w
    BY <1>9 DEF Unlock, Free
  <2> QED BY <1>2, <2>2, <2>3
<1>10. ASSUME NEW p \in Path, NEW submitted, Delete(w, p, submitted)
       PROVE  WalkerHolds' /\ TreeClosed(exists') /\ CoversAll
  <2> DEFINE s == [op |-> "clear", path |-> p, todo |-> WalkedMembers(p)]
  <2>1. session' = [session EXCEPT ![w] = s] /\ s.op # "lock"
    BY <1>10 DEF Delete
  <2> HIDE DEF s
  <2>2. holder = NoWorker /\ exists' = exists /\ holder' = w
    BY <1>10 DEF Delete, Free
  <2> QED BY <1>2, <2>1, <2>2
<1> QED BY <1>3, <1>4, <1>5, <1>6, <1>7, <1>8, <1>9, <1>10

\* The steps that leave the sessions alone.
LEMMA SessionsStayCover ==
  ASSUME CInv,
         \/ Tick \/ UNCHANGED vars
         \/ \E w \in Worker, p \in Path :
              Query(w, p) \/ \E tok, secs : Refresh(w, p, tok, secs)
  PROVE  WalkerHolds' /\ TreeClosed(exists') /\ CoversAll
<1>1. /\ IInv /\ WalkerHolds /\ TreeClosed(exists)
      /\ exists' = exists /\ session' = session /\ holder' = holder
  BY DEF CInv, Tick, vars, Query, Refresh
<1>2. WalkerHolds' /\ BeingCreated' = BeingCreated
  BY <1>1 DEF WalkerHolds, BeingCreated
<1>3. CASE holder = NoWorker
  <2>1. \A v \in Worker : session'[v].op # "lock"
    BY <1>1, <1>3, NobodyWalks DEF Walks
  <2> QED BY <1>1, <1>2, <2>1 DEF CoversAll, Covers
<1>4. CASE Tick \/ UNCHANGED vars
  <2>1. db' = db /\ now \in Nat /\ now' \in Nat /\ now <= now'
    BY <1>1, <1>4, DatabaseNow DEF Tick, vars
  <2>2. ASSUME NEW v \in Worker
        PROVE  Covers(session'[v], db', exists', BeingCreated', now')
    <3>1. session[v] \in Session
      BY <1>1, Untouched
    <3>2. Covers(session[v], db, exists, BeingCreated, now)
      BY DEF CInv
    <3>3. BeingCreated \subseteq BeingCreated /\ exists \subseteq exists \cup BeingCreated
      OBVIOUS
    <3>4. Covers(session[v], db, exists, BeingCreated, now')
      BY <2>1, <3>1, <3>2, <3>3, CoversStill
    <3> QED BY <1>1, <1>2, <2>1, <3>4
  <2> QED BY <1>1, <1>2, <2>2 DEF CoversAll
<1> QED BY <1>3, <1>4 DEF Query, Refresh, Free

LEMMA NextCovers ==
  ASSUME Mortal = {}, CInv, [Next]_vars
  PROVE  CInv'
<1>1. IInv'
  BY NextKeeps DEF CInv
<1>2. ASSUME NEW w \in Worker, Request(w)
      PROVE  WalkerHolds' /\ TreeClosed(exists') /\ CoversAll
  <2>1. PICK p \in Path :
          \/ \E scope \in Scope, depth \in Depth, secs \in Seconds,
                submitted \in SUBSET used, tok \in Token :
               Lock(w, p, scope, depth, secs, submitted, tok)
          \/ Query(w, p)
          \/ \E tok \in used, secs \in Seconds : Refresh(w, p, tok, secs)
          \/ \E tok \in used : Unlock(w, p, tok)
          \/ Create(w, p)
          \/ \E submitted \in SUBSET used : Delete(w, p, submitted)
    BY <1>2 DEF Request
  <2> QED BY <2>1, LockCovers, SessionsStayCover, OthersCover
<1>3. ASSUME NEW w \in Worker, Progress(w)
      PROVE  WalkerHolds' /\ TreeClosed(exists') /\ CoversAll
  <2>1. \/ \E q \in Path : \/ InheritMember(w, q) \/ InheritFails(w, q)
                           \/ UnlockMember(w, q) \/ DeleteClear(w, q)
                           \/ RemoveFails(w, q)
        \/ WalkDone(w) \/ WalkFails(w)
        \/ \E submitted \in SUBSET used : CreateValidated(w, submitted)
        \/ CreateStored(w) \/ CreateNotified(w)
        \/ DeleteCleared(w) \/ DeleteRemoved(w)
    BY <1>3 DEF Progress, GoesOn, CallFails
  <2> QED BY <2>1, InheritMemberCovers, CreateStoredCovers, DeleteRemovedCovers,
             OthersCover
<1>4. ASSUME NEW w \in Worker, Crash(w)
      PROVE  WalkerHolds' /\ TreeClosed(exists') /\ CoversAll
  BY <1>4 DEF Crash
<1>5. ASSUME Tick \/ UNCHANGED vars
      PROVE  WalkerHolds' /\ TreeClosed(exists') /\ CoversAll
  BY <1>5, SessionsStayCover
<1>6. WalkerHolds' /\ TreeClosed(exists') /\ CoversAll
  BY <1>2, <1>3, <1>4, <1>5 DEF Next
<1> QED BY <1>1, <1>6 DEF CInv, CoversAll, TreeClosed

\* When a LOCK of depth infinity is answered as done, its walk has left an entry
\* at every path that exists below the locked one, unless the lock has timed out,
\* the path, or one above it, is still to be notified of, or a call of the walk
\* failed there, which walker does not tell: where no worker dies in the middle
\* of a request (one that dies between the creation of a path and
\* dav_notify_created leaves it without).
THEOREM LockReachesTree ==
  ASSUME Mortal = {}
  PROVE  Spec => LockCoversTree
<1>1. Init => CInv
  <2> SUFFICES ASSUME Init PROVE CInv
    OBVIOUS
  <2>1. IInv
    BY InitKeeps
  <2>2. TreeClosed(exists)
    BY DEF Init
  <2>3. \A w \in Worker : session[w].op = "idle"
    BY DEF Init, Idle
  <2> QED BY <2>1, <2>2, <2>3 DEF CInv, WalkerHolds, Walks, Covers
<1>2. CInv /\ [Next]_vars => CInv'
  BY NextCovers
<1>3. CInv /\ [Next]_vars =>
        [\A w \in Worker :
           WalkDone(w) /\ session[w].op = "lock" =>
             LET lock == session[w].locks[1]
             IN  \A q \in Below(lock.key) \cap exists :
                   \/ Reached(lock, q)
                   \/ ({q} \cup Ancestors[q]) \cap session[w].missed # {}]_vars
  <2> SUFFICES ASSUME CInv, NEW w \in Worker, WalkDone(w),
                      session[w].op = "lock",
                      NEW q \in Below(session[w].locks[1].key) \cap exists
               PROVE  \/ Reached(session[w].locks[1], q)
                      \/ ({q} \cup Ancestors[q]) \cap session[w].missed # {}
    OBVIOUS
  <2> DEFINE s == session[w]
             lock == s.locks[1]
  <2>1. s.todo = {} /\ CoversBelow(s, lock, db, exists, BeingCreated, now)
    BY DEF CInv, Covers, WalkDone
  <2> HIDE DEF s, lock
  <2>2. ~ OnTheWay(s.todo, q)
    BY <2>1 DEF OnTheWay
  <2>3. \/ lock.depth = "zero" \/ Expired(lock.timeout, now)
        \/ Handed(db, q, lock) \/ OnTheWay(s.missed, q)
        \/ OnTheWay(BeingCreated, q)
    BY <2>1, <2>2 DEF CoversBelow, lock, s
  <2>4. Handed(db, q, lock) => HasToken(db[q].indirect, lock.token)
    BY DEF Handed, HasToken
  <2>5. Reached(lock, q) \/ ({q} \cup Ancestors[q]) \cap s.missed # {}
    BY <2>3, <2>4 DEF Reached, OnTheWay
  <2> QED BY <2>5 DEF s, lock
<1> QED BY <1>1, <1>2, <1>3, PTL DEF Spec, LockCoversTree

=============================================================================
