----------------------------- MODULE DavLocking -----------------------------
(***************************************************************************)
(* The lock database in use: httpd workers that serve LOCK, UNLOCK, PUT    *)
(* and MKCOL of a new member, and DELETE, over one DBM file, while time    *)
(* passes, locks time out and workers die.                                 *)
(*                                                                         *)
(* What a hook does to the database is LockRecords; the order in which a   *)
(* request calls the hooks is mod_dav's (external), stated here as the     *)
(* sessions of the workers.  One hook call is one step.  A worker keeps    *)
(* the lock file open over the calls of one session, and the DBM gives the *)
(* file to one writer at a time ("only one can be open read/write").       *)
(***************************************************************************)
EXTENDS LockRecords, Functions

CONSTANTS Parent,      \* the collection each path is a member of
          NoPath,      \* the parent of the exposed root
          Collections, \* the paths that are collections when they exist
          Worker,      \* httpd workers
          Mortal,      \* the workers that may die in the middle of a request
          NoWorker,
          Undeletable, \* the paths whose record the DBM may fail to delete
          Faulty,      \* the paths at which another call of a walk may fail
          Seconds,     \* the lifetimes a client may ask for; 0 is infinite
          MaxTime      \* bound of the clock

ASSUME TreeAssumption ==
  /\ NoPath \notin Path
  /\ Parent \in [Path -> Path \cup {NoPath}]
  /\ Collections \subseteq Path /\ Undeletable \subseteq Path
  /\ Faulty \subseteq Path

ASSUME WorkerAssumption == NoWorker \notin Worker /\ Mortal \subseteq Worker

ASSUME TimeAssumption == Seconds \subseteq Nat /\ MaxTime \in Nat

VARIABLES exists,   \* the paths iRODS has an object or a collection for
          db,       \* the lock database
          now,      \* time(NULL)
          used,     \* the tokens generated so far
          holder,   \* the worker that has the lock file open
          session   \* what each worker is in the middle of

\* The code has no field `missed': it is there for the properties, and says
\* where the walk of a LOCK or a dav_notify_created has lost a call.

vars == <<exists, db, now, used, holder, session>>

Idle == [op |-> "idle"]

Session ==
  {Idle}
  \cup [op : {"lock", "notify"}, locks : Seq(HandedLock), todo : SUBSET Path,
        missed : SUBSET Path]
  \cup [op : {"unlock"}, token : Token, todo : SUBSET Path]
  \cup [op : {"clear"}, path : Path, todo : SUBSET Path]
  \cup [op : {"remove"}, path : Path]
  \cup [op : {"validate", "store", "inherit"}, path : Path,
        locknull : BOOLEAN]

TypeOK == /\ exists \in SUBSET Path
          /\ db \in [Path -> LockRecord]
          /\ now \in Nat
          /\ used \in SUBSET Token
          /\ holder \in Worker \cup {NoWorker}
          /\ session \in [Worker -> Session]

-----------------------------------------------------------------------------
(* The tree.                                                               *)

Members(p) == {q \in Path : Parent[q] = p}

\* S has the parent of p, if that is a path at all.
HasParentOf(S, p) == Parent[p] \in S \cup {NoPath}

\* The least set that has the parent of p and of all that is in it.
Ancestors[p \in Path] ==
  {a \in Path : \A S \in SUBSET Path :
     HasParentOf(S, p) /\ (\A q \in S : HasParentOf(S, q)) => a \in S}

Below(p) == {q \in Path : p \in Ancestors[q]}

\* What a walk visits next below p: LOCK's sees the members that exist, the
\* others also those that only have a lock (DAV_WALKTYPE_LOCKNULL).
ExistingMembers(p) == IF p \in exists THEN Members(p) \cap exists ELSE {}

WalkedMembers(p) == IF p \in exists
                    THEN {q \in Members(p) : q \in exists \/ HasLocks(db, q)}
                    ELSE {}

-----------------------------------------------------------------------------
(* Validation: mod_dav queries each path of a set, resolved.               *)

\* The queries read records at `now' and resolve what they hold at u.
AnyCorrupt(S, u) == \E q \in S : Corrupt(db, q, now, u)

Queried(S, u) ==
  Purge(Purge(db, S, now), UNION {ResolvedKeys(db, q, now) : q \in S}, u)

\* Mutant: an exclusive lock is only kept from other exclusive locks.
ConflictsExclusive(S, scope, u) ==
  \E q \in S : \E h \in Holds(db, q, now, u) :
     scope = "exclusive" /\ h.scope = "exclusive"

\* A new lock conflicts with what is there.
Conflicts(S, scope, u) ==
  \E q \in S : \E h \in Holds(db, q, now, u) :
     scope = "exclusive" \/ h.scope = "exclusive"

\* The request names a lock of every locked path.
Permitted(S, submitted, u) ==
  \A q \in S : \/ Holds(db, q, now, u) = {}
               \/ \E h \in Holds(db, q, now, u) : h.token \in submitted

\* A request that adds no lock passes validation.
Valid(S, submitted, u) == ~ AnyCorrupt(S, u) /\ Permitted(S, submitted, u)

ParentOf(p) == {Parent[p]} \ {NoPath}

Free(w) == session[w] = Idle /\ holder = NoWorker

\* One second may pass between reading a record and resolving its entries.
Later == {now, now + 1} \cap 0 .. MaxTime

\* PROPFIND, or a request that is refused: what it leaves is what its
\* queries purged, one path after another until the one that refused it.
Query(w, p) ==
  /\ Free(w)
  /\ \E u \in Later : db' = Queried({p}, u) /\ now' = u
  /\ UNCHANGED <<exists, used, holder, session>>

-----------------------------------------------------------------------------
(* LOCK.                                                                   *)

\* The paths a LOCK request is validated against.
LockScope(p, depth) ==
  {p} \cup (IF depth = "infinity" THEN Below(p) \cap exists ELSE {})

LockAllowed(p, scope, depth, submitted, u) ==
  LET S == LockScope(p, depth)
      P == IF p \in exists THEN {} ELSE ParentOf(p)
  IN  /\ ~ AnyCorrupt(S \cup P, u)
      /\ ~ Conflicts(S, scope, u)
      /\ Permitted(P, submitted, u)

Lockable(p, depth) ==
  IF depth = "infinity" THEN p \in exists \cap Collections
  ELSE p \in exists \/ Parent[p] \in exists

\* Validate, create_lock, append_locks on the locked path itself.
Lock(w, p, scope, depth, secs, submitted, tok) ==
  /\ Free(w) /\ Lockable(p, depth) /\ tok \in Token \ used
  /\ \E u \in Later :
       LET S == LockScope(p, depth)
           timeout == IF secs = 0 THEN DAV_TIMEOUT_INFINITE ELSE u + secs
           direct == [token |-> tok, scope |-> scope, depth |-> depth,
                      timeout |-> timeout]
           todo == IF depth = "infinity" THEN ExistingMembers(p) ELSE {}
           read == S \cup (IF p \in exists THEN {} ELSE ParentOf(p))
           lock == [rectype |-> "direct", token |-> tok, depth |-> depth,
                    timeout |-> timeout, key |-> p]
       IN  /\ LockAllowed(p, scope, depth, submitted, u)
           /\ now' = u
           /\ db' = AppendDirect(Queried(read, u), p, direct, u)
           /\ session' = [session EXCEPT ![w] =
                            [op |-> "lock", locks |-> <<lock>>, todo |-> todo,
                             missed |-> {}]]
  /\ used' = used \cup {tok}
  /\ holder' = w
  /\ UNCHANGED <<exists>>

\* Mutant: the walk stays on the first level.
InheritMemberOnly(w, q) ==
  /\ session[w].op \in {"lock", "notify"} /\ q \in session[w].todo
  /\ db' = AppendIndirect(db, q, session[w].locks, now)
  /\ session' = [session EXCEPT ![w].todo = @ \ {q}]
  /\ UNCHANGED <<exists, now, used, holder>>

\* What the walk finds of the members S of q: all of them, or those it came to
\* before rclOpenCollection or rclReadCollection failed or a name was too long.
\* What the walker of a member returns is dropped by its caller.
Found(S, q) == IF q \in Faulty THEN SUBSET S ELSE {S}

\* Where the walk in session s goes on below q, if no call fails there.
Onwards(s, q) == IF s.op = "lock" THEN ExistingMembers(q) ELSE WalkedMembers(q)

\* The walk in session s is past q: it goes on with `found' as well, and `lost'
\* is left out.
Past(s, q, found, lost) ==
  [s EXCEPT !.todo = (@ \ {q}) \cup found, !.missed = @ \cup lost]

\* The walk adds indirect locks to one more path.
InheritMember(w, q) ==
  /\ session[w].op \in {"lock", "notify"} /\ q \in session[w].todo
  /\ db' = AppendIndirect(db, q, session[w].locks, now)
  /\ \E found \in Found(Onwards(session[w], q), q) :
       session' = [session EXCEPT
         ![w] = Past(@, q, found, Onwards(@, q) \ found)]
  /\ UNCHANGED <<exists, now, used, holder>>

\* append_locks fails for a member, before or after it has purged the record:
\* the walker returns at once, and its caller drops the error.
InheritFails(w, q) ==
  /\ session[w].op \in {"lock", "notify"} /\ q \in session[w].todo \cap Faulty
  /\ db' \in {db, Purge(db, {q}, now)}
  /\ session' = [session EXCEPT ![w] = Past(@, q, {}, {q})]
  /\ UNCHANGED <<exists, now, used, holder>>

\* The walk of a LOCK, an UNLOCK or a dav_notify_created is over: the lock
\* file is closed and the request answered as done.
WalkDone(w) ==
  /\ session[w].op \in {"lock", "notify", "unlock"} /\ session[w].todo = {}
  /\ session' = [session EXCEPT ![w] = Idle]
  /\ holder' = NoWorker
  /\ UNCHANGED <<exists, db, now, used>>

\* A call fails at the root of the walk, or the root has a member whose name is
\* too long: the request ends with an error and the lock file is closed.
WalkFails(w) ==
  /\ Faulty # {}
  /\ session[w].op \in {"lock", "notify", "unlock", "clear"}
  /\ session' = [session EXCEPT ![w] = Idle]
  /\ holder' = NoWorker
  /\ UNCHANGED <<exists, db, now, used>>

\* LOCK without a body: refresh the lock tok that p holds.
Refresh(w, p, tok, secs) ==
  /\ Free(w)
  /\ ~ Corrupt(db, p, now, now)
  /\ \E h \in Holds(db, p, now, now) : h.token = tok
  /\ db' = RefreshLocks(Queried({p}, now), p, tok,
             IF secs = 0 THEN DAV_TIMEOUT_INFINITE ELSE now + secs, now)
  /\ UNCHANGED <<exists, now, used, holder, session>>

-----------------------------------------------------------------------------
(* UNLOCK.                                                                 *)

\* save_lock_record of what remove_lock has left of q's record in d: the result
\* of apr_dbm_delete is not looked at, and the record may stay.
Saved(d, left, q) ==
  {left} \cup (IF q \in Undeletable /\ left[q] = NoLocks THEN {d} ELSE {})

\* dav_get_direct_resource: find_lock on p and then up the tree, while the
\* token is found as an indirect lock.
DirectResource(p, tok) ==
  {r \in {p} \cup Ancestors[p] :
     /\ HasToken(LoadRecord(db[r], now).direct, tok)
     /\ \A q \in ({p} \cup Ancestors[p]) \cap Below(r) :
          /\ ~ HasToken(LoadRecord(db[q], now).direct, tok)
          /\ HasToken(LoadRecord(db[q], now).indirect, tok)}

\* Validate, find the locked path, remove_lock there, walk its members.
Unlock(w, p, tok) ==
  /\ Free(w)
  /\ ~ Corrupt(db, p, now, now)
  /\ \E r \in DirectResource(p, tok) :
       LET searched == {p} \cup (Ancestors[p] \ Ancestors[r])
           d == Purge(Queried({p}, now), searched, now)
       IN  /\ db' \in Saved(d, RemoveLock(d, r, tok, now), r)
           /\ session' = [session EXCEPT ![w] =
                [op |-> "unlock", token |-> tok,
                 todo |-> WalkedMembers(r)]]
  /\ holder' = w
  /\ UNCHANGED <<exists, now, used>>

\* Mutant: the walk does not move on.
UnlockMemberAgain(w, q) ==
  /\ session[w].op = "unlock" /\ q \in session[w].todo
  /\ db' \in Saved(Purge(db, {q}, now),
                   RemoveLock(db, q, session[w].token, now), q)
  /\ session' = [session EXCEPT ![w].todo = @ \cup WalkedMembers(q)]
  /\ UNCHANGED <<exists, now, used, holder>>

\* The walk removes the lock from one more path, and goes on with the members
\* it finds there.
UnlockMember(w, q) ==
  /\ session[w].op = "unlock" /\ q \in session[w].todo
  /\ db' \in Saved(Purge(db, {q}, now),
                   RemoveLock(db, q, session[w].token, now), q)
  /\ \E found \in Found(WalkedMembers(q), q) :
       session' = [session EXCEPT ![w].todo = (@ \ {q}) \cup found]
  /\ UNCHANGED <<exists, now, used, holder>>

\* remove_lock fails for a member of the walk of an UNLOCK or a DELETE; with a
\* token it may have purged the record by then.
RemoveFails(w, q) ==
  /\ session[w].op \in {"unlock", "clear"} /\ q \in session[w].todo \cap Faulty
  /\ \/ db' = db
     \/ session[w].op = "unlock" /\ db' = Purge(db, {q}, now)
  /\ session' = [session EXCEPT ![w].todo = @ \ {q}]
  /\ UNCHANGED <<exists, now, used, holder>>

-----------------------------------------------------------------------------
(* PUT and MKCOL of a path that does not exist.                            *)

\* dav_get_resource_state: has_locks tells a lock-null path from a new one.
Create(w, p) ==
  /\ Free(w) /\ p \notin exists /\ Parent[p] \in exists
  /\ session' = [session EXCEPT ![w] =
       [op |-> "validate", path |-> p, locknull |-> HasLocks(db, p)]]
  /\ UNCHANGED <<exists, db, now, used, holder>>

\* A lock-null path answers for itself; a new one, for its parent too.
CreateScope(s) == {s.path} \cup (IF s.locknull THEN {} ELSE ParentOf(s.path))

CreateValidated(w, submitted) ==
  /\ session[w].op = "validate" /\ holder = NoWorker
  /\ \E u \in Later :
       LET S == CreateScope(session[w])
       IN  \/ /\ Valid(S, submitted, u)
              /\ db' = Queried(S, u) /\ now' = u
              /\ session' = [session EXCEPT ![w].op = "store"]
           \/ /\ ~ Valid(S, submitted, u)
              /\ UNCHANGED <<db, now>>
              /\ session' = [session EXCEPT ![w] = Idle]
  /\ UNCHANGED <<exists, used, holder>>

\* The upload (or rcCollCreate) succeeds, or fails because the parent went.
CreateStored(w) ==
  /\ session[w].op = "store"
  /\ \/ /\ Parent[session[w].path] \in exists
        /\ exists' = exists \cup {session[w].path}
        /\ session' = [session EXCEPT ![w].op = "inherit"]
     \/ /\ session' = [session EXCEPT ![w] = Idle]
        /\ UNCHANGED exists
  /\ UNCHANGED <<db, now, used, holder>>

\* The parent's locks that reach its members: all but direct ones of depth 0.
Inheritable(locks) ==
  Pick(locks, {i \in DOMAIN locks : \/ locks[i].rectype = "partial"
                                    \/ locks[i].depth = "infinity"})

\* dav_notify_created: a path that was new gets its parent's locks, and so
\* does whatever is below it by now.
CreateNotified(w) ==
  /\ session[w].op = "inherit" /\ holder = NoWorker
  /\ LET s == session[w]
         locks == IF s.locknull THEN <<>>
                  ELSE Inheritable(PartialLocks(db, Parent[s.path], now))
     IN  /\ db' = IF s.locknull THEN db ELSE Purge(db, ParentOf(s.path), now)
         /\ IF locks = <<>>
            THEN session' = [session EXCEPT ![w] = Idle] /\ UNCHANGED holder
            ELSE /\ session' = [session EXCEPT ![w] =
                      [op |-> "notify", locks |-> locks, todo |-> {s.path},
                       missed |-> {}]]
                 /\ holder' = w
  /\ UNCHANGED <<exists, now, used>>

-----------------------------------------------------------------------------
(* DELETE.                                                                 *)

DeleteScope(p) == {p} \cup (Below(p) \cap exists) \cup ParentOf(p)

\* Validate; then dav_unlock without a token starts at p.
Delete(w, p, submitted) ==
  /\ Free(w) /\ p \in exists
  /\ \E u \in Later :
       LET S == DeleteScope(p)
       IN  /\ Valid(S, submitted, u)
           /\ db' \in Saved(Queried(S, u), RemoveAll(Queried(S, u), p), p)
           /\ now' = u
           /\ session' = [session EXCEPT ![w] =
                [op |-> "clear", path |-> p, todo |-> WalkedMembers(p)]]
           /\ holder' = w
  /\ UNCHANGED <<exists, used>>

\* The walk drops the record of one more path.
DeleteClear(w, q) ==
  /\ session[w].op = "clear" /\ q \in session[w].todo
  /\ db' \in Saved(db, RemoveAll(db, q), q)
  /\ \E found \in Found(WalkedMembers(q), q) :
       session' = [session EXCEPT ![w].todo = (@ \ {q}) \cup found]
  /\ UNCHANGED <<exists, now, used, holder>>

DeleteCleared(w) ==
  /\ session[w].op = "clear" /\ session[w].todo = {}
  /\ session' = [session EXCEPT ![w] =
                   [op |-> "remove", path |-> session[w].path]]
  /\ holder' = NoWorker
  /\ UNCHANGED <<exists, db, now, used>>

\* remove_resource takes the subtree away, or iRODS refuses.
DeleteRemoved(w) ==
  /\ session[w].op = "remove"
  /\ \/ exists' = exists \ ({session[w].path} \cup Below(session[w].path))
     \/ UNCHANGED exists
  /\ session' = [session EXCEPT ![w] = Idle]
  /\ UNCHANGED <<db, now, used, holder>>

-----------------------------------------------------------------------------

\* A worker dies, or its request is aborted: the file is closed as it is.
Crash(w) ==
  /\ w \in Mortal /\ session[w] # Idle
  /\ session' = [session EXCEPT ![w] = Idle]
  /\ holder' = IF holder = w THEN NoWorker ELSE holder
  /\ UNCHANGED <<exists, db, now, used>>

Tick == /\ now < MaxTime
        /\ now' = now + 1
        /\ UNCHANGED <<exists, db, used, holder, session>>

\* The exposed root exists; so does the parent of whatever exists.
TreeClosed(S) == \A p \in S : Parent[p] = NoPath \/ Parent[p] \in S

Init == /\ exists \in {S \in SUBSET Path : TreeClosed(S)
                         /\ \A p \in Path : Parent[p] = NoPath => p \in S}
        /\ db = [p \in Path |-> NoLocks]
        /\ now = 1
        /\ used = {}
        /\ holder = NoWorker
        /\ session = [w \in Worker |-> Idle]

\* Requests arrive in any order, for any path.
Request(w) ==
  \E p \in Path :
    \/ \E scope \in Scope, depth \in Depth, secs \in Seconds,
          submitted \in SUBSET used, tok \in Token :
         Lock(w, p, scope, depth, secs, submitted, tok)
    \/ Query(w, p)
    \/ \E tok \in used, secs \in Seconds : Refresh(w, p, tok, secs)
    \/ \E tok \in used : Unlock(w, p, tok)
    \/ Create(w, p)
    \/ \E submitted \in SUBSET used : Delete(w, p, submitted)

\* The steps of a request that is under way: what it does, and what it does
\* when a call of its walk fails.
GoesOn(w) ==
  \/ \E q \in Path : \/ InheritMember(w, q) \/ UnlockMember(w, q)
                     \/ DeleteClear(w, q)
  \/ WalkDone(w)
  \/ \E submitted \in SUBSET used : CreateValidated(w, submitted)
  \/ CreateStored(w) \/ CreateNotified(w)
  \/ DeleteCleared(w) \/ DeleteRemoved(w)

CallFails(w) ==
  \/ \E q \in Path : InheritFails(w, q) \/ RemoveFails(w, q)
  \/ WalkFails(w)

Progress(w) == GoesOn(w) \/ CallFails(w)

Next == \/ \E w \in Worker : Request(w) \/ Progress(w) \/ Crash(w)
        \/ Tick

Spec == Init /\ [][Next]_vars

\* A request under way goes on: httpd does not stop a worker between two
\* calls, and the DBM calls return.  Nothing counts on a call that fails.
FairSpec == Spec /\ \A w \in Worker : WF_vars(GoesOn(w))

-----------------------------------------------------------------------------
(* Properties.                                                             *)

\* An exclusive lock on a path is its only direct lock, however the locks of
\* the path were taken, refreshed and timed out: of two direct locks in one
\* record (get_locks, append_locks) that are both alive, both are shared.
RecordExclusive ==
  \A p \in Path : \A i, j \in Live(db[p].direct, now) :
    i # j => /\ db[p].direct[i].scope = "shared"
             /\ db[p].direct[j].scope = "shared"

\* All records agree on where a token's lock is: its direct lock is in one
\* record, and every indirect entry with the token, however often it was
\* handed down (append_locks with make_indirect), names that one path, which
\* is above the path of the entry.
OneRootPerToken ==
  \A p, q \in Path, tok \in Token :
    /\ HasToken(db[p].direct, tok) /\ HasToken(db[q].direct, tok) => p = q
    /\ \A i \in DOMAIN db[q].indirect :
         LET ip == db[q].indirect[i]
         IN  ip.token = tok => /\ ip.key \in Ancestors[q]
                               /\ HasToken(db[p].direct, tok) => ip.key = p
                               /\ \A j \in DOMAIN db[p].indirect :
                                    db[p].indirect[j].token = tok
                                      => db[p].indirect[j].key = ip.key

\* The paths another worker is about to hand their parent's locks to.
BeingCreated ==
  {session[w].path : w \in {v \in Worker : session[v].op = "inherit"}}

\* A path q below the locked one that a LOCK need not account for any more: it
\* has an entry, or the lock has timed out, or PUT or MKCOL is still to notify
\* the lock provider of a path at or above q.
Reached(lock, q) ==
  \/ lock.depth = "zero"
  \/ Expired(lock.timeout, now)
  \/ ({q} \cup Ancestors[q]) \cap BeingCreated # {}
  \/ HasToken(db[q].indirect, lock.token)

\* When a LOCK of depth infinity is answered as done, its walk has left an entry
\* at every path that exists below the locked one, whatever PUT, MKCOL and
\* DELETE have made of the tree meanwhile.  Only what lies at or below a path
\* where a call of this walk failed may be without.
LockCoversTree ==
  [][\A w \in Worker :
       WalkDone(w) /\ session[w].op = "lock" =>
         LET lock == session[w].locks[1]
         IN  \A q \in Below(lock.key) \cap exists :
               \/ Reached(lock, q)
               \/ ({q} \cup Ancestors[q]) \cap session[w].missed # {}]_vars

\* What the walker promises ("Walker callback returned an error, aborting."): a
\* call that fails below the locked path ends the LOCK, so that one answered as
\* done has reached the whole tree.
LockToldWhole ==
  [][\A w \in Worker :
       WalkDone(w) /\ session[w].op = "lock" =>
         LET lock == session[w].locks[1]
         IN  \A q \in Below(lock.key) \cap exists : Reached(lock, q)]_vars

\* The locks the database keeps behave as the lock service promises: granted
\* once and without conflict, moved only by a refresh, forgotten only when
\* unlocked, deleted or timed out.
Kept ==
  UNION {{[path |-> p, token |-> e.token, scope |-> e.scope,
           depth |-> e.depth, timeout |-> e.timeout] :
             e \in Range(db[p].direct)} : p \in Path}

Service == INSTANCE LockService WITH locks <- Kept, granted <- used

LockServiceSpec == Service!Spec

\* Nobody keeps the lock file for ever: open_lockdb is followed by
\* close_lockdb, through every walk, or by the death of the worker.
LockFileReleased == \A w \in Worker : holder = w ~> holder # w

\* What the comment in resolve expects ("No match found (but we should have
\* found one!)"): between requests, the direct lock of every indirect entry
\* is there.
IndirectResolves ==
  holder = NoWorker => \A p \in Path : ~ Corrupt(db, p, now, now)

\* What refresh_locks is for: while the lock of depth infinity on a collection
\* is alive, so is its entry at every path that exists below ("we should be
\* refreshing direct AND (resolved) indirect locks").
MembersStayLocked ==
  holder = NoWorker /\ BeingCreated = {} =>
    \A p \in exists : \A i \in Live(db[p].direct, now) :
      db[p].direct[i].depth = "infinity" =>
        \A q \in Below(p) \cap exists :
          HasToken(LoadRecord(db[q], now).indirect, db[p].direct[i].token)

=============================================================================
