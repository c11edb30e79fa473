---------------------------- MODULE LockRecords ----------------------------
(***************************************************************************)
(* The records of the DBM lock database (src/src/lock_local.c) and what    *)
(* each hook of the lock provider does to them, as operators over a        *)
(* database value: a function from paths to records.  A record holds the   *)
(* list of direct locks of a path and the list of its indirect locks, each *)
(* of which names the path whose record holds the direct lock.             *)
(*                                                                         *)
(* Abstracted: the byte layout of a record, the owner, the user and the    *)
(* lock type (always "write").  A key is the path itself.  List order is   *)
(* kept, because load reverses it and remove depends on it.                *)
(***************************************************************************)
EXTENDS Picking, SequencesExt

CONSTANTS Path,    \* the repository paths a lock record may be kept for
          Token    \* the lock tokens alloc_lock may generate

\* Mutant: "infinite" is kept as -1, as mod_dav's depth is.
InfiniteAsMinusOne == -1

DAV_TIMEOUT_INFINITE == 0

Scope == {"exclusive", "shared"}
Depth == {"zero", "infinity"}

DirectLock   == [token : Token, scope : Scope, depth : Depth, timeout : Nat]
IndirectLock == [token : Token, timeout : Nat, key : Path]
LockRecord   == [direct : Seq(DirectLock), indirect : Seq(IndirectLock)]

\* An absent key: saving two empty lists deletes the record.
NoLocks == [direct |-> <<>>, indirect |-> <<>>]

(***************************************************************************)
(* What the hooks hand to their caller: the fields of dav_lock that are    *)
(* read again.  A partial lock has none but its token and its key; the     *)
(* rest is zeroed memory, and a zero timeout reads as "infinite".          *)
(***************************************************************************)
HandedLock ==
  [rectype : {"direct", "partial"}, token : Token, depth : Depth,
   timeout : Nat, key : Path]

-----------------------------------------------------------------------------
(* Lists.                                                                  *)

Image(s, f(_)) == [i \in DOMAIN s |-> f(s[i])]

HasToken(s, tok) == \E i \in DOMAIN s : s[i].token = tok

-----------------------------------------------------------------------------
(* Loading and saving a record.                                            *)

\* Mutant: the test for "infinite" is forgotten.
ExpiredForever(expires, t) == t >= expires

Expired(expires, t) == expires # DAV_TIMEOUT_INFINITE /\ t >= expires

Live(s, t) == {i \in DOMAIN s : ~ Expired(s[i].timeout, t)}

\* What load_lock_record returns at time t.  It prepends what it reads.
LoadRecord(r, t) ==
  [direct   |-> Reverse(Pick(r.direct, Live(r.direct, t))),
   indirect |-> Reverse(Pick(r.indirect, Live(r.indirect, t)))]

NeedSave(r, t) == \/ Live(r.direct, t) # DOMAIN r.direct
                  \/ Live(r.indirect, t) # DOMAIN r.indirect

\* The database after load_lock_record has been called for each path of
\* keys: a record that held an expired entry is written back.
Purge(d, keys, t) ==
  [p \in Path |-> IF p \in keys /\ NeedSave(d[p], t)
                  THEN LoadRecord(d[p], t) ELSE d[p]]

HasLocks(d, p) == d[p] # NoLocks

-----------------------------------------------------------------------------
(* Queries.                                                                *)

\* resolve finds the direct lock of the indirect entry ip at time t.
Resolves(d, ip, t) == HasToken(LoadRecord(d[ip.key], t).direct, ip.token)

DirectOf(d, ip, t) ==
  LET l == LoadRecord(d[ip.key], t).direct
  IN  l[CHOOSE i \in DOMAIN l : l[i].token = ip.token]

\* A DAV_GETLOCKS_RESOLVED query of p that reads p's record at time t and
\* resolves its indirect entries at time u.
Corrupt(d, p, t, u) ==
  LET l == LoadRecord(d[p], t).indirect
  IN  \E i \in DOMAIN l : ~ Resolves(d, l[i], u)

\* The locks such a query returns when none of its entries is corrupt.
Holds(d, p, t, u) ==
  LET r == LoadRecord(d[p], t)
  IN  {[token |-> r.direct[i].token, scope |-> r.direct[i].scope] :
          i \in DOMAIN r.direct}
      \cup
      {[token |-> r.indirect[i].token,
        scope |-> DirectOf(d, r.indirect[i], u).scope] :
          i \in DOMAIN r.indirect}

\* The records it loads, and so purges, along the way.
ResolvedKeys(d, p, t) ==
  LET l == LoadRecord(d[p], t).indirect IN {l[i].key : i \in DOMAIN l}

\* Mutant: every lock handed out names the path it was found on.
PartialLocksOfPath(d, p, t) ==
  LET r == LoadRecord(d[p], t)
      Hand(e) == [rectype |-> "partial", token |-> e.token, depth |-> "zero",
                  timeout |-> DAV_TIMEOUT_INFINITE, key |-> p]
  IN  Reverse(Image(r.direct, Hand) \o Image(r.indirect, Hand))

\* The list a DAV_GETLOCKS_PARTIAL query of p returns: indirect entries are
\* not resolved, and every entry is prepended.
PartialLocks(d, p, t) ==
  LET r == LoadRecord(d[p], t)
      FromDirect(dp) ==
        [rectype |-> "direct", token |-> dp.token, depth |-> dp.depth,
         timeout |-> dp.timeout, key |-> p]
      FromIndirect(ip) ==
        [rectype |-> "partial", token |-> ip.token, depth |-> "zero",
         timeout |-> DAV_TIMEOUT_INFINITE, key |-> ip.key]
  IN  Reverse(Image(r.direct, FromDirect) \o Image(r.indirect, FromIndirect))

-----------------------------------------------------------------------------
(* Updates.                                                                *)

\* append_locks with make_indirect = 0, for one lock from create_lock.
AppendDirect(d, p, lock, t) ==
  LET r == LoadRecord(d[p], t)
  IN  [d EXCEPT ![p] = [r EXCEPT !.direct = <<lock>> \o @]]

\* append_locks with make_indirect = 1, for a list of locks of any rectype.
AppendIndirect(d, p, locks, t) ==
  LET r == LoadRecord(d[p], t)
      Inherit(lock) ==
        [token |-> lock.token, timeout |-> lock.timeout, key |-> lock.key]
  IN  [d EXCEPT ![p] =
         [r EXCEPT !.indirect = Reverse(Image(locks, Inherit)) \o @]]

\* The positions remove_lock unlinks from a list: it keeps the node it has
\* just unlinked as "previous", so of a run of neighbours with the token it
\* unlinks the first, the third, and so on.
Unlinked(s, tok) ==
  {i \in DOMAIN s :
     \E j \in 1 .. i : /\ \A k \in j .. i : s[k].token = tok
                       /\ j = 1 \/ s[j - 1].token # tok
                       /\ (i - j) % 2 = 0}

Unlink(s, tok) == Pick(s, DOMAIN s \ Unlinked(s, tok))

\* remove_lock with a token.
RemoveLock(d, p, tok, t) ==
  LET r == LoadRecord(d[p], t)
  IN  [d EXCEPT ![p] = [direct   |-> Unlink(r.direct, tok),
                        indirect |-> Unlink(r.indirect, tok)]]

\* remove_lock without one: the record goes, unread.
RemoveAll(d, p) == [d EXCEPT ![p] = NoLocks]

\* do_refresh over a list of direct locks.
Refreshed(s, tok, timeout) ==
  [i \in DOMAIN s |-> IF s[i].token = tok
                      THEN [s[i] EXCEPT !.timeout = timeout] ELSE s[i]]

RefreshRecord(r, tok, timeout) ==
  [r EXCEPT !.direct = Refreshed(@, tok, timeout)]

\* refresh_locks, its first half: the direct locks of p itself.
RefreshDirect(d, p, tok, timeout, t) ==
  LET r == LoadRecord(d[p], t)
  IN  IF HasToken(r.direct, tok)
      THEN [d EXCEPT ![p] = RefreshRecord(r, tok, timeout)]
      ELSE Purge(d, {p}, t)

\* Its second half: the direct locks that p's indirect entries resolve to,
\* saved in the records that hold them.  The loop stops at the first entry
\* that does not resolve.  (The list order of a record saved more than once
\* is that of one save.)
RefreshIndirect(d, ips, tok, timeout, t) ==
  LET Good(n)  == \A i \in 1 .. n : Resolves(d, ips[i], t)
      seen     == {i \in DOMAIN ips : Good(i - 1)}
      hit      == {ips[i].key : i \in {j \in seen : Good(j)
                                           /\ ips[j].token = tok}}
  IN  [p \in Path |->
         IF p \in hit THEN RefreshRecord(LoadRecord(d[p], t), tok, timeout)
         ELSE Purge(d, {ips[i].key : i \in seen}, t)[p]]

RefreshLocks(d, p, tok, timeout, t) ==
  RefreshIndirect(RefreshDirect(d, p, tok, timeout, t),
                  LoadRecord(d[p], t).indirect, tok, timeout, t)

=============================================================================
