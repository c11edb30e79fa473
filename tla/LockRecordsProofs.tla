-------------------------- MODULE LockRecordsProofs --------------------------
(***************************************************************************)
(* Lemmas about the operators of LockRecords, for any paths and tokens:    *)
(* what each of them makes of a database whose records are well formed and *)
(* whose exclusive locks are alone in theirs.                              *)
(***************************************************************************)
EXTENDS LockRecords, PickingProofs

\* Of two direct locks of one list, both are shared ...
AllShared(s) ==
  \A i, j \in DOMAIN s : i # j => /\ s[i].scope = "shared"
                                  /\ s[j].scope = "shared"

\* ... or one of them has timed out.
Exclusive(s, t) ==
  \A i, j \in Live(s, t) : i # j => /\ s[i].scope = "shared"
                                    /\ s[j].scope = "shared"

Database == [Path -> LockRecord]

ExclusiveAt(d, t) == \A p \in Path : Exclusive(d[p].direct, t)

-----------------------------------------------------------------------------
(* Lists of direct locks.                                                  *)

LEMMA EmbedsItself == \A a : Embeds(a, a)
<1>1. SUFFICES ASSUME NEW a PROVE Embeds(a, a)
  OBVIOUS
<1> DEFINE f == [i \in DOMAIN a |-> i]
<1>2. f \in [DOMAIN a -> DOMAIN a] /\ \A i \in DOMAIN a : f[i] = i
  OBVIOUS
<1> HIDE DEF f
<1> QED BY <1>2 DEF Embeds

LEMMA EmbedsTransitive ==
  ASSUME NEW a, NEW b, NEW c, Embeds(a, b), Embeds(b, c)
  PROVE  Embeds(a, c)
<1>1. PICK f \in [DOMAIN a -> DOMAIN b] :
        /\ \A i, j \in DOMAIN a : f[i] = f[j] => i = j
        /\ \A i \in DOMAIN a : a[i] = b[f[i]]
  BY DEF Embeds
<1>2. PICK g \in [DOMAIN b -> DOMAIN c] :
        /\ \A i, j \in DOMAIN b : g[i] = g[j] => i = j
        /\ \A i \in DOMAIN b : b[i] = c[g[i]]
  BY DEF Embeds
<1> DEFINE h == [i \in DOMAIN a |-> g[f[i]]]
<1>3. h \in [DOMAIN a -> DOMAIN c] /\ \A i \in DOMAIN a : h[i] = g[f[i]]
  OBVIOUS
<1> HIDE DEF h
<1>4. \A i, j \in DOMAIN a : h[i] = h[j] => i = j
  BY <1>1, <1>2, <1>3
<1>5. \A i \in DOMAIN a : a[i] = c[h[i]]
  BY <1>1, <1>2, <1>3
<1> QED BY <1>3, <1>4, <1>5 DEF Embeds

\* A list stays exclusive when entries of it go, ...
LEMMA EmbedsExclusive ==
  ASSUME NEW a, NEW b, NEW t, Embeds(a, b), Exclusive(b, t)
  PROVE  Exclusive(a, t)
<1>1. PICK f \in [DOMAIN a -> DOMAIN b] :
        /\ \A i, j \in DOMAIN a : f[i] = f[j] => i = j
        /\ \A i \in DOMAIN a : a[i] = b[f[i]]
  BY DEF Embeds
<1>2. \A i \in Live(a, t) : i \in DOMAIN a /\ f[i] \in Live(b, t)
  BY <1>1 DEF Live
<1> QED BY <1>1, <1>2 DEF Exclusive

\* ... or time out.
LEMMA LaterExclusive ==
  ASSUME NEW s \in Seq(DirectLock), NEW t \in Nat, NEW u \in Nat, t <= u,
         Exclusive(s, t)
  PROVE  Exclusive(s, u)
<1>1. \A i \in DOMAIN s : s[i].timeout \in Nat
  <2>1. \A i \in DOMAIN s : s[i] \in DirectLock
    OBVIOUS
  <2> QED BY <2>1 DEF DirectLock
<1>2. Live(s, u) \subseteq Live(s, t)
  BY <1>1 DEF Live, Expired
<1> QED BY <1>2 DEF Exclusive

LEMMA SharedExclusive ==
  ASSUME NEW s, NEW t, AllShared(s)
  PROVE  Exclusive(s, t)
BY DEF AllShared, Exclusive, Live

LEMMA EmbedsShared ==
  ASSUME NEW a, NEW b, Embeds(a, b), AllShared(b)
  PROVE  AllShared(a)
<1>1. PICK f \in [DOMAIN a -> DOMAIN b] :
        /\ \A i, j \in DOMAIN a : f[i] = f[j] => i = j
        /\ \A i \in DOMAIN a : a[i] = b[f[i]]
  BY DEF Embeds
<1> QED BY <1>1 DEF AllShared

LEMMA ReverseKeeps ==
  ASSUME NEW S, NEW s \in Seq(S)
  PROVE  /\ Reverse(s) \in Seq(S)
         /\ Embeds(Reverse(s), s)
         /\ \A i \in DOMAIN s :
              \E n \in DOMAIN Reverse(s) : Reverse(s)[n] = s[i]
<1> DEFINE f == [i \in 1 .. Len(s) |-> (Len(s) - i) + 1]
<1>1. /\ Len(s) \in Nat /\ DOMAIN s = 1 .. Len(s)
      /\ DOMAIN Reverse(s) = 1 .. Len(s) /\ Reverse(s) \in Seq(S)
      /\ \A i \in 1 .. Len(s) : Reverse(s)[i] = s[(Len(s) - i) + 1]
  BY DEF Reverse
<1>2. \A i \in 1 .. Len(s) : f[i] \in 1 .. Len(s) /\ f[i] = (Len(s) - i) + 1
  BY <1>1
<1>3. \A i, j \in 1 .. Len(s) : f[i] = f[j] => i = j
  BY <1>1, <1>2
<1>4. \A i \in 1 .. Len(s) : f[f[i]] = i
  BY <1>1, <1>2
<1>5. f \in [1 .. Len(s) -> 1 .. Len(s)]
  BY <1>2
<1>6. \A i \in 1 .. Len(s) : Reverse(s)[i] = s[f[i]]
  BY <1>1, <1>2
<1> HIDE DEF f
<1>7. Embeds(Reverse(s), s)
  <2>1. f \in [DOMAIN Reverse(s) -> DOMAIN s]
    BY <1>1, <1>5
  <2>2. \A i, j \in DOMAIN Reverse(s) : f[i] = f[j] => i = j
    BY <1>1, <1>3
  <2>3. \A i \in DOMAIN Reverse(s) : Reverse(s)[i] = s[f[i]]
    BY <1>1, <1>6
  <2> QED BY <2>1, <2>2, <2>3 DEF Embeds
<1>8. ASSUME NEW i \in DOMAIN s
      PROVE  \E n \in DOMAIN Reverse(s) : Reverse(s)[n] = s[i]
  <2>1. f[i] \in DOMAIN Reverse(s)
    BY <1>1, <1>2
  <2>2. Reverse(s)[f[i]] = s[i]
    BY <1>1, <1>2, <1>4, <1>6
  <2> QED BY <2>1, <2>2
<1> QED BY <1>1, <1>7, <1>8

\* What loading makes of one list of a record: what is left is the list's, and
\* it is everything that is alive and nothing else.
LEMMA LoadedList ==
  ASSUME NEW S, NEW s \in Seq(S), NEW t,
         NEW l, l = Reverse(Pick(s, Live(s, t)))
  PROVE  /\ l \in Seq(S)
         /\ Embeds(l, s)
         /\ \A n \in DOMAIN l : ~ Expired(l[n].timeout, t)
         /\ \A i \in Live(s, t) : \E n \in DOMAIN l : l[n] = s[i]
<1> DEFINE q == Pick(s, Live(s, t))
<1>1. Live(s, t) \in SUBSET (DOMAIN s)
  BY DEF Live
<1>2. /\ q \in Seq(S)
      /\ Embeds(q, s)
      /\ \A n \in DOMAIN q : \E i \in Live(s, t) : q[n] = s[i]
      /\ \A i \in Live(s, t) : \E n \in DOMAIN q : q[n] = s[i]
  BY <1>1, PickKeeps
<1> HIDE DEF q
<1>3. l = Reverse(q)
  BY DEF q
<1>4. /\ l \in Seq(S)
      /\ Embeds(l, q)
      /\ \A i \in DOMAIN q : \E n \in DOMAIN l : l[n] = q[i]
  BY <1>2, <1>3, ReverseKeeps
<1>5. Embeds(l, s)
  BY <1>2, <1>4, EmbedsTransitive
<1>6. ASSUME NEW n \in DOMAIN l PROVE ~ Expired(l[n].timeout, t)
  <2>1. PICK k \in DOMAIN q : l[n] = q[k]
    BY <1>4 DEF Embeds
  <2>2. PICK i \in Live(s, t) : q[k] = s[i]
    BY <1>2
  <2>3. ~ Expired(s[i].timeout, t)
    BY DEF Live
  <2> QED BY <2>1, <2>2, <2>3
<1>7. ASSUME NEW i \in Live(s, t) PROVE \E n \in DOMAIN l : l[n] = s[i]
  <2>1. PICK k \in DOMAIN q : q[k] = s[i]
    BY <1>2
  <2> QED BY <2>1, <1>4
<1> QED BY <1>4, <1>5, <1>6, <1>7

-----------------------------------------------------------------------------
(* Loading.                                                                *)

\* load_lock_record returns a record whose locks are the record's and alive.
LEMMA LoadKeeps ==
  ASSUME NEW r \in LockRecord, NEW t
  PROVE  /\ LoadRecord(r, t) \in LockRecord
         /\ Embeds(LoadRecord(r, t).direct, r.direct)
         /\ \A n \in DOMAIN LoadRecord(r, t).direct :
              ~ Expired(LoadRecord(r, t).direct[n].timeout, t)
         /\ \A i \in Live(r.direct, t) :
              \E n \in DOMAIN LoadRecord(r, t).direct :
                LoadRecord(r, t).direct[n] = r.direct[i]
<1> DEFINE dl == Reverse(Pick(r.direct, Live(r.direct, t)))
           il == Reverse(Pick(r.indirect, Live(r.indirect, t)))
<1>1. r.direct \in Seq(DirectLock) /\ r.indirect \in Seq(IndirectLock)
  BY DEF LockRecord
<1>2. LoadRecord(r, t) = [direct |-> dl, indirect |-> il]
  BY DEF LoadRecord
<1>3. /\ dl \in Seq(DirectLock)
      /\ Embeds(dl, r.direct)
      /\ \A n \in DOMAIN dl : ~ Expired(dl[n].timeout, t)
      /\ \A i \in Live(r.direct, t) : \E n \in DOMAIN dl : dl[n] = r.direct[i]
  BY <1>1, LoadedList
<1>4. il \in Seq(IndirectLock)
  BY <1>1, LoadedList
<1> HIDE DEF dl, il
<1>5. LoadRecord(r, t).direct = dl
  BY <1>2
<1>6. LoadRecord(r, t) \in LockRecord
  BY <1>2, <1>3, <1>4 DEF LockRecord
<1> QED BY <1>3, <1>5, <1>6

\* What is left of an exclusive record when it is loaded is one lock, or all
\* shared ones.
LEMMA LoadShared ==
  ASSUME NEW r \in LockRecord, NEW t, Exclusive(r.direct, t)
  PROVE  AllShared(LoadRecord(r, t).direct)
<1> DEFINE l == LoadRecord(r, t).direct
<1>1. Embeds(l, r.direct) /\ \A n \in DOMAIN l : ~ Expired(l[n].timeout, t)
  BY LoadKeeps
<1> HIDE DEF l
<1>2. Exclusive(l, t)
  BY <1>1, EmbedsExclusive
<1>3. Live(l, t) = DOMAIN l
  BY <1>1 DEF Live
<1>4. AllShared(l)
  BY <1>2, <1>3 DEF Exclusive, AllShared
<1> QED BY <1>4 DEF l

LEMMA PurgeKeeps ==
  ASSUME NEW d \in Database, NEW keys, NEW t
  PROVE  /\ Purge(d, keys, t) \in Database
         /\ \A p \in Path : Embeds(Purge(d, keys, t)[p].direct, d[p].direct)
<1>1. \A p \in Path : d[p] \in LockRecord
  BY DEF Database
<1>2. ASSUME NEW p \in Path
      PROVE  /\ Purge(d, keys, t)[p] \in LockRecord
             /\ Embeds(Purge(d, keys, t)[p].direct, d[p].direct)
  <2>1. Purge(d, keys, t)[p] = LoadRecord(d[p], t)
        \/ Purge(d, keys, t)[p] = d[p]
    BY DEF Purge
  <2> QED BY <1>1, <2>1, LoadKeeps, EmbedsItself
<1>3. Purge(d, keys, t) = [p \in Path |-> Purge(d, keys, t)[p]]
  BY DEF Purge
<1>4. Purge(d, keys, t) \in Database
  BY <1>2, <1>3 DEF Database
<1> QED BY <1>2, <1>4

-----------------------------------------------------------------------------
(* The hooks.                                                              *)

LEMMA LaterExclusiveAt ==
  ASSUME NEW d \in Database, NEW t \in Nat, NEW u \in Nat, t <= u,
         ExclusiveAt(d, t)
  PROVE  ExclusiveAt(d, u)
<1>1. \A p \in Path : d[p].direct \in Seq(DirectLock)
  BY DEF Database, LockRecord
<1> QED BY <1>1, LaterExclusive DEF ExclusiveAt

LEMMA PurgeExclusive ==
  ASSUME NEW d \in Database, NEW keys, NEW t, NEW u, ExclusiveAt(d, u)
  PROVE  ExclusiveAt(Purge(d, keys, t), u)
BY PurgeKeeps, EmbedsExclusive DEF ExclusiveAt

\* A record is replaced by one that is well formed and exclusive.
LEMMA Replaced ==
  ASSUME NEW d \in Database, NEW p \in Path, NEW r \in LockRecord, NEW t,
         ExclusiveAt(d, t), Exclusive(r.direct, t)
  PROVE  /\ [d EXCEPT ![p] = r] \in Database
         /\ ExclusiveAt([d EXCEPT ![p] = r], t)
<1>1. [d EXCEPT ![p] = r] \in Database
  BY DEF Database
<1>2. ASSUME NEW q \in Path PROVE Exclusive([d EXCEPT ![p] = r][q].direct, t)
  <2>1. [d EXCEPT ![p] = r][q] = IF q = p THEN r ELSE d[q]
    BY DEF Database
  <2>2. Exclusive(d[q].direct, t)
    BY DEF ExclusiveAt
  <2> QED BY <2>1, <2>2
<1> QED BY <1>1, <1>2 DEF ExclusiveAt

\* append_locks of a lock that is compatible with what is loaded.
LEMMA AppendDirectKeeps ==
  ASSUME NEW d \in Database, NEW p \in Path, NEW lock \in DirectLock,
         NEW t, ExclusiveAt(d, t),
         LET l == LoadRecord(d[p], t).direct
         IN  \A i \in DOMAIN l :
               l[i].scope = "shared" /\ lock.scope = "shared"
  PROVE  /\ AppendDirect(d, p, lock, t) \in Database
         /\ ExclusiveAt(AppendDirect(d, p, lock, t), t)
<1> DEFINE r == LoadRecord(d[p], t)
           new == [r EXCEPT !.direct = <<lock>> \o @]
<1>1. r \in LockRecord
  BY LoadKeeps DEF Database
<1>2. \A i \in DOMAIN r.direct :
        r.direct[i].scope = "shared" /\ lock.scope = "shared"
  OBVIOUS
<1> HIDE DEF r
<1>3. /\ new \in LockRecord
      /\ new.direct = <<lock>> \o r.direct
  <2>1. r.direct \in Seq(DirectLock) /\ r.indirect \in Seq(IndirectLock)
    BY <1>1 DEF LockRecord
  <2>2. <<lock>> \o r.direct \in Seq(DirectLock)
    BY <2>1
  <2> DEFINE dl == <<lock>> \o r.direct
  <2>3. new = [r EXCEPT !.direct = dl]
    OBVIOUS
  <2> HIDE DEF dl, new
  <2>4. new = [direct |-> dl, indirect |-> r.indirect]
    BY <1>1, <2>3 DEF LockRecord
  <2> QED BY <2>1, <2>2, <2>4 DEF LockRecord, dl
<1>4. AllShared(new.direct)
  <2> DEFINE s == <<lock>> \o r.direct
  <2>1. r.direct \in Seq(DirectLock)
    BY <1>1 DEF LockRecord
  <2>2. /\ DOMAIN r.direct = 1 .. Len(r.direct) /\ Len(r.direct) \in Nat
        /\ DOMAIN s = 1 .. Len(r.direct) + 1
        /\ s[1] = lock
        /\ \A i \in 2 .. Len(r.direct) + 1 : s[i] = r.direct[i - 1]
    BY <2>1
  <2> HIDE DEF s
  <2>3. \A i \in DOMAIN s : i = 1 \/ i - 1 \in DOMAIN r.direct
    BY <2>2
  <2>4. AllShared(s)
    BY <1>2, <2>2, <2>3 DEF AllShared
  <2> QED BY <2>4, <1>3 DEF s
<1>5. Exclusive(new.direct, t)
  BY <1>4, SharedExclusive
<1>6. AppendDirect(d, p, lock, t) = [d EXCEPT ![p] = new]
  BY DEF AppendDirect, r
<1> HIDE DEF new
<1> QED BY <1>3, <1>5, <1>6, Replaced

\* append_locks of indirect locks, from what was handed to the caller.
LEMMA AppendIndirectKeeps ==
  ASSUME NEW d \in Database, NEW p \in Path, NEW locks \in Seq(HandedLock),
         NEW t, ExclusiveAt(d, t)
  PROVE  /\ AppendIndirect(d, p, locks, t) \in Database
         /\ ExclusiveAt(AppendIndirect(d, p, locks, t), t)
<1> DEFINE r == LoadRecord(d[p], t)
           given == [i \in DOMAIN locks |->
                       [token |-> locks[i].token, timeout |-> locks[i].timeout,
                        key |-> locks[i].key]]
           new == [r EXCEPT !.indirect = Reverse(given) \o @]
<1>1. r \in LockRecord /\ AllShared(r.direct)
  BY LoadKeeps, LoadShared DEF Database, ExclusiveAt
<1>2. given \in Seq(IndirectLock)
  <2>1. \A i \in DOMAIN locks : locks[i] \in HandedLock
    OBVIOUS
  <2>2. \A i \in DOMAIN locks : given[i] \in IndirectLock
    BY <2>1 DEF HandedLock, IndirectLock
  <2> QED BY <2>2
<1>3. AppendIndirect(d, p, locks, t) = [d EXCEPT ![p] = new]
  BY DEF AppendIndirect, Image
<1>4. Reverse(given) \in Seq(IndirectLock)
  BY <1>2, ReverseKeeps
<1> HIDE DEF r, given
<1>5. new \in LockRecord /\ new.direct = r.direct
  <2>1. r.direct \in Seq(DirectLock) /\ r.indirect \in Seq(IndirectLock)
    BY <1>1 DEF LockRecord
  <2>2. Reverse(given) \o r.indirect \in Seq(IndirectLock)
    BY <1>4, <2>1
  <2> DEFINE il == Reverse(given) \o r.indirect
  <2>3. new = [r EXCEPT !.indirect = il]
    OBVIOUS
  <2> HIDE DEF il, new
  <2>4. new = [direct |-> r.direct, indirect |-> il]
    BY <1>1, <2>3 DEF LockRecord
  <2> QED BY <2>1, <2>2, <2>4 DEF LockRecord, il
<1>6. Exclusive(new.direct, t)
  BY <1>1, <1>5, SharedExclusive
<1> HIDE DEF new
<1> QED BY <1>3, <1>5, <1>6, Replaced

\* remove_lock, whatever it unlinks.
LEMMA RemoveLockKeeps ==
  ASSUME NEW d \in Database, NEW p \in Path, NEW tok, NEW t,
         ExclusiveAt(d, t)
  PROVE  /\ RemoveLock(d, p, tok, t) \in Database
         /\ ExclusiveAt(RemoveLock(d, p, tok, t), t)
<1> DEFINE r == LoadRecord(d[p], t)
           new == [direct   |-> Unlink(r.direct, tok),
                   indirect |-> Unlink(r.indirect, tok)]
<1>1. r \in LockRecord /\ AllShared(r.direct)
  BY LoadKeeps, LoadShared DEF Database, ExclusiveAt
<1>2. RemoveLock(d, p, tok, t) = [d EXCEPT ![p] = new]
  BY DEF RemoveLock
<1> HIDE DEF r
<1>3. r.direct \in Seq(DirectLock) /\ r.indirect \in Seq(IndirectLock)
  BY <1>1 DEF LockRecord
<1>4. /\ Unlink(r.direct, tok) \in Seq(DirectLock)
      /\ Embeds(Unlink(r.direct, tok), r.direct)
      /\ Unlink(r.indirect, tok) \in Seq(IndirectLock)
  BY <1>3, PickKeeps DEF Unlink
<1>5. new \in LockRecord /\ new.direct = Unlink(r.direct, tok)
  BY <1>4 DEF LockRecord
<1>6. Exclusive(new.direct, t)
  BY <1>1, <1>4, <1>5, EmbedsShared, SharedExclusive
<1> HIDE DEF new
<1> QED BY <1>2, <1>5, <1>6, Replaced

LEMMA RemoveAllKeeps ==
  ASSUME NEW d \in Database, NEW p \in Path, NEW t, ExclusiveAt(d, t)
  PROVE  RemoveAll(d, p) \in Database /\ ExclusiveAt(RemoveAll(d, p), t)
<1>1. NoLocks \in LockRecord
  BY DEF NoLocks, LockRecord
<1>2. Exclusive(NoLocks.direct, t)
  BY DEF NoLocks, Exclusive, Live
<1> QED BY <1>1, <1>2, Replaced DEF RemoveAll

\* do_refresh and the save after it.
LEMMA RefreshRecordKeeps ==
  ASSUME NEW r \in LockRecord, NEW tok, NEW timeout \in Nat,
         AllShared(r.direct)
  PROVE  /\ RefreshRecord(r, tok, timeout) \in LockRecord
         /\ AllShared(RefreshRecord(r, tok, timeout).direct)
<1> DEFINE s == Refreshed(r.direct, tok, timeout)
<1>1. r.direct \in Seq(DirectLock) /\ r.indirect \in Seq(IndirectLock)
  BY DEF LockRecord
<1>2. \A i \in DOMAIN r.direct : r.direct[i] \in DirectLock
  BY <1>1
<1>3. /\ DOMAIN s = DOMAIN r.direct
      /\ \A i \in DOMAIN r.direct :
           s[i] \in DirectLock /\ s[i].scope = r.direct[i].scope
  BY <1>2 DEF Refreshed, DirectLock
<1>4. s \in Seq(DirectLock)
  <2>1. s = [i \in 1 .. Len(r.direct) |-> s[i]]
    BY <1>1, <1>3 DEF Refreshed
  <2> HIDE DEF s
  <2>2. \A i \in 1 .. Len(r.direct) : s[i] \in DirectLock
    BY <1>1, <1>3
  <2>3. Len(r.direct) \in Nat
    BY <1>1
  <2> QED BY <2>1, <2>2, <2>3
<1>5. RefreshRecord(r, tok, timeout)
        = [direct |-> s, indirect |-> r.indirect]
  BY DEF RefreshRecord, LockRecord
<1> HIDE DEF s
<1>6. AllShared(s)
  BY <1>3 DEF AllShared
<1> QED BY <1>1, <1>4, <1>5, <1>6 DEF LockRecord

LEMMA RefreshDirectKeeps ==
  ASSUME NEW d \in Database, NEW p \in Path, NEW tok, NEW timeout \in Nat,
         NEW t, ExclusiveAt(d, t)
  PROVE  /\ RefreshDirect(d, p, tok, timeout, t) \in Database
         /\ ExclusiveAt(RefreshDirect(d, p, tok, timeout, t), t)
<1> DEFINE new == RefreshRecord(LoadRecord(d[p], t), tok, timeout)
<1>1. LoadRecord(d[p], t) \in LockRecord
      /\ AllShared(LoadRecord(d[p], t).direct)
  BY LoadKeeps, LoadShared DEF Database, ExclusiveAt
<1>2. new \in LockRecord /\ Exclusive(new.direct, t)
  BY <1>1, RefreshRecordKeeps, SharedExclusive
<1>3. \/ RefreshDirect(d, p, tok, timeout, t) = [d EXCEPT ![p] = new]
      \/ RefreshDirect(d, p, tok, timeout, t) = Purge(d, {p}, t)
  BY DEF RefreshDirect
<1> HIDE DEF new
<1> QED BY <1>2, <1>3, Replaced, PurgeKeeps, PurgeExclusive

LEMMA RefreshIndirectKeeps ==
  ASSUME NEW d \in Database, NEW ips, NEW tok, NEW timeout \in Nat,
         NEW t, ExclusiveAt(d, t)
  PROVE  /\ RefreshIndirect(d, ips, tok, timeout, t) \in Database
         /\ ExclusiveAt(RefreshIndirect(d, ips, tok, timeout, t), t)
<1> DEFINE new == RefreshIndirect(d, ips, tok, timeout, t)
<1>1. PICK hit, keys :
        new = [p \in Path |->
                 IF p \in hit
                 THEN RefreshRecord(LoadRecord(d[p], t), tok, timeout)
                 ELSE Purge(d, keys, t)[p]]
  BY DEF RefreshIndirect
<1> HIDE DEF new
<1>2. ASSUME NEW p \in Path
      PROVE  new[p] \in LockRecord /\ Exclusive(new[p].direct, t)
  <2>1. CASE p \in hit
    <3>1. LoadRecord(d[p], t) \in LockRecord
          /\ AllShared(LoadRecord(d[p], t).direct)
      BY LoadKeeps, LoadShared DEF Database, ExclusiveAt
    <3>2. new[p] = RefreshRecord(LoadRecord(d[p], t), tok, timeout)
      BY <1>1, <2>1
    <3> QED BY <3>1, <3>2, RefreshRecordKeeps, SharedExclusive
  <2>2. CASE p \notin hit
    <3>1. new[p] = Purge(d, keys, t)[p]
      BY <1>1, <2>2
    <3>2. Purge(d, keys, t) \in Database /\ ExclusiveAt(Purge(d, keys, t), t)
      BY PurgeKeeps, PurgeExclusive
    <3> QED BY <3>1, <3>2 DEF Database, ExclusiveAt
  <2> QED BY <2>1, <2>2
<1>3. new = [p \in Path |-> new[p]]
  BY <1>1
<1>4. new \in Database
  BY <1>2, <1>3 DEF Database
<1>5. ExclusiveAt(new, t)
  BY <1>2 DEF ExclusiveAt
<1> QED BY <1>4, <1>5 DEF new

\* refresh_locks.
LEMMA RefreshLocksKeeps ==
  ASSUME NEW d \in Database, NEW p \in Path, NEW tok, NEW timeout \in Nat,
         NEW t, ExclusiveAt(d, t)
  PROVE  /\ RefreshLocks(d, p, tok, timeout, t) \in Database
         /\ ExclusiveAt(RefreshLocks(d, p, tok, timeout, t), t)
BY RefreshDirectKeeps, RefreshIndirectKeeps DEF RefreshLocks

-----------------------------------------------------------------------------
(* Queries.                                                                *)

\* Loading at u what a purge at t or u left finds nothing but locks that are
\* alive in the record the purge found.
LEMMA LoadedFromBefore ==
  ASSUME NEW r \in LockRecord, NEW q \in LockRecord,
         Embeds(q.direct, r.direct),
         NEW t \in Nat, NEW u \in Nat, t <= u,
         NEW i \in DOMAIN LoadRecord(q, u).direct
  PROVE  \E n \in DOMAIN LoadRecord(r, t).direct :
           LoadRecord(r, t).direct[n] = LoadRecord(q, u).direct[i]
<1> DEFINE l == LoadRecord(q, u).direct
<1>1. Embeds(l, q.direct) /\ ~ Expired(l[i].timeout, u)
  BY LoadKeeps
<1>2. PICK j \in DOMAIN q.direct : l[i] = q.direct[j]
  BY <1>1 DEF Embeds
<1>3. PICK k \in DOMAIN r.direct : q.direct[j] = r.direct[k]
  BY DEF Embeds
<1>4. k \in Live(r.direct, t)
  <2>1. r.direct[k].timeout \in Nat
    <3>1. r.direct[k] \in DirectLock
      BY DEF LockRecord
    <3> QED BY <3>1 DEF DirectLock
  <2>2. ~ Expired(r.direct[k].timeout, u)
    BY <1>1, <1>2, <1>3
  <2>3. ~ Expired(r.direct[k].timeout, t)
    BY <2>1, <2>2 DEF Expired
  <2> QED BY <2>3 DEF Live
<1>5. \E n \in DOMAIN LoadRecord(r, t).direct :
        LoadRecord(r, t).direct[n] = r.direct[k]
  BY <1>4, LoadKeeps
<1> QED BY <1>2, <1>3, <1>5

\* A DAV_GETLOCKS_PARTIAL query returns locks that append_locks can take.
LEMMA PartialLocksType ==
  ASSUME NEW d \in Database, NEW p \in Path, NEW t
  PROVE  PartialLocks(d, p, t) \in Seq(HandedLock)
<1> DEFINE r == LoadRecord(d[p], t)
           a == [i \in DOMAIN r.direct |->
                   [rectype |-> "direct", token |-> r.direct[i].token,
                    depth |-> r.direct[i].depth,
                    timeout |-> r.direct[i].timeout, key |-> p]]
           b == [i \in DOMAIN r.indirect |->
                   [rectype |-> "partial", token |-> r.indirect[i].token,
                    depth |-> "zero", timeout |-> DAV_TIMEOUT_INFINITE,
                    key |-> r.indirect[i].key]]
<1>1. r \in LockRecord
  BY LoadKeeps DEF Database
<1>2. PartialLocks(d, p, t) = Reverse(a \o b)
  BY DEF PartialLocks, Image
<1> HIDE DEF r
<1>3. r.direct \in Seq(DirectLock) /\ r.indirect \in Seq(IndirectLock)
  BY <1>1 DEF LockRecord
<1>4. a \in Seq(HandedLock)
  <2>1. \A i \in DOMAIN r.direct : r.direct[i] \in DirectLock
    BY <1>3
  <2>2. \A i \in DOMAIN r.direct : a[i] \in HandedLock
    BY <2>1 DEF DirectLock, HandedLock
  <2>3. a = [i \in 1 .. Len(r.direct) |-> a[i]] /\ Len(r.direct) \in Nat
        /\ DOMAIN r.direct = 1 .. Len(r.direct)
    BY <1>3
  <2> HIDE DEF a
  <2> QED BY <2>2, <2>3
<1>5. b \in Seq(HandedLock)
  <2>1. \A i \in DOMAIN r.indirect : r.indirect[i] \in IndirectLock
    BY <1>3
  <2>2. \A i \in DOMAIN r.indirect : b[i] \in HandedLock
    BY <2>1 DEF IndirectLock, HandedLock, Depth, DAV_TIMEOUT_INFINITE
  <2>3. b = [i \in 1 .. Len(r.indirect) |-> b[i]] /\ Len(r.indirect) \in Nat
        /\ DOMAIN r.indirect = 1 .. Len(r.indirect)
    BY <1>3
  <2> HIDE DEF b
  <2> QED BY <2>2, <2>3
<1> HIDE DEF a, b
<1>6. a \o b \in Seq(HandedLock)
  BY <1>4, <1>5
<1> QED BY <1>2, <1>6, ReverseKeeps

=============================================================================
