----------------------------- MODULE LockService -----------------------------
(***************************************************************************)
(* What the lock provider promises its clients about the locks it grants,  *)
(* with no word of how they are kept: a set of direct locks, each with its *)
(* path, scope and time of expiry.  A lock is granted once, under a token  *)
(* never granted before and only next to locks it is compatible with; a    *)
(* client that holds its token may move its expiry; and it goes only when  *)
(* it is released, when its path is deleted, or when its time has come.    *)
(***************************************************************************)
EXTENDS Integers

CONSTANTS Path, Token

VARIABLES locks,    \* the locks kept, expired ones perhaps among them
          granted,  \* the tokens granted so far
          now       \* the clock

vars == <<locks, granted, now>>

Lock == [path : Path, token : Token, scope : {"exclusive", "shared"},
         depth : {"zero", "infinity"}, timeout : Nat]

\* A timeout of 0 is no timeout.
Over(l, t) == l.timeout # 0 /\ t >= l.timeout

Compatible(l, m) == l.scope = "shared" /\ m.scope = "shared"

Init == locks = {} /\ granted = {} /\ now \in Nat

\* Time only goes forward, and expired locks may be forgotten at any time.
Forget(kept) == /\ now' \in Nat /\ now' >= now
                /\ locks' \subseteq kept
                /\ \A l \in kept \ locks' : Over(l, now')

Grant(l) ==
  /\ l \in Lock /\ l.token \notin granted
  /\ \A m \in locks : m.path = l.path => Over(m, now') \/ Compatible(l, m)
  /\ Forget(locks \cup {l}) /\ l \in locks'
  /\ granted' = granted \cup {l.token}

\* m is l with its expiry moved.
Refresh(l, m) ==
  /\ m \in Lock /\ m = [l EXCEPT !.timeout = m.timeout]
  /\ ~ Over(l, now')
  /\ Forget((locks \ {l}) \cup {m}) /\ m \in locks'
  /\ UNCHANGED granted

Release(l) == Forget(locks \ {l}) /\ UNCHANGED granted

Clear(p) == Forget({l \in locks : l.path # p}) /\ UNCHANGED granted

Pass == Forget(locks) /\ UNCHANGED granted

Next == \/ \E l \in locks' : Grant(l)
        \/ \E l \in locks, m \in locks' : Refresh(l, m)
        \/ \E l \in locks : Release(l)
        \/ \E p \in Path : Clear(p)
        \/ Pass

Spec == Init /\ [][Next]_vars
=============================================================================
