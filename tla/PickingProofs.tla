---------------------------- MODULE PickingProofs ----------------------------
(***************************************************************************)
(* What Pick keeps of a sequence, for any set of its positions.            *)
(***************************************************************************)
EXTENDS Picking, FiniteSetTheorems, SequenceTheorems,
        WellFoundedInduction, TLAPS

\* The entries of a are entries of b, each at a position of its own.
Embeds(a, b) ==
  \E f \in [DOMAIN a -> DOMAIN b] :
    /\ \A i, j \in DOMAIN a : f[i] = f[j] => i = j
    /\ \A i \in DOMAIN a : a[i] = b[f[i]]

-----------------------------------------------------------------------------
(* The n-th smallest element.                                              *)

\* A set of naturals that is not empty has a least element: of the intervals
\* that start at 0 and end in the set, take one that contains no other.
LEMMA LeastOf ==
  ASSUME NEW T \in SUBSET Nat, T # {}
  PROVE  \E n \in T : \A m \in T : n <= m
<1> DEFINE F == {0 .. k : k \in T}
<1>1. F # {} /\ F \subseteq FiniteSubsetsOf(Nat)
  <2>1. \A k \in T : 0 .. k \subseteq Nat /\ IsFiniteSet(0 .. k)
    BY FS_Interval
  <2> QED BY <2>1 DEF FiniteSubsetsOf
<1>2. PICK X \in F : \A Y \in F : <<Y, X>> \notin StrictSubsetOrdering(Nat)
  BY <1>1, FS_StrictSubsetOrderingWellFounded, WFMin
<1>3. PICK n \in T : X = 0 .. n
  OBVIOUS
<1>4. ASSUME NEW m \in T PROVE n <= m
  <2>1. SUFFICES ASSUME m < n PROVE FALSE
    OBVIOUS
  <2>2. 0 .. m \in F /\ 0 .. m \subseteq 0 .. n /\ 0 .. m # 0 .. n
    BY <2>1
  <2>3. <<0 .. m, 0 .. n>> \in StrictSubsetOrdering(Nat)
    BY <2>2 DEF StrictSubsetOrdering
  <2> QED BY <1>2, <1>3, <2>2, <2>3
<1> QED BY <1>4

\* A set of positions is finite.
LEMMA PositionsFinite ==
  ASSUME NEW m \in Nat, NEW pos \in SUBSET (1 .. m)
  PROVE  /\ IsFiniteSet(pos)
         /\ Cardinality(pos) \in Nat
         /\ \A j \in pos : j \in Nat /\ 1 <= j /\ j <= m
<1>1. IsFiniteSet(1 .. m)
  BY FS_Interval
<1>2. IsFiniteSet(pos)
  BY <1>1, FS_Subset
<1>3. \A j \in pos : j \in 1 .. m
  OBVIOUS
<1> QED BY <1>2, <1>3, FS_CardinalityType

\* The part of a set of positions below k is finite, and grows by k alone.
LEMMA BelowGrows ==
  ASSUME NEW m \in Nat, NEW pos \in SUBSET (1 .. m), NEW k \in Nat
  PROVE  /\ Cardinality({j \in pos : j < k}) \in Nat
         /\ Cardinality({j \in pos : j < k + 1}) =
              IF k \in pos THEN Cardinality({j \in pos : j < k}) + 1
              ELSE Cardinality({j \in pos : j < k})
<1>0. \A j \in pos : j \in Nat
  BY PositionsFinite
<1>1. IsFiniteSet(pos)
  BY PositionsFinite
<1>2. IsFiniteSet({j \in pos : j < k})
  BY <1>1, FS_Subset
<1>3. Cardinality({j \in pos : j < k}) \in Nat
  BY <1>2, FS_CardinalityType
<1>4. CASE k \in pos
  <2>1. \A j \in pos : j < k + 1 <=> j < k \/ j = k
    BY <1>0
  <2>2. {j \in pos : j < k + 1} = {j \in pos : j < k} \cup {k}
    BY <2>1, <1>4
  <2>3. k \notin {j \in pos : j < k}
    OBVIOUS
  <2> QED BY <2>2, <2>3, <1>2, <1>3, <1>4, FS_AddElement
<1>5. CASE k \notin pos
  <2>1. \A j \in pos : j < k + 1 <=> j < k
    BY <1>0, <1>5
  <2>2. {j \in pos : j < k + 1} = {j \in pos : j < k}
    BY <2>1
  <2> QED BY <2>2, <1>3, <1>5
<1> QED BY <1>4, <1>5

\* Every rank from 0 to the size of a set of positions, less one, is taken.
LEMMA RankTaken ==
  ASSUME NEW m \in Nat, NEW pos \in SUBSET (1 .. m),
         NEW n \in 1 .. Cardinality(pos)
  PROVE  \E i \in pos : Cardinality({j \in pos : j < i}) = n - 1
<1>a. \A j \in pos : j \in Nat /\ 1 <= j /\ j <= m
  BY PositionsFinite
<1>b. Cardinality(pos) \in Nat
  BY PositionsFinite
<1>c. n \in Nat /\ 1 <= n /\ n <= Cardinality(pos)
  BY <1>b
<1>d. {j \in pos : j < 0} = {}
  <2>1. \A j \in pos : ~ (j < 0)
    BY <1>a
  <2> QED BY <2>1
<1>e. {j \in pos : j < m + 1} = pos
  <2>1. \A j \in pos : j < m + 1
    BY <1>a
  <2> QED BY <2>1
<1>f. \A h \in Nat :
        /\ Cardinality({j \in pos : j < h}) \in Nat
        /\ Cardinality({j \in pos : j < h + 1}) =
             IF h \in pos THEN Cardinality({j \in pos : j < h}) + 1
             ELSE Cardinality({j \in pos : j < h})
  BY BelowGrows
<1> DEFINE Rank(k) == Cardinality({j \in pos : j < k})
           T == {k \in Nat : Rank(k) >= n}
<1>1. m + 1 \in T
  BY <1>b, <1>c, <1>e
<1>2. PICK k \in T : \A l \in T : k <= l
  <2> HIDE DEF T
  <2>1. T \subseteq Nat
    BY DEF T
  <2> QED BY <1>1, <2>1, LeastOf
<1>3. k # 0
  <2>1. Rank(0) = 0
    BY <1>d, FS_EmptySet
  <2> QED BY <2>1, <1>c
<1>4. PICK h \in Nat : k = h + 1
  <2>1. k \in Nat
    OBVIOUS
  <2>2. k - 1 \in Nat /\ k = (k - 1) + 1
    BY <2>1, <1>3
  <2> QED BY <2>2
<1>5. /\ Rank(h) \in Nat
      /\ Rank(h + 1) = IF h \in pos THEN Rank(h) + 1 ELSE Rank(h)
  BY <1>f
<1>6. Rank(h) < n
  <2>1. ~ (h \in T)
    BY <1>2, <1>4
  <2> QED BY <2>1, <1>5, <1>c
<1>7. Rank(k) >= n
  OBVIOUS
<1> QED
  <2> HIDE DEF Rank
  <2>1. h \in pos /\ Rank(h) = n - 1
    BY <1>4, <1>5, <1>6, <1>7, <1>c
  <2> QED BY <2>1 DEF Rank

\* No two positions have the same rank.
LEMMA RankInjective ==
  ASSUME NEW m \in Nat, NEW pos \in SUBSET (1 .. m),
         NEW i \in pos, NEW k \in pos, i < k
  PROVE  Cardinality({j \in pos : j < i}) < Cardinality({j \in pos : j < k})
<1>a. \A j \in pos : j \in Nat
  BY PositionsFinite
<1>b. i \in Nat /\ k \in Nat
  BY <1>a
<1>1. Cardinality({j \in pos : j < i + 1})
        = Cardinality({j \in pos : j < i}) + 1
      /\ Cardinality({j \in pos : j < i}) \in Nat
  BY <1>b, BelowGrows
<1>2. IsFiniteSet({j \in pos : j < k})
  <2>1. IsFiniteSet(pos)
    BY PositionsFinite
  <2> QED BY <2>1, FS_Subset
<1>3. {j \in pos : j < i + 1} \subseteq {j \in pos : j < k}
  <2>1. \A j \in pos : j < i + 1 => j < k
    BY <1>a, <1>b
  <2> QED BY <2>1
<1>4. Cardinality({j \in pos : j < i + 1}) <= Cardinality({j \in pos : j < k})
  BY <1>2, <1>3, FS_Subset
<1>5. Cardinality({j \in pos : j < k}) \in Nat
  BY <1>2, FS_CardinalityType
<1> QED BY <1>1, <1>4, <1>5

-----------------------------------------------------------------------------
(* Picking.                                                                *)

\* The n-th smallest of a set of positions is one of them, and there are
\* n - 1 below it.
LEMMA NthRank ==
  ASSUME NEW m \in Nat, NEW pos \in SUBSET (1 .. m),
         NEW n \in 1 .. Cardinality(pos)
  PROVE  /\ Nth(pos, n) \in pos
         /\ Cardinality({j \in pos : j < Nth(pos, n)}) = n - 1
BY RankTaken DEF Nth

\* Every position is the n-th smallest for some n.
LEMMA NthReaches ==
  ASSUME NEW m \in Nat, NEW pos \in SUBSET (1 .. m), NEW i \in pos
  PROVE  \E n \in 1 .. Cardinality(pos) : Nth(pos, n) = i
<1>a. \A j \in pos : j \in Nat /\ 1 <= j /\ j <= m
  BY PositionsFinite
<1>b. IsFiniteSet(pos) /\ Cardinality(pos) \in Nat
  BY PositionsFinite
<1> DEFINE Rank(k) == Cardinality({j \in pos : j < k})
           n == Rank(i) + 1
<1>1. Rank(i) \in Nat /\ Rank(i + 1) = Rank(i) + 1
  BY <1>a, BelowGrows
<1>2. Rank(i + 1) <= Cardinality(pos)
  <2>1. {j \in pos : j < i + 1} \subseteq pos
    OBVIOUS
  <2> QED BY <2>1, <1>b, FS_Subset
<1>3. n \in 1 .. Cardinality(pos)
  <2> HIDE DEF Rank
  <2> QED BY <1>1, <1>2, <1>b
<1>4. Nth(pos, n) \in pos /\ Rank(Nth(pos, n)) = n - 1
  <2> HIDE DEF n
  <2> QED BY <1>3, NthRank
<1>5. Rank(Nth(pos, n)) = Rank(i)
  <2> HIDE DEF Rank
  <2> QED BY <1>1, <1>4
<1>6. ASSUME NEW k \in pos, Rank(k) = Rank(i) PROVE k = i
  <2>1. CASE k < i
    <3>1. Rank(k) < Rank(i)
      BY <2>1, RankInjective
    <3> QED BY <3>1, <1>1, <1>6
  <2>2. CASE i < k
    <3>1. Rank(i) < Rank(k)
      BY <2>2, RankInjective
    <3> QED BY <3>1, <1>1, <1>6
  <2> QED BY <2>1, <2>2, <1>a
<1> QED
  <2> HIDE DEF n, Rank
  <2> QED BY <1>3, <1>4, <1>5, <1>6

\* What Pick keeps: a sequence whose entries are entries of s, each from a
\* position of its own in pos, and none of the positions is left out.
LEMMA PickKeeps ==
  ASSUME NEW S, NEW s \in Seq(S), NEW pos \in SUBSET (DOMAIN s)
  PROVE  /\ Pick(s, pos) \in Seq(S)
         /\ Embeds(Pick(s, pos), s)
         /\ \A n \in DOMAIN Pick(s, pos) :
              \E i \in pos : Pick(s, pos)[n] = s[i]
         /\ \A i \in pos :
              \E n \in DOMAIN Pick(s, pos) : Pick(s, pos)[n] = s[i]
<1> DEFINE m == Len(s)
           c == Cardinality(pos)
           q == Pick(s, pos)
<1>1. m \in Nat /\ DOMAIN s = 1 .. m /\ pos \in SUBSET (1 .. m)
  OBVIOUS
<1>2. c \in Nat
  BY <1>1, PositionsFinite
<1> HIDE DEF m, c
<1>3. q = [n \in 1 .. c |-> s[Nth(pos, n)]]
  BY DEF Pick, c
<1>4. \A n \in 1 .. c : Nth(pos, n) \in pos
  BY <1>1, NthRank DEF c
<1>5. q \in Seq(S) /\ DOMAIN q = 1 .. c
  <2>1. \A n \in 1 .. c : s[Nth(pos, n)] \in S
    BY <1>1, <1>4
  <2>2. q \in [1 .. c -> S]
    BY <1>3, <2>1
  <2> QED BY <2>2, <1>2, <1>3
<1>6. ASSUME NEW i \in 1 .. c, NEW j \in 1 .. c, Nth(pos, i) = Nth(pos, j)
      PROVE  i = j
  <2>1. Cardinality({k \in pos : k < Nth(pos, i)}) = i - 1
    BY <1>1, NthRank DEF c
  <2>2. Cardinality({k \in pos : k < Nth(pos, j)}) = j - 1
    BY <1>1, NthRank DEF c
  <2>3. i - 1 = j - 1
    BY <2>1, <2>2, <1>6
  <2> QED BY <2>3, <1>2
<1>7. Embeds(q, s)
  <2> DEFINE f == [n \in 1 .. c |-> Nth(pos, n)]
  <2>1. f \in [DOMAIN q -> DOMAIN s]
    BY <1>4, <1>5
  <2>2. \A i, j \in DOMAIN q : f[i] = f[j] => i = j
    BY <1>5, <1>6
  <2>3. \A i \in DOMAIN q : q[i] = s[f[i]]
    BY <1>3, <1>5
  <2> HIDE DEF f, q
  <2> QED BY <2>1, <2>2, <2>3 DEF Embeds
<1>8. \A n \in DOMAIN q : \E i \in pos : q[n] = s[i]
  BY <1>3, <1>4, <1>5
<1>9. ASSUME NEW i \in pos PROVE \E n \in DOMAIN q : q[n] = s[i]
  <2>1. PICK n \in 1 .. c : Nth(pos, n) = i
    BY <1>1, NthReaches DEF c
  <2> QED BY <2>1, <1>3, <1>5
<1> QED BY <1>5, <1>7, <1>8, <1>9

\* There is one position of each rank.
LEMMA NthIs ==
  ASSUME NEW m \in Nat, NEW pos \in SUBSET (1 .. m),
         NEW n \in 1 .. Cardinality(pos),
         NEW i \in pos, Cardinality({j \in pos : j < i}) = n - 1
  PROVE  Nth(pos, n) = i
<1>1. /\ Nth(pos, n) \in pos
      /\ Cardinality({j \in pos : j < Nth(pos, n)}) = n - 1
  BY NthRank
<1>2. i \in Nat /\ Nth(pos, n) \in Nat /\ n \in Nat
  BY <1>1, PositionsFinite
<1> DEFINE Rank(k) == Cardinality({j \in pos : j < k})
<1>3. Rank(i) = n - 1 /\ Rank(Nth(pos, n)) = n - 1
  BY <1>1
<1>4. i < Nth(pos, n) => Rank(i) < Rank(Nth(pos, n))
  BY <1>1, RankInjective
<1>5. Nth(pos, n) < i => Rank(Nth(pos, n)) < Rank(i)
  BY <1>1, RankInjective
<1> HIDE DEF Rank
<1> QED
  BY <1>2, <1>3, <1>4, <1>5

\* The last element of a sequence, if it is picked, comes last.
LEMMA PickLast ==
  ASSUME NEW S, NEW s \in Seq(S), NEW x \in S, NEW pos \in SUBSET (DOMAIN s)
  PROVE  Pick(Append(s, x), pos \cup {Len(s) + 1}) = Append(Pick(s, pos), x)
<1> DEFINE m == Len(s)
           more == pos \cup {m + 1}
           c == Cardinality(pos)
           t == Append(s, x)
<1>1. m \in Nat /\ DOMAIN s = 1 .. m /\ pos \in SUBSET (1 .. m)
  OBVIOUS
<1>2. t \in Seq(S) /\ t[m + 1] = x /\ \A i \in 1 .. m : t[i] = s[i]
  OBVIOUS
<1> HIDE DEF t, m
<1>3. IsFiniteSet(pos) /\ c \in Nat /\ \A j \in pos : j \in 1 .. m
  BY <1>1, PositionsFinite
<1>4. m + 1 \notin pos
  BY <1>1, <1>3
<1>5. Cardinality(more) = c + 1
  BY <1>3, <1>4, FS_AddElement
<1>6. m + 1 \in Nat /\ more \in SUBSET (1 .. m + 1)
  <2>1. \A j \in more : j \in 1 .. m + 1
    BY <1>1, <1>3
  <2> QED BY <2>1, <1>1
<1>7. ASSUME NEW n \in 1 .. c PROVE Nth(more, n) = Nth(pos, n)
  <2> DEFINE i == Nth(pos, n)
  <2>1. i \in pos /\ Cardinality({j \in pos : j < i}) = n - 1
    BY <1>1, NthRank
  <2> HIDE DEF i
  <2>2. i \in 1 .. m
    BY <2>1, <1>3
  <2>3. ~ (m + 1 < i)
    BY <2>2, <1>1
  <2>4. {j \in more : j < i} = {j \in pos : j < i}
    BY <2>3
  <2>5. n \in 1 .. Cardinality(more)
    BY <1>3, <1>5
  <2>6. i \in more /\ Cardinality({j \in more : j < i}) = n - 1
    BY <2>1, <2>4
  <2> HIDE DEF more
  <2>7. Nth(more, n) = i
    BY <2>5, <2>6, <1>6, NthIs
  <2> QED BY <2>7 DEF i
<1>8. Nth(more, c + 1) = m + 1
  <2>1. \A j \in pos : j < m + 1
    BY <1>1, <1>3
  <2>2. ~ (m + 1 < m + 1)
    BY <1>1
  <2>3. {j \in more : j < m + 1} = pos
    BY <2>1, <2>2
  <2>4. c + 1 \in 1 .. Cardinality(more) /\ (c + 1) - 1 = c
    BY <1>3, <1>5
  <2>5. m + 1 \in more /\ Cardinality({j \in more : j < m + 1}) = (c + 1) - 1
    BY <2>3, <2>4
  <2> HIDE DEF more, c
  <2> QED BY <2>4, <2>5, <1>6, NthIs
<1>9. Pick(t, more) = [n \in 1 .. c + 1 |-> t[Nth(more, n)]]
  BY <1>5 DEF Pick
<1>10. \A n \in 1 .. c : Nth(pos, n) \in 1 .. m
  BY <1>1, <1>3, NthRank
<1>11. Pick(s, pos) \in Seq(S) /\ Pick(s, pos) = [n \in 1 .. c |-> s[Nth(pos, n)]]
  BY PickKeeps DEF Pick
<1>12. Len(Pick(s, pos)) = c
  BY <1>3, <1>11
<1>13. Append(Pick(s, pos), x)
         = [n \in 1 .. c + 1 |-> IF n = c + 1 THEN x ELSE Pick(s, pos)[n]]
  <2> DEFINE q == Pick(s, pos)
  <2>1. q \in Seq(S) /\ Len(q) = c
    BY <1>11, <1>12
  <2> HIDE DEF q, c
  <2>2. Append(q, x) = [n \in 1 .. c + 1 |-> IF n = c + 1 THEN x ELSE q[n]]
    <3> DEFINE f == [n \in 1 .. c + 1 |-> IF n = c + 1 THEN x ELSE q[n]]
    <3>1. Append(q, x) \in Seq(S) /\ Len(Append(q, x)) = c + 1
      BY <2>1
    <3>2. \A n \in 1 .. c + 1 : Append(q, x)[n] = f[n]
      BY <2>1
    <3>3. f \in Seq(S) /\ Len(f) = c + 1
      <4>1. \A n \in 1 .. c + 1 : f[n] \in S
        BY <3>1, <3>2
      <4>2. f \in [1 .. c + 1 -> S]
        BY <4>1
      <4> HIDE DEF f
      <4> QED BY <4>2, <1>3 DEF c
    <3> HIDE DEF f
    <3>4. Append(q, x) = f
      BY <3>1, <3>2, <3>3, SeqEqual
    <3> QED BY <3>4 DEF f
  <2> QED BY <2>2 DEF q
<1>14. \A n \in 1 .. c + 1 : n = c + 1 \/ n \in 1 .. c
  BY <1>3
<1>15. \A n \in 1 .. c + 1 :
         t[Nth(more, n)] = IF n = c + 1 THEN x ELSE Pick(s, pos)[n]
  <2>1. TAKE n \in 1 .. c + 1
  <2>2. CASE n = c + 1
    BY <2>2, <1>2, <1>8
  <2>3. CASE n \in 1 .. c
    <3>1. n # c + 1
      BY <2>3, <1>3
    <3>2. t[Nth(more, n)] = s[Nth(pos, n)]
      BY <2>3, <1>2, <1>7, <1>10
    <3> QED BY <3>1, <3>2, <2>3, <1>11
  <2> QED BY <2>2, <2>3, <1>14
<1> HIDE DEF more, c
<1> QED
  BY <1>9, <1>13, <1>15 DEF m, t, more
=============================================================================
