---------------------------- MODULE DavWalkProofs ----------------------------
(***************************************************************************)
(* Proofs about DavWalk, for any location, exposed root, trees, requests   *)
(* and number of things that others do: the types, what the responses of a *)
(* PROPFIND say, and what a COPY or MOVE makes of the tree and leaves.     *)
(***************************************************************************)
EXTENDS DavWalk, PickingProofs

-----------------------------------------------------------------------------
(* Prefixes.                                                               *)

LEMMA PrefixMeans ==
  ASSUME NEW S, NEW s \in Seq(S), NEW t \in Seq(S)
  PROVE  IsPrefixOf(s, t) <=>
           Len(s) <= Len(t) /\ \A i \in 1 .. Len(s) : s[i] = t[i]
<1>1. CASE Len(s) <= Len(t)
  <2>1. /\ Len(s) \in Nat /\ Len(t) \in Nat
        /\ \A i \in 1 .. Len(s) : t[i] \in S
    BY <1>1
  <2>2. /\ SubSeq(t, 1, Len(s)) \in Seq(S)
        /\ Len(SubSeq(t, 1, Len(s))) = Len(s)
        /\ \A i \in 1 .. Len(s) : SubSeq(t, 1, Len(s))[i] = t[i]
    BY <2>1, <1>1, SubSeqProperties
  <2>3. SubSeq(t, 1, Len(s)) = s <=> \A i \in 1 .. Len(s) : s[i] = t[i]
    BY <2>2, SeqEqual
  <2> QED BY <1>1, <2>3 DEF IsPrefixOf
<1>2. CASE ~ (Len(s) <= Len(t))
  BY <1>2 DEF IsPrefixOf
<1> QED BY <1>1, <1>2

LEMMA PrefixSelf ==
  ASSUME NEW S, NEW s \in Seq(S)
  PROVE  IsPrefixOf(s, s)
BY PrefixMeans

LEMMA PrefixTransitive ==
  ASSUME NEW S, NEW s \in Seq(S), NEW t \in Seq(S), NEW u \in Seq(S),
         IsPrefixOf(s, t), IsPrefixOf(t, u)
  PROVE  IsPrefixOf(s, u)
<1>1. /\ Len(s) \in Nat /\ Len(t) \in Nat /\ Len(u) \in Nat
      /\ Len(s) <= Len(t) /\ Len(t) <= Len(u)
      /\ \A i \in 1 .. Len(s) : s[i] = t[i]
      /\ \A i \in 1 .. Len(t) : t[i] = u[i]
  BY PrefixMeans
<1>2. \A i \in 1 .. Len(s) : s[i] = u[i]
  BY <1>1
<1> QED BY <1>1, <1>2, PrefixMeans

\* Of two prefixes of one path, the shorter is a prefix of the longer.
LEMMA PrefixComparable ==
  ASSUME NEW S, NEW s \in Seq(S), NEW t \in Seq(S), NEW u \in Seq(S),
         IsPrefixOf(s, u), IsPrefixOf(t, u), Len(s) <= Len(t)
  PROVE  IsPrefixOf(s, t)
<1>1. /\ Len(s) \in Nat /\ Len(t) \in Nat /\ Len(u) \in Nat
      /\ \A i \in 1 .. Len(s) : s[i] = u[i]
      /\ \A i \in 1 .. Len(t) : t[i] = u[i]
  BY PrefixMeans
<1>2. \A i \in 1 .. Len(s) : s[i] = t[i]
  BY <1>1
<1> QED BY <1>2, PrefixMeans

LEMMA PrefixOfEqualLength ==
  ASSUME NEW S, NEW s \in Seq(S), NEW t \in Seq(S),
         IsPrefixOf(s, t), Len(t) <= Len(s)
  PROVE  s = t
<1>1. /\ Len(s) \in Nat /\ Len(t) \in Nat /\ Len(s) <= Len(t)
      /\ \A i \in 1 .. Len(s) : s[i] = t[i]
  BY PrefixMeans
<1> QED BY <1>1, SeqEqual

LEMMA PrefixLen ==
  ASSUME NEW S, NEW s \in Seq(S), NEW t \in Seq(S), IsPrefixOf(s, t)
  PROVE  Len(s) \in Nat /\ Len(t) \in Nat /\ Len(s) <= Len(t)
BY DEF IsPrefixOf

LEMMA AppendPrefix ==
  ASSUME NEW S, NEW s \in Seq(S), NEW x \in S
  PROVE  /\ Append(s, x) \in Seq(S) /\ Len(Append(s, x)) = Len(s) + 1
         /\ Append(s, x) # <<>> /\ Last(Append(s, x)) = x
         /\ IsPrefixOf(s, Append(s, x)) /\ Front(Append(s, x)) = s
<1> DEFINE t == Append(s, x)
<1>1. /\ t \in Seq(S) /\ Len(t) = Len(s) + 1 /\ t # <<>> /\ t[Len(t)] = x
      /\ Len(s) \in Nat /\ \A i \in 1 .. Len(s) : t[i] = s[i]
  BY AppendProperties
<1> HIDE DEF t
<1>2. IsPrefixOf(s, t)
  BY <1>1, PrefixMeans
<1>3. Front(t) = s
  <2>1. SubSeq(t, 1, Len(s)) = s
    BY <1>2 DEF IsPrefixOf
  <2>2. Len(t) - 1 = Len(s)
    BY <1>1
  <2> QED BY <2>1, <2>2 DEF Front
<1> QED BY <1>1, <1>2, <1>3 DEF t, Last

LEMMA FrontPrefix ==
  ASSUME NEW S, NEW s \in Seq(S), s # <<>>
  PROVE  /\ Front(s) \in Seq(S) /\ Last(s) \in S /\ Len(Front(s)) = Len(s) - 1
         /\ IsPrefixOf(Front(s), s) /\ s = Append(Front(s), Last(s))
<1>1. PICK t \in Seq(S), x \in S : s = Append(t, x)
  BY SequenceEmptyOrAppend
<1>2. Front(s) = t /\ Last(s) = x /\ IsPrefixOf(t, s) /\ Len(s) = Len(t) + 1
  BY <1>1, AppendPrefix
<1>3. Len(t) = Len(s) - 1
  BY <1>2
<1> QED BY <1>1, <1>2, <1>3

\* Whatever lies below a path lies at or below one of its members.
LEMMA BelowMember ==
  ASSUME NEW S, NEW s \in Seq(S), NEW t \in Seq(S), IsPrefixOf(s, t), s # t
  PROVE  /\ Len(s) < Len(t)
         /\ t[Len(s) + 1] \in S /\ IsPrefixOf(Append(s, t[Len(s) + 1]), t)
<1>1. /\ Len(s) \in Nat /\ Len(t) \in Nat /\ Len(s) <= Len(t)
      /\ \A i \in 1 .. Len(s) : s[i] = t[i]
  BY PrefixMeans
<1>2. Len(s) < Len(t)
  BY <1>1, PrefixOfEqualLength
<1>3. t[Len(s) + 1] \in S
  BY <1>1, <1>2
<1> DEFINE u == Append(s, t[Len(s) + 1])
<1>4. /\ u \in Seq(S) /\ Len(u) = Len(s) + 1 /\ u[Len(s) + 1] = t[Len(s) + 1]
      /\ \A i \in 1 .. Len(s) : u[i] = s[i]
  BY <1>3, AppendProperties
<1> HIDE DEF u
<1>5. \A i \in 1 .. Len(u) : u[i] = t[i]
  BY <1>1, <1>4
<1>6. IsPrefixOf(u, t)
  BY <1>1, <1>2, <1>4, <1>5, PrefixMeans
<1> QED BY <1>2, <1>3, <1>6 DEF u

\* A prefix of a path is the path, or a prefix of what it lies in.
LEMMA PrefixOfFront ==
  ASSUME NEW S, NEW s \in Seq(S), NEW t \in Seq(S), IsPrefixOf(s, t), s # t
  PROVE  t # <<>> /\ IsPrefixOf(s, Front(t))
<1>1. Len(s) < Len(t) /\ Len(s) \in Nat /\ Len(t) \in Nat
  BY BelowMember, PrefixLen
<1>2. t # <<>>
  BY <1>1
<1>3. Front(t) \in Seq(S) /\ IsPrefixOf(Front(t), t) /\ Len(s) <= Len(Front(t))
  BY <1>1, <1>2, FrontPrefix
<1> QED BY <1>2, <1>3, PrefixComparable

LEMMA ConcatPrefix ==
  ASSUME NEW S, NEW s \in Seq(S), NEW t \in Seq(S)
  PROVE  s \o t \in Seq(S) /\ IsPrefixOf(s, s \o t) /\ Len(s \o t) = Len(s) + Len(t)
<1> DEFINE u == s \o t
<1>1. /\ u \in Seq(S) /\ Len(u) = Len(s) + Len(t)
      /\ Len(s) \in Nat /\ Len(t) \in Nat
      /\ \A i \in 1 .. Len(s) : u[i] = s[i]
  <2>1. /\ u \in Seq(S) /\ Len(u) = Len(s) + Len(t)
        /\ \A i \in 1 .. Len(s) + Len(t) :
             u[i] = IF i <= Len(s) THEN s[i] ELSE t[i - Len(s)]
    BY ConcatProperties
  <2> HIDE DEF u
  <2> QED BY <2>1
<1> HIDE DEF u
<1>2. IsPrefixOf(s, u)
  BY <1>1, PrefixMeans
<1> QED BY <1>1, <1>2 DEF u

-----------------------------------------------------------------------------
(* Trees, and the paths of URIs.                                           *)

\* Whatever something lies below is a collection.
LEMMA AboveIsCollection ==
  ASSUME NEW t, Closed(t), DOMAIN t \subseteq Path, NEW p \in DOMAIN t,
         NEW s \in Path, IsPrefixOf(s, p), s # p
  PROVE  s \in DOMAIN t /\ t[s] = Collection
<1> DEFINE Between(q) == q \in DOMAIN t /\ IsPrefixOf(s, q) /\ q # s
           T == {Len(q) : q \in {r \in DOMAIN t : Between(r)}}
<1>1. T \subseteq Nat /\ T # {}
  <2>1. \A q \in DOMAIN t : Len(q) \in Nat
    BY DEF Path
  <2>2. Len(p) \in T
    OBVIOUS
  <2> QED BY <2>1, <2>2
<1>2. PICK n \in T : \A m \in T : n <= m
  <2> HIDE DEF T
  <2> QED BY <1>1, LeastOf
<1>3. PICK q \in DOMAIN t : Between(q) /\ n = Len(q)
  OBVIOUS
<1>4. /\ q \in Seq(Name) /\ s \in Seq(Name) /\ IsPrefixOf(s, q) /\ q # s
  BY <1>3 DEF Path
<1>5. /\ q # <<>> /\ IsPrefixOf(s, Front(q)) /\ Len(Front(q)) = Len(q) - 1
      /\ Len(q) \in Nat
  BY <1>4, PrefixOfFront, FrontPrefix
<1>6. Front(q) \in DOMAIN t /\ t[Front(q)] = Collection
  BY <1>3, <1>5 DEF Closed, Empty
<1>7. CASE Front(q) = s
  BY <1>6, <1>7
<1>8. CASE Front(q) # s
  <2>1. Len(Front(q)) \in T
    BY <1>5, <1>6, <1>8
  <2>2. n <= Len(Front(q))
    BY <1>2, <2>1
  <2> QED BY <2>2, <1>3, <1>5
<1> QED BY <1>7, <1>8

LEMMA EmptyNoName == Empty \notin Name /\ Name \subseteq Seq(Letter)
BY DEF Name

LEMMA PathIsUri == ASSUME NEW p \in Path PROVE p \in Uri /\ Len(p) \in Nat
<1>1. p \in Seq(Name)
  BY DEF Path
<1> QED BY <1>1, EmptyNoName, SeqMonotonic DEF Uri

\* Where the names of a URI stand, as far as they count.
Named(uri) == {i \in Len(Base) + 1 .. Len(uri) : uri[i] # Empty}

LEMMA NamedPositions ==
  ASSUME NEW uri \in Uri
  PROVE  /\ Named(uri) \in SUBSET (DOMAIN uri)
         /\ IsFiniteSet(Named(uri)) /\ Cardinality(Named(uri)) \in Nat
         /\ InLocation(uri) =>
              Cardinality(Named(uri)) <= Len(uri) - Len(Base)
<1>1. /\ Len(uri) \in Nat /\ Len(Base) \in Nat
      /\ DOMAIN uri = 1 .. Len(uri)
  BY NameAssumption, PathIsUri DEF Uri
<1>2. Named(uri) \in SUBSET (Len(Base) + 1 .. Len(uri))
  BY DEF Named
<1>3. Named(uri) \in SUBSET (1 .. Len(uri))
  BY <1>1, <1>2
<1>4. IsFiniteSet(Named(uri)) /\ Cardinality(Named(uri)) \in Nat
  BY <1>1, <1>3, PositionsFinite
<1>5. ASSUME InLocation(uri)
      PROVE  Cardinality(Named(uri)) <= Len(uri) - Len(Base)
  <2>1. Len(Base) <= Len(uri)
    BY <1>5 DEF InLocation, IsPrefixOf
  <2>2. /\ IsFiniteSet(Len(Base) + 1 .. Len(uri))
        /\ Cardinality(Len(Base) + 1 .. Len(uri)) = Len(uri) - Len(Base)
    <3>1. Len(Base) + 1 \in Int /\ Len(uri) \in Int
      BY <1>1
    <3>2. /\ IsFiniteSet(Len(Base) + 1 .. Len(uri))
          /\ Cardinality(Len(Base) + 1 .. Len(uri)) =
               IF Len(Base) + 1 > Len(uri) THEN 0
               ELSE Len(uri) - (Len(Base) + 1) + 1
      BY <3>1, FS_Interval
    <3> QED BY <3>2, <1>1, <2>1
  <2>3. Cardinality(Named(uri)) <= Cardinality(Len(Base) + 1 .. Len(uri))
    BY <1>2, <2>2, FS_Subset
  <2> QED BY <2>2, <2>3
<1> QED BY <1>1, <1>3, <1>4, <1>5

\* The path of a URI is one of iRODS, and no longer than what it is made from.
LEMMA RodsPathIsPath ==
  ASSUME NEW uri \in Uri
  PROVE  /\ RodsPath(uri) \in Path /\ IsPrefixOf(Root, RodsPath(uri))
         /\ Resolves(uri) => ~ TooLong(RodsPath(uri))
<1> DEFINE q == Pick(uri, Named(uri))
<1>1. /\ q \in Seq(Seq(Letter))
      /\ \A n \in DOMAIN q : \E i \in Named(uri) : q[n] = uri[i]
  BY NamedPositions, PickKeeps DEF Uri
<1>2. Len(q) = Cardinality(Named(uri))
  <2>1. q = [n \in 1 .. Cardinality(Named(uri)) |-> uri[Nth(Named(uri), n)]]
    BY DEF Pick
  <2>2. DOMAIN q = 1 .. Cardinality(Named(uri))
    BY <2>1
  <2> HIDE DEF q
  <2> QED BY <2>2, <1>1, NamedPositions
<1>3. RodsPath(uri) = Root \o q
  BY DEF RodsPath, Named
<1> HIDE DEF q
<1>4. \A n \in 1 .. Len(q) : q[n] \in Name
  BY <1>1 DEF Named, Name
<1>5. q \in Seq(Name)
  BY <1>1, <1>4
<1>6. Root \in Seq(Name) /\ Base \in Seq(Name)
  BY NameAssumption DEF Path
<1>7. /\ Root \o q \in Seq(Name) /\ IsPrefixOf(Root, Root \o q)
      /\ Len(Root \o q) = Len(Root) + Len(q)
  BY <1>5, <1>6, ConcatPrefix
<1>8. ASSUME Resolves(uri) PROVE ~ TooLong(RodsPath(uri))
  <2> DEFINE u == SubSeq(uri, Len(Base) + 1, Len(uri))
  <2>1. InLocation(uri) /\ ~ TooLong(Root \o u)
    BY <1>8 DEF Resolves
  <2>2. /\ Len(Base) \in Nat /\ Len(uri) \in Nat /\ Len(Base) <= Len(uri)
        /\ Len(Root) \in Nat /\ MaxLength \in Nat
    BY <1>6, <2>1, BoundAssumption DEF InLocation, IsPrefixOf, Uri
  <2>3. \A i \in Len(Base) + 1 .. Len(uri) : uri[i] \in Seq(Letter)
    BY <2>2 DEF Uri
  <2>4. u \in Seq(Seq(Letter)) /\ Len(u) = Len(uri) - Len(Base)
    <3>1. /\ u \in Seq(Seq(Letter))
          /\ Len(u) = IF Len(Base) + 1 <= Len(uri)
                      THEN Len(uri) - (Len(Base) + 1) + 1 ELSE 0
      BY <2>2, <2>3, SubSeqProperties
    <3> QED BY <3>1, <2>2
  <2> HIDE DEF u
  <2>5. Root \in Seq(Seq(Letter))
    BY NameAssumption, PathIsUri DEF Uri
  <2>6. Len(Root \o u) = Len(Root) + (Len(uri) - Len(Base))
    BY <2>4, <2>5, ConcatPrefix
  <2>7. Len(q) <= Len(uri) - Len(Base) /\ Len(q) \in Nat
    BY <1>2, <2>1, NamedPositions
  <2> QED BY <2>1, <2>2, <2>6, <2>7, <1>3, <1>7 DEF TooLong
<1> QED BY <1>3, <1>7, <1>8 DEF Path

\* The name of a member, put after the URI and after the path of a collection,
\* makes the URI and the path of the member.
LEMMA JoinResolves ==
  ASSUME NEW uri \in Uri, InLocation(uri), NEW name \in Name
  PROVE  /\ Join(uri, name) \in Uri /\ InLocation(Join(uri, name))
         /\ RodsPath(Join(uri, name)) = Append(RodsPath(uri), name)
         /\ Len(Join(uri, name)) <= Len(Append(uri, name))
<1>1. /\ uri \in Seq(Seq(Letter)) /\ Base \in Seq(Seq(Letter))
      /\ name \in Seq(Letter) /\ name # Empty
      /\ Len(uri) \in Nat /\ Len(Base) \in Nat /\ Len(Base) <= Len(uri)
  BY EmptyNoName, NameAssumption, PathIsUri DEF Uri, InLocation, IsPrefixOf
<1> DEFINE u == Append(uri, name)
<1>2. /\ u \in Seq(Seq(Letter)) /\ Len(u) = Len(uri) + 1
      /\ u[Len(uri) + 1] = name /\ \A i \in 1 .. Len(uri) : u[i] = uri[i]
      /\ IsPrefixOf(uri, u)
  BY <1>1, AppendProperties, AppendPrefix
<1> HIDE DEF u
<1>3. CASE uri # <<Empty>>
  <2>1. Join(uri, name) = u
    BY <1>3 DEF Join, u
  <2>2. InLocation(u)
    BY <1>1, <1>2, PrefixTransitive DEF InLocation
  <2>3. Named(u) = Named(uri) \cup {Len(uri) + 1}
    <3>1. \A i : i \in Len(Base) + 1 .. Len(u) <=>
                   i \in Len(Base) + 1 .. Len(uri) \/ i = Len(uri) + 1
      BY <1>1, <1>2
    <3>2. \A i \in Len(Base) + 1 .. Len(uri) : u[i] = uri[i]
      BY <1>1, <1>2
    <3> QED BY <3>1, <3>2, <1>1, <1>2 DEF Named
  <2>4. Pick(u, Named(u)) = Append(Pick(uri, Named(uri)), name)
    BY <1>1, <2>3, NamedPositions, PickLast DEF u
  <2>5. RodsPath(u) = Append(RodsPath(uri), name)
    <3> DEFINE q == Pick(uri, Named(uri))
    <3>1. q \in Seq(Seq(Letter)) /\ Root \in Seq(Seq(Letter))
      BY NamedPositions, PickKeeps, NameAssumption, PathIsUri DEF Uri
    <3>2. RodsPath(u) = Root \o Append(q, name) /\ RodsPath(uri) = Root \o q
      BY <2>4 DEF RodsPath, Named
    <3> HIDE DEF q
    <3>3. Root \o Append(q, name) = Append(Root \o q, name)
      <4>1. <<name>> \in Seq(Seq(Letter)) /\ Root \o q \in Seq(Seq(Letter))
        BY <1>1, <3>1, ConcatProperties
      <4>2. Append(q, name) = q \o <<name>>
        BY <3>1, <1>1, AppendIsConcat
      <4>3. Append(Root \o q, name) = (Root \o q) \o <<name>>
        BY <4>1, <1>1, AppendIsConcat
      <4>4. (Root \o q) \o <<name>> = Root \o (q \o <<name>>)
        BY <3>1, <4>1, ConcatAssociative
      <4> QED BY <4>2, <4>3, <4>4
    <3> QED BY <3>2, <3>3
  <2> QED BY <1>2, <2>1, <2>2, <2>5 DEF u, Uri
<1>4. CASE uri = <<Empty>>
  <2>1. Join(uri, name) = <<name>>
    BY <1>4 DEF Join
  <2>2. Base = <<>>
    <3>1. Len(uri) = 1 /\ uri[1] = Empty
      BY <1>4
    <3>2. Len(Base) # 0 => Base[1] = Empty /\ Base[1] \in Name
      <4>1. Base \in Seq(Name)
        BY NameAssumption DEF Path
      <4>2. \A i \in 1 .. Len(Base) : Base[i] = uri[i]
        BY <1>1, PrefixMeans DEF InLocation
      <4> QED BY <4>1, <4>2, <3>1, <1>1
    <3>3. Len(Base) = 0
      BY <3>2, EmptyNoName
    <3> QED BY <3>3, <1>1
  <2>3. Len(Base) = 0
    BY <2>2
  <2>4. Named(<<Empty>>) = {}
    BY <2>3 DEF Named
  <2>5. Named(<<name>>) = {1} /\ Len(<<Empty>>) = 1
    BY <2>3, <1>1 DEF Named
  <2> DEFINE none == <<>>
  <2>6. Pick(<<Empty>>, {}) = <<>>
    BY FS_EmptySet DEF Pick
  <2>7. Pick(<<name>>, {1}) = <<name>>
    <3>1. <<name>> = Append(<<>>, name) /\ Len(<<>>) = 0
      OBVIOUS
    <3>2. /\ <<>> \in Seq(Seq(Letter)) /\ {} \in SUBSET (DOMAIN <<>>)
          /\ {} \cup {Len(<<>>) + 1} = {1}
      OBVIOUS
    <3>3. Pick(Append(<<>>, name), {} \cup {Len(<<>>) + 1})
            = Append(Pick(<<>>, {}), name)
      BY <1>1, <3>2, PickLast
    <3>4. Pick(<<>>, {}) = <<>>
      BY FS_EmptySet DEF Pick
    <3> QED BY <3>1, <3>2, <3>3, <3>4
  <2>8. RodsPath(uri) = Root \o <<>> /\ RodsPath(<<name>>) = Root \o <<name>>
    BY <2>4, <2>5, <2>6, <2>7, <1>4 DEF RodsPath, Named
  <2>9. RodsPath(<<name>>) = Append(RodsPath(uri), name)
    <3>1. Root \in Seq(Seq(Letter))
      BY NameAssumption, PathIsUri DEF Uri
    <3>2. Root \o <<>> = Root /\ Append(Root, name) = Root \o <<name>>
      BY <3>1, <1>1, ConcatEmptySeq, AppendIsConcat
    <3> QED BY <3>2, <2>8
  <2>10. InLocation(<<name>>)
    <3>1. <<name>> \in Seq(Seq(Letter)) /\ Len(<<name>>) = 1
      BY <1>1
    <3>2. Len(Base) <= Len(<<name>>) /\ \A i \in 1 .. Len(Base) : Base[i] = <<name>>[i]
      BY <3>1, <2>3
    <3> QED BY <3>1, <3>2, <1>1, PrefixMeans DEF InLocation
  <2>11. <<name>> \in Uri /\ Len(<<name>>) <= Len(u)
    BY <1>1, <1>2 DEF Uri
  <2> QED BY <2>1, <2>9, <2>10, <2>11 DEF u
<1> QED BY <1>3, <1>4

-----------------------------------------------------------------------------
(* What the proofs rest on: the calls of walker fit into each other.       *)

IsChild(path, c) == c # Empty /\ Front(c) = path

\* The two paths of a call lead to the same place; what it has still to read is
\* none of what it has seen, and it has phase after phase.
CallFits(f) ==
  /\ InLocation(f.uri) /\ RodsPath(f.uri) = f.rods
  /\ \A e, g \in f.left : e[1] = g[1] => e = g
  /\ \A e \in f.left : Append(f.rods, e[1]) \notin f.seen
  /\ \A c \in f.seen \cup f.names : IsChild(f.rods, c)
  /\ f.left # {} => f.phase = "members"
  /\ f.seen # {} => f.phase \notin {"visit", "open"}
  /\ f.names # {} => f.phase = "locknull"
  /\ f.phase # "visit" => f.depth # 0

\* The i-th call of request o.
LevelFits(f, i, o) ==
  /\ CallFits(f)
  /\ f.phase \in {"lockdb", "locknull"} => o.kind = "PROPFIND"
  /\ f.depth = o.depth - (i - 1)
  /\ Len(f.rods) = (i - 1) + Len(o.src.rods)

\* Each call was made from the one before it, for something that this has seen.
NestFits ==
  \A i, j \in 1 .. Len(stack) : i < j =>
    /\ stack[i].phase = "members"
    /\ \E c \in stack[i].seen : IsPrefixOf(c, stack[j].rods)

StackFits ==
  /\ \A i \in 1 .. Len(stack) : LevelFits(stack[i], i, op)
  /\ NestFits
  /\ Walking => /\ op.kind \in {"PROPFIND", "COPY"}
                /\ stack[1].rods = op.src.rods
                /\ res.uri = Top.uri /\ res.rods = Top.rods

\* What a request has looked up, and that its walk is not over.
LookedUp(o) ==
  /\ InLocation(o.src.uri) /\ RodsPath(o.src.uri) = o.src.rods
  /\ IsPrefixOf(Root, o.src.rods) /\ IsPrefixOf(Root, o.dst.rods)
  /\ ~ TooLong(o.src.rods)

RequestFits ==
  /\ op = None => tree \in Trees /\ past = Nothing /\ reported = EmptyBag
  /\ op # None => /\ LookedUp(op)
                  /\ op.phase = "walk" <=> Walking
                  /\ past.tree \in Trees

Fits == TypeOK /\ StackFits /\ RequestFits

-----------------------------------------------------------------------------
(* What the steps of the walk do to its calls.                             *)

LEMMA TopCall ==
  ASSUME TypeOK, Walking
  PROVE  /\ Len(stack) \in Nat /\ Len(stack) >= 1 /\ Top = stack[Len(stack)]
         /\ Top \in Calls /\ ~ TooLong(Top.uri) /\ ~ TooLong(Top.rods)
         /\ op \in Requests /\ op # None /\ op.phase = "walk"
         /\ \A i \in 1 .. Len(stack) : stack[i] \in Calls
<1>1. /\ stack \in Seq(Calls) /\ stack # <<>>
      /\ \A i \in 1 .. Len(stack) : ~ TooLong(stack[i].uri) /\ ~ TooLong(stack[i].rods)
      /\ op \in Requests \cup {None} /\ op # None /\ op.phase = "walk"
  BY DEF TypeOK, Walking
<1>2. Len(stack) \in Nat /\ Len(stack) >= 1
  BY <1>1
<1>3. Len(stack) \in 1 .. Len(stack)
  BY <1>2
<1>4. \A i \in 1 .. Len(stack) : stack[i] \in Calls
  BY <1>1
<1> QED BY <1>1, <1>2, <1>3, <1>4 DEF Top

\* The innermost call goes on.
LEMMA TurnsCalls ==
  ASSUME TypeOK, Walking, NEW f \in Calls, TopBecomes(f)
  PROVE  /\ stack' \in Seq(Calls) /\ Len(stack') = Len(stack) /\ Walking'
         /\ stack'[Len(stack)] = f
         /\ \A i \in 1 .. Len(stack) - 1 : stack'[i] = stack[i]
<1>1. stack \in Seq(Calls) /\ Len(stack) \in Nat /\ Len(stack) >= 1
  BY TopCall DEF TypeOK
<1>2. Len(stack) \in 1 .. Len(stack)
  BY <1>1
<1>3. stack' = [stack EXCEPT ![Len(stack)] = f]
  BY DEF TopBecomes
<1>4. /\ stack' \in Seq(Calls) /\ Len(stack') = Len(stack)
      /\ \A j \in 1 .. Len(stack) :
           stack'[j] = IF j = Len(stack) THEN f ELSE stack[j]
  BY <1>1, <1>2, <1>3, ExceptSeq
<1>5. \A i \in 1 .. Len(stack) - 1 : stack'[i] = stack[i]
  BY <1>1, <1>4
<1>6. stack' # <<>>
  BY <1>1, <1>4
<1> QED BY <1>2, <1>4, <1>5, <1>6 DEF Walking

LEMMA CutBackFits ==
  ASSUME res \in Resource, NEW f \in Calls
  PROVE  /\ CutBack(f) \in Resource /\ CutBack(f).uri = f.uri /\ CutBack(f).rods = f.rods
BY DEF CutBack, Resource, Calls

\* It returns.
LEMMA ReturnsCalls ==
  ASSUME TypeOK, Walking, NEW reply, Returns(reply)
  PROVE  /\ stack' \in Seq(Calls) /\ Len(stack') = Len(stack) - 1
         /\ \A i \in 1 .. Len(stack) - 1 : stack'[i] = stack[i]
         /\ Len(stack) = 1 => op' = Ended(reply) /\ stack' = <<>> /\ res' = res
         /\ Len(stack) # 1 =>
              /\ Walking' /\ op' = op
              /\ res' = CutBack(stack[Len(stack) - 1])
<1>1. stack \in Seq(Calls) /\ Len(stack) \in Nat /\ Len(stack) >= 1
  BY TopCall DEF TypeOK
<1>2. CASE Len(stack) = 1
  <2>1. op' = Ended(reply) /\ stack' = <<>> /\ res' = res
    BY <1>2 DEF Returns, Done
  <2>2. Len(stack') = Len(stack) - 1 /\ stack' \in Seq(Calls)
    BY <1>2, <2>1
  <2>3. \A i \in 1 .. Len(stack) - 1 : stack'[i] = stack[i]
    BY <1>2
  <2> QED BY <1>2, <2>1, <2>2, <2>3
<1>3. CASE Len(stack) # 1
  <2>0. Len(stack) > 1
    <3>1. \A n \in Nat : n >= 1 /\ n # 1 => n > 1
      OBVIOUS
    <3> QED BY <3>1, <1>1, <1>3
  <2>1. /\ stack' = SubSeq(stack, 1, Len(stack) - 1) /\ op' = op
        /\ res' = CutBack(stack[Len(stack) - 1])
    BY <1>3 DEF Returns, Front, Done
  <2>2. \A i \in 1 .. Len(stack) - 1 : stack[i] \in Calls
    BY <1>1
  <2>3. /\ stack' \in Seq(Calls) /\ Len(stack') = Len(stack) - 1
        /\ \A i \in 1 .. Len(stack) - 1 : stack'[i] = stack[i]
    <3>1. Len(stack) - 1 \in Int /\ 1 \in Int
      BY <1>1
    <3>2. /\ SubSeq(stack, 1, Len(stack) - 1) \in Seq(Calls)
          /\ Len(SubSeq(stack, 1, Len(stack) - 1)) =
               IF 1 <= Len(stack) - 1 THEN Len(stack) - 1 - 1 + 1 ELSE 0
          /\ \A i \in 1 .. Len(stack) - 1 - 1 + 1 :
               SubSeq(stack, 1, Len(stack) - 1)[i] = stack[1 + i - 1]
      BY <2>2, <3>1, SubSeqProperties
    <3> QED BY <3>2, <2>0, <2>1, <1>1
  <2>4. stack' # <<>>
    BY <2>0, <2>3, <1>1
  <2>5. Walking'
    BY <2>4 DEF Walking
  <2> QED BY <1>3, <2>1, <2>3, <2>5
<1> QED BY <1>2, <1>3

Reads(frame, entry, path) ==
  [frame EXCEPT !.left = @ \ {entry}, !.seen = @ \cup {path}]

LEMMA FrontElements ==
  ASSUME NEW S, NEW s \in Seq(S), s # <<>>
  PROVE  /\ Front(s) \in Seq(S) /\ Len(Front(s)) = Len(s) - 1
         /\ \A i \in 1 .. Len(s) - 1 : Front(s)[i] = s[i]
<1>1. Front(s) \in Seq(S) /\ Len(Front(s)) = Len(s) - 1 /\ IsPrefixOf(Front(s), s)
  BY FrontPrefix
<1>2. \A i \in 1 .. Len(Front(s)) : Front(s)[i] = s[i]
  BY <1>1, PrefixMeans
<1> QED BY <1>1, <1>2

Pushed(s, f, g) == Front(s) \o <<f, g>>

LEMMA PushTwo ==
  ASSUME NEW S, NEW s \in Seq(S), s # <<>>, NEW f \in S, NEW g \in S
  PROVE  /\ Pushed(s, f, g) \in Seq(S) /\ Len(Pushed(s, f, g)) = Len(s) + 1
         /\ Pushed(s, f, g)[Len(s)] = f /\ Pushed(s, f, g)[Len(s) + 1] = g
         /\ \A i \in 1 .. Len(s) - 1 : Pushed(s, f, g)[i] = s[i]
<1> DEFINE t == Front(s)
           u == <<f, g>>
           r == t \o u
<1>1. /\ t \in Seq(S) /\ Len(t) = Len(s) - 1
      /\ \A i \in 1 .. Len(s) - 1 : t[i] = s[i]
  BY FrontElements
<1>2. u \in Seq(S) /\ Len(u) = 2 /\ u[1] = f /\ u[2] = g
  OBVIOUS
<1>3. Len(s) \in Nat /\ Len(s) >= 1
  OBVIOUS
<1> HIDE DEF t, u
<1>5. /\ r \in Seq(S) /\ Len(r) = Len(t) + Len(u)
      /\ \A i \in 1 .. Len(t) + Len(u) :
           r[i] = IF i <= Len(t) THEN t[i] ELSE u[i - Len(t)]
  BY <1>1, <1>2, ConcatProperties
<1>9. r = Pushed(s, f, g)
  BY DEF Pushed, t, u
<1> HIDE DEF r
<1>6. \A i \in 1 .. Len(s) + 1 :
        r[i] = IF i <= Len(s) - 1 THEN t[i] ELSE u[i - (Len(s) - 1)]
  BY <1>1, <1>2, <1>3, <1>5
<1>7. r[Len(s)] = u[1] /\ r[Len(s) + 1] = u[2]
  <2>1. Len(s) - (Len(s) - 1) = 1 /\ (Len(s) + 1) - (Len(s) - 1) = 2
    BY <1>3
  <2>2. /\ Len(s) \in 1 .. Len(s) + 1 /\ ~ (Len(s) <= Len(s) - 1)
        /\ Len(s) + 1 \in 1 .. Len(s) + 1 /\ ~ (Len(s) + 1 <= Len(s) - 1)
    BY <1>3
  <2> QED BY <2>1, <2>2, <1>6
<1>8. \A i \in 1 .. Len(s) - 1 : r[i] = s[i]
  BY <1>1, <1>3, <1>6
<1> QED BY <1>1, <1>2, <1>3, <1>5, <1>7, <1>8, <1>9

\* It calls another, for a member.
LEMMA MemberCalls ==
  ASSUME TypeOK, Walking, NEW f \in Calls, NEW g \in Calls,
         stack' = Pushed(stack, f, g)
  PROVE  /\ stack' \in Seq(Calls) /\ Len(stack') = Len(stack) + 1 /\ Walking'
         /\ stack'[Len(stack)] = f /\ stack'[Len(stack) + 1] = g
         /\ \A i \in 1 .. Len(stack) - 1 : stack'[i] = stack[i]
<1>1. stack \in Seq(Calls) /\ Len(stack) \in Nat /\ Len(stack) >= 1 /\ stack # <<>>
  BY TopCall DEF TypeOK, Walking
<1>2. /\ stack' \in Seq(Calls) /\ Len(stack') = Len(stack) + 1
      /\ stack'[Len(stack)] = f /\ stack'[Len(stack) + 1] = g
      /\ \A i \in 1 .. Len(stack) - 1 : stack'[i] = stack[i]
  <2>1. \A s \in Seq(Calls) : s # <<>> =>
          /\ Pushed(s, f, g) \in Seq(Calls) /\ Len(Pushed(s, f, g)) = Len(s) + 1
          /\ Pushed(s, f, g)[Len(s)] = f /\ Pushed(s, f, g)[Len(s) + 1] = g
          /\ \A i \in 1 .. Len(s) - 1 : Pushed(s, f, g)[i] = s[i]
    BY PushTwo
  <2> QED BY <2>1, <1>1
<1>3. stack' # <<>>
  BY <1>1, <1>2
<1> QED BY <1>2, <1>3 DEF Walking

CallsShort ==
  \A i \in 1 .. Len(stack) : ~ TooLong(stack[i].uri) /\ ~ TooLong(stack[i].rods)

\* A walk begins.
LEMMA BeginsFits ==
  ASSUME NEW r \in Resource, NEW depth \in 0 .. Infinity,
         ~ TooLong(r.uri), ~ TooLong(r.rods),
         InLocation(r.uri), RodsPath(r.uri) = r.rods,
         op'.kind \in {"PROPFIND", "COPY"}, op'.depth = depth, op'.src.rods = r.rods,
         stack' = <<Frame(r, depth)>>, res' = r
  PROVE  /\ stack' \in Seq(Calls) /\ Len(stack') = 1 /\ stack'[1] = Frame(r, depth)
         /\ CallsShort' /\ StackFits' /\ Walking'
<1> DEFINE f == Frame(r, depth)
<1>1. /\ f \in Calls /\ f.uri = r.uri /\ f.rods = r.rods /\ f.depth = depth
      /\ f.phase = "visit" /\ f.left = {} /\ f.seen = {} /\ f.names = {}
  BY DEF Frame, Calls, Resource
<1>2. stack' = <<f>>
  OBVIOUS
<1> HIDE DEF f
<1>3. /\ stack' \in Seq(Calls) /\ Len(stack') = 1 /\ stack'[1] = f /\ stack' # <<>>
  BY <1>1, <1>2
<1>4. CallFits(f)
  BY <1>1 DEF CallFits
<1>5. LevelFits(f, 1, op')
  <2>1. /\ f.depth = op'.depth - (1 - 1)
        /\ Len(f.rods) = (1 - 1) + Len(op'.src.rods)
    <3>1. depth \in Int /\ Len(r.rods) \in Int
      BY BoundAssumption DEF Resource, Path
    <3> QED BY <3>1, <1>1
  <2> QED BY <2>1, <1>1, <1>4 DEF LevelFits
<1>6. \A i \in 1 .. Len(stack') : i = 1
  BY <1>3
<1>7. NestFits'
  BY <1>6 DEF NestFits
<1>8. \A i \in 1 .. Len(stack') : LevelFits(stack'[i], i, op')
  BY <1>3, <1>5, <1>6
<1>9. CallsShort'
  BY <1>1, <1>3, <1>6 DEF CallsShort
<1>10. Walking' /\ Top' = f
  BY <1>3 DEF Walking, Top
<1>11. StackFits'
  BY <1>1, <1>3, <1>7, <1>8, <1>10 DEF StackFits
<1> QED BY <1>2, <1>3, <1>9, <1>10, <1>11 DEF f

\* The innermost call goes on.
LEMMA TurnsFits ==
  ASSUME Fits, Walking, NEW f \in Calls, TopBecomes(f), CallFits(f),
         f.uri = Top.uri, f.rods = Top.rods, f.depth = Top.depth,
         f.phase \in {"lockdb", "locknull"} => op.kind = "PROPFIND",
         op' = op, res'.uri = res.uri, res'.rods = res.rods
  PROVE  CallsShort' /\ StackFits' /\ Top' = f
<1> DEFINE n == Len(stack)
<1>1. TypeOK /\ StackFits
  BY DEF Fits
<1>2. /\ n \in Nat /\ n >= 1 /\ Top = stack[n]
      /\ ~ TooLong(Top.uri) /\ ~ TooLong(Top.rods)
  BY <1>1, TopCall
<1>3. /\ Len(stack') = n /\ stack'[n] = f /\ Walking'
      /\ \A i \in 1 .. n - 1 : stack'[i] = stack[i]
  BY <1>1, TurnsCalls
<1>4. \A i \in 1 .. n : i \in 1 .. n - 1 \/ i = n
  BY <1>2
<1>5. Top' = f
  BY <1>3 DEF Top
<1>6. \A i \in 1 .. n : LevelFits(stack[i], i, op)
  BY <1>1 DEF StackFits
<1>7. \A i \in 1 .. n - 1 : LevelFits(stack'[i], i, op')
  <2>1. \A i \in 1 .. n - 1 : i \in 1 .. n
    BY <1>2
  <2> QED BY <2>1, <1>3, <1>6 DEF LevelFits
<1>8. LevelFits(f, n, op')
  <2>1. LevelFits(Top, n, op)
    BY <1>2, <1>6
  <2> QED BY <2>1 DEF LevelFits
<1>9. NestFits'
  <2> SUFFICES ASSUME NEW i \in 1 .. n, NEW j \in 1 .. n, i < j
               PROVE  /\ stack'[i].phase = "members"
                      /\ \E c \in stack'[i].seen : IsPrefixOf(c, stack'[j].rods)
    BY <1>3 DEF NestFits
  <2>1. i \in 1 .. n - 1 /\ stack'[i] = stack[i]
    BY <1>2, <1>3
  <2>2. /\ stack[i].phase = "members"
        /\ \E c \in stack[i].seen : IsPrefixOf(c, stack[j].rods)
    BY <1>1 DEF StackFits, NestFits
  <2>3. stack'[j].rods = stack[j].rods
    BY <1>2, <1>3, <1>4
  <2> QED BY <2>1, <2>2, <2>3
<1>10. CallsShort'
  <2>1. \A i \in 1 .. n : ~ TooLong(stack[i].uri) /\ ~ TooLong(stack[i].rods)
    BY <1>1 DEF TypeOK
  <2>2. \A i \in 1 .. n : /\ stack'[i].uri = stack[i].uri
                          /\ stack'[i].rods = stack[i].rods
    BY <1>2, <1>3, <1>4
  <2> QED BY <2>1, <2>2, <1>3 DEF CallsShort
<1>11. stack'[1].rods = stack[1].rods
  BY <1>2, <1>3, <1>4
<1>12. /\ op.kind \in {"PROPFIND", "COPY"} /\ stack[1].rods = op.src.rods
       /\ res.uri = Top.uri /\ res.rods = Top.rods
  BY <1>1 DEF StackFits
<1>13. \A i \in 1 .. n : LevelFits(stack'[i], i, op')
  BY <1>3, <1>4, <1>7, <1>8
<1> HIDE DEF n
<1>14. StackFits'
  <2>1. \A i \in 1 .. Len(stack') : LevelFits(stack'[i], i, op')
    BY <1>3, <1>13
  <2>2. /\ op'.kind \in {"PROPFIND", "COPY"} /\ stack'[1].rods = op'.src.rods
        /\ res'.uri = Top'.uri /\ res'.rods = Top'.rods
    BY <1>5, <1>11, <1>12
  <2> QED BY <1>9, <2>1, <2>2 DEF StackFits
<1> QED BY <1>5, <1>10, <1>14

\* The top call after it has called another for entry.
LEMMA ReadsFits ==
  ASSUME NEW f \in Calls, CallFits(f), f.phase = "members", NEW entry \in f.left
  PROVE  LET path == Append(f.rods, entry[1])
             g == Reads(f, entry, path)
         IN  /\ g \in Calls /\ CallFits(g) /\ path \in Path
             /\ g.phase = "members" /\ g.uri = f.uri /\ g.rods = f.rods
             /\ g.depth = f.depth /\ g.left = f.left \ {entry}
             /\ g.seen = f.seen \cup {path} /\ g.names = f.names
<1> DEFINE path == Append(f.rods, entry[1])
           g == Reads(f, entry, path)
<1>1. /\ f.rods \in Seq(Name) /\ entry \in Name \X BOOLEAN /\ entry[1] \in Name
      /\ f.left \in SUBSET (Name \X BOOLEAN)
  BY DEF Calls, Path
<1>2. /\ path \in Path /\ path # Empty /\ Front(path) = f.rods /\ Last(path) = entry[1]
  BY <1>1, AppendPrefix DEF Path, Empty
<1> HIDE DEF path
<1>3. /\ g \in Calls /\ g.phase = "members" /\ g.uri = f.uri /\ g.rods = f.rods
      /\ g.depth = f.depth /\ g.left = f.left \ {entry}
      /\ g.seen = f.seen \cup {path} /\ g.names = f.names
  BY <1>2 DEF Calls, Reads
<1> HIDE DEF g
<1>4. CallFits(g)
  <2>1. IsChild(f.rods, path)
    BY <1>2 DEF IsChild
  <2>2. /\ InLocation(f.uri) /\ RodsPath(f.uri) = f.rods
        /\ \A e, d \in f.left : e[1] = d[1] => e = d
        /\ \A e \in f.left : Append(f.rods, e[1]) \notin f.seen
        /\ \A c \in f.seen \cup f.names : IsChild(f.rods, c)
        /\ f.names = {} /\ f.depth # 0
    BY DEF CallFits
  <2>3. \A e \in g.left : Append(f.rods, e[1]) \notin g.seen
    <3> SUFFICES ASSUME NEW e \in f.left, e # entry
                 PROVE  Append(f.rods, e[1]) # path
      BY <1>3, <2>2
    <3>1. e[1] \in Name /\ e[1] # entry[1]
      BY <1>1, <2>2
    <3>2. Last(Append(f.rods, e[1])) = e[1]
      BY <3>1, <1>1, AppendPrefix
    <3> QED BY <3>1, <3>2, <1>2
  <2> QED BY <2>1, <2>2, <2>3, <1>3 DEF CallFits
<1> QED BY <1>2, <1>3, <1>4 DEF g, path

LEMMA FrameFits ==
  ASSUME NEW r \in Resource, NEW depth \in 0 .. Infinity,
         InLocation(r.uri), RodsPath(r.uri) = r.rods
  PROVE  LET f == Frame(r, depth)
         IN  /\ f \in Calls /\ CallFits(f) /\ f.uri = r.uri /\ f.rods = r.rods
             /\ f.depth = depth /\ f.phase = "visit"
             /\ f.left = {} /\ f.seen = {} /\ f.names = {}
BY DEF Frame, Calls, Resource, CallFits

\* The resource of a member.
MemberOf(r, entry) ==
  [uri |-> Join(r.uri, entry[1]), rods |-> Append(r.rods, entry[1]),
   exists |-> TRUE, collection |-> entry[2]]

LEMMA MemberOfFits ==
  ASSUME NEW r \in Resource, NEW entry \in Name \X BOOLEAN,
         InLocation(r.uri), RodsPath(r.uri) = r.rods
  PROVE  /\ MemberOf(r, entry) \in Resource
         /\ MemberOf(r, entry).rods = Append(r.rods, entry[1])
         /\ MemberOf(r, entry).uri = Join(r.uri, entry[1])
         /\ MemberOf(r, entry).exists /\ MemberOf(r, entry).collection = entry[2]
         /\ InLocation(MemberOf(r, entry).uri)
         /\ RodsPath(MemberOf(r, entry).uri) = MemberOf(r, entry).rods
         /\ Len(Join(r.uri, entry[1])) <= Len(Append(r.uri, entry[1]))
         /\ Len(Append(r.rods, entry[1])) = Len(r.rods) + 1
<1>1. entry[1] \in Name /\ entry[2] \in BOOLEAN /\ r.uri \in Uri /\ r.rods \in Seq(Name)
  BY DEF Resource, Path
<1>2. /\ Join(r.uri, entry[1]) \in Uri /\ InLocation(Join(r.uri, entry[1]))
      /\ RodsPath(Join(r.uri, entry[1])) = Append(r.rods, entry[1])
      /\ Len(Join(r.uri, entry[1])) <= Len(Append(r.uri, entry[1]))
  BY <1>1, JoinResolves
<1>3. Append(r.rods, entry[1]) \in Path /\ Len(Append(r.rods, entry[1])) = Len(r.rods) + 1
  BY <1>1, AppendPrefix DEF Path
<1> QED BY <1>1, <1>2, <1>3 DEF MemberOf, Resource

\* It calls another for a member.
LEMMA MemberFits ==
  ASSUME Fits, Walking, NEW entry \in Top.left, Member(entry)
  PROVE  /\ stack' \in Seq(Calls) /\ Len(stack') = Len(stack) + 1 /\ Walking'
         /\ \A i \in 1 .. Len(stack) - 1 : stack'[i] = stack[i]
         /\ stack'[Len(stack)] = Reads(Top, entry, Append(Top.rods, entry[1]))
         /\ stack'[Len(stack) + 1] = Frame(MemberOf(res, entry), Top.depth - 1)
         /\ Top' = Frame(MemberOf(res, entry), Top.depth - 1)
         /\ res' = MemberOf(res, entry) /\ res' \in Resource
         /\ CallsShort' /\ StackFits'
<1> DEFINE n == Len(stack)
           f == Reads(Top, entry, Append(Top.rods, entry[1]))
           r == MemberOf(res, entry)
           g == Frame(r, Top.depth - 1)
           path == Append(Top.rods, entry[1])
<1>1. TypeOK /\ StackFits /\ res \in Resource
  BY DEF Fits, TypeOK
<1>2. /\ n \in Nat /\ n >= 1 /\ Top = stack[n] /\ Top \in Calls
      /\ Top.phase = "members" /\ \A i \in 1 .. n : stack[i] \in Calls
  BY <1>1, TopCall DEF Member, Reading
<1>3. /\ op.kind \in {"PROPFIND", "COPY"} /\ stack[1].rods = op.src.rods
      /\ res.uri = Top.uri /\ res.rods = Top.rods
      /\ \A i \in 1 .. n : LevelFits(stack[i], i, op)
      /\ \A i, j \in 1 .. n : i < j =>
           /\ stack[i].phase = "members"
           /\ \E c \in stack[i].seen : IsPrefixOf(c, stack[j].rods)
  BY <1>1 DEF StackFits, NestFits
<1>4. LevelFits(Top, n, op) /\ CallFits(Top) /\ Top.depth # 0 /\ Top.depth \in 0 .. Infinity
  <2>1. LevelFits(Top, n, op)
    BY <1>2, <1>3
  <2> QED BY <2>1, <1>2 DEF LevelFits, CallFits, Calls
<1>5. /\ f \in Calls /\ CallFits(f) /\ path \in Path
      /\ f.phase = "members" /\ f.uri = Top.uri /\ f.rods = Top.rods
      /\ f.depth = Top.depth /\ f.seen = Top.seen \cup {path}
  BY <1>2, <1>4, ReadsFits
<1>6. /\ r \in Resource /\ r.rods = path /\ r.uri = Join(res.uri, entry[1])
      /\ InLocation(r.uri) /\ RodsPath(r.uri) = r.rods
      /\ Len(r.uri) <= Len(Append(res.uri, entry[1]))
      /\ Len(r.rods) = Len(Top.rods) + 1
  <2>1. entry \in Name \X BOOLEAN
    BY <1>2 DEF Calls
  <2>2. InLocation(res.uri) /\ RodsPath(res.uri) = res.rods
    BY <1>3, <1>4 DEF CallFits
  <2>3. /\ r \in Resource /\ r.rods = Append(res.rods, entry[1])
        /\ r.uri = Join(res.uri, entry[1])
        /\ InLocation(r.uri) /\ RodsPath(r.uri) = r.rods
        /\ Len(Join(res.uri, entry[1])) <= Len(Append(res.uri, entry[1]))
        /\ Len(Append(res.rods, entry[1])) = Len(res.rods) + 1
    BY <2>1, <2>2, <1>1, MemberOfFits
  <2> HIDE DEF r
  <2> QED BY <2>3, <1>3
<1>7. Top.depth - 1 \in 0 .. Infinity
  BY <1>4, BoundAssumption
<1>8. /\ g \in Calls /\ CallFits(g) /\ g.uri = r.uri /\ g.rods = r.rods
      /\ g.depth = Top.depth - 1 /\ g.phase = "visit"
  BY <1>6, <1>7, FrameFits
<1>9. stack' = Pushed(stack, f, g) /\ res' = r /\ op' = op
  <2>1. res' = r /\ op' = op
    BY DEF Member, MemberOf
  <2>2. stack' = Front(stack) \o
           <<[Top EXCEPT !.left = @ \ {entry}, !.seen = @ \cup {res'.rods}],
             Frame(res', Top.depth - 1)>>
    BY DEF Member, MemberDepth
  <2>3. res'.rods = path
    BY <2>1, <1>6
  <2> QED BY <2>1, <2>2, <2>3 DEF Reads, Pushed
<1>10. ~ TooLong(r.uri) /\ ~ TooLong(r.rods)
  <2>1. ~ TooLong(Append(res.uri, entry[1])) /\ ~ TooLong(path)
    BY <1>3 DEF Member, TooLongWith
  <2>2. Len(r.uri) \in Nat /\ Len(Append(res.uri, entry[1])) \in Nat
    <3>1. entry[1] \in Seq(Letter) /\ res.uri \in Seq(Seq(Letter))
      BY <1>1, <1>2, EmptyNoName DEF Calls, Resource, Uri
    <3> QED BY <3>1, <1>6, AppendProperties DEF Resource, Uri
  <2> QED BY <2>1, <2>2, <1>6, BoundAssumption DEF TooLong
<1> HIDE DEF f, g, r, path
<1>11. /\ stack' \in Seq(Calls) /\ Len(stack') = n + 1 /\ Walking'
       /\ stack'[n] = f /\ stack'[n + 1] = g
       /\ \A i \in 1 .. n - 1 : stack'[i] = stack[i]
  BY <1>1, <1>5, <1>8, <1>9, MemberCalls
<1> HIDE DEF n
<1>12. Top' = g
  BY <1>11 DEF Top
<1>13. \A i \in 1 .. n + 1 : i \in 1 .. n - 1 \/ i = n \/ i = n + 1
  BY <1>2
<1>14. \A i \in 1 .. n + 1 : LevelFits(stack'[i], i, op')
  <2>1. LevelFits(f, n, op)
    BY <1>4, <1>5 DEF LevelFits
  <2>2. LevelFits(g, n + 1, op)
    <3>1. Top.depth = op.depth - (n - 1) /\ Len(Top.rods) = (n - 1) + Len(op.src.rods)
      BY <1>4 DEF LevelFits
    <3>2. /\ op.depth \in Int /\ Len(op.src.rods) \in Int
      <4>1. op \in Requests
        BY <1>1, TopCall
      <4> QED BY <4>1, BoundAssumption DEF Requests, Depth, Resource, Path
    <3>3. /\ g.depth = op.depth - ((n + 1) - 1)
          /\ Len(g.rods) = ((n + 1) - 1) + Len(op.src.rods)
      BY <3>1, <3>2, <1>2, <1>6, <1>8
    <3>4. ~ (g.phase \in {"lockdb", "locknull"})
      BY <1>8
    <3> QED BY <3>3, <3>4, <1>8 DEF LevelFits
  <2>3. \A i \in 1 .. n - 1 : LevelFits(stack[i], i, op)
    BY <1>2, <1>3
  <2> QED BY <2>1, <2>2, <2>3, <1>9, <1>11, <1>13
<1>15. NestFits'
  <2> SUFFICES ASSUME NEW i \in 1 .. n + 1, NEW j \in 1 .. n + 1, i < j
               PROVE  /\ stack'[i].phase = "members"
                      /\ \E c \in stack'[i].seen : IsPrefixOf(c, stack'[j].rods)
    BY <1>11 DEF NestFits
  <2>1. i \in 1 .. n /\ stack'[i].phase = "members"
    <3>1. i \in 1 .. n
      BY <1>2
    <3>2. CASE i = n
      BY <3>2, <1>2, <1>5, <1>11
    <3>3. CASE i # n
      <4>1. n \in 1 .. n /\ i < n /\ i \in 1 .. n - 1
        BY <3>1, <3>3, <1>2
      <4> QED BY <4>1, <3>1, <1>3, <1>11
    <3> QED BY <3>1, <3>2, <3>3
  <2>2. CASE j # n + 1
    <3>1. j \in 1 .. n /\ i \in 1 .. n - 1
      BY <2>2, <1>2
    <3>2. \E c \in stack[i].seen : IsPrefixOf(c, stack[j].rods)
      BY <3>1, <2>1, <1>3
    <3>3. stack'[j].rods = stack[j].rods
      BY <3>1, <1>2, <1>5, <1>11, <1>13
    <3> QED BY <3>1, <3>2, <3>3, <2>1, <1>11
  <2>3. CASE j = n + 1 /\ i = n
    <3>1. path \in f.seen
      BY <1>5
    <3>2. IsPrefixOf(path, g.rods)
      BY <1>5, <1>6, <1>8, PrefixSelf DEF Path
    <3> QED BY <3>1, <3>2, <2>1, <2>3, <1>11
  <2>4. CASE j = n + 1 /\ i # n
    <3>1. i \in 1 .. n - 1 /\ n \in 1 .. n /\ i < n
      BY <2>1, <2>4, <1>2
    <3>2. PICK c \in stack[i].seen : IsPrefixOf(c, stack[n].rods)
      BY <3>1, <2>1, <1>3
    <3>3. c \in Seq(Name) /\ Top.rods \in Seq(Name) /\ path \in Seq(Name)
      <4>1. stack[i] \in Calls
        BY <2>1, <1>2
      <4> QED BY <4>1, <1>2, <1>5, <3>2 DEF Calls, Path
    <3>4. IsPrefixOf(Top.rods, path)
      <4>1. entry[1] \in Name
        BY <1>2 DEF Calls
      <4> QED BY <4>1, <3>3, AppendPrefix DEF path
    <3>5. IsPrefixOf(c, path)
      BY <3>2, <3>3, <3>4, <1>2, PrefixTransitive
    <3>6. stack'[i] = stack[i] /\ stack'[j] = g
      BY <3>1, <2>4, <1>11
    <3> QED BY <3>2, <3>5, <3>6, <2>1, <1>6, <1>8
  <2> QED BY <2>1, <2>2, <2>3, <2>4
<1>16. CallsShort'
  <2>1. \A i \in 1 .. n : ~ TooLong(stack[i].uri) /\ ~ TooLong(stack[i].rods)
    BY <1>1 DEF TypeOK, n
  <2>2. \A i \in 1 .. n : /\ stack'[i].uri = stack[i].uri
                          /\ stack'[i].rods = stack[i].rods
    BY <1>2, <1>5, <1>11, <1>13
  <2>3. \A i \in 1 .. n + 1 : ~ TooLong(stack'[i].uri) /\ ~ TooLong(stack'[i].rods)
    <3>1. \A i \in 1 .. n + 1 : i \in 1 .. n \/ i = n + 1
      BY <1>2
    <3> QED BY <3>1, <2>1, <2>2, <1>8, <1>10, <1>11
  <2> QED BY <2>3, <1>11 DEF CallsShort
<1>17. stack'[1].rods = op'.src.rods
  <2>1. 1 \in 1 .. n - 1 \/ 1 = n
    BY <1>2
  <2> QED BY <2>1, <1>2, <1>3, <1>5, <1>9, <1>11
<1>18. StackFits'
  <2>1. \A i \in 1 .. Len(stack') : LevelFits(stack'[i], i, op')
    BY <1>11, <1>14
  <2>2. /\ op'.kind \in {"PROPFIND", "COPY"}
        /\ res'.uri = Top'.uri /\ res'.rods = Top'.rods
    BY <1>3, <1>8, <1>9, <1>12
  <2> QED BY <2>1, <2>2, <1>15, <1>17 DEF StackFits
<1>19. res' = r /\ res' \in Resource
  BY <1>6, <1>9
<1> QED BY <1>11, <1>12, <1>16, <1>18, <1>19 DEF n, f, g, r

LEMMA NoCallsFit ==
  ASSUME stack' = <<>>
  PROVE  stack' \in Seq(Calls) /\ CallsShort' /\ StackFits' /\ ~ Walking'
<1>1. Len(stack') = 0 /\ stack' \in Seq(Calls)
  OBVIOUS
<1>2. \A i \in 1 .. Len(stack') : FALSE
  BY <1>1
<1>3. CallsShort' /\ NestFits' /\ ~ Walking'
  BY <1>2 DEF CallsShort, NestFits, Walking
<1> QED BY <1>1, <1>2, <1>3 DEF StackFits

LEMMA EndedFits ==
  ASSUME op \in Requests, NEW reply \in {"ok", "error", "fault"}
  PROVE  /\ Ended(reply) \in Requests /\ Ended(reply) # None
         /\ Ended(reply).kind = op.kind /\ Ended(reply).src = op.src
         /\ Ended(reply).dst = op.dst /\ Ended(reply).depth = op.depth
         /\ Ended(reply).phase = "done" /\ Ended(reply).reply = reply
BY DEF Ended, Requests, None

LEMMA PhaseFits ==
  ASSUME op \in Requests,
         NEW phase \in {"remove", "parent", "create", "rename", "walk", "done"},
         Phase(phase)
  PROVE  /\ op' \in Requests /\ op' # None
         /\ op'.kind = op.kind /\ op'.src = op.src
         /\ op'.dst = op.dst /\ op'.depth = op.depth
         /\ op'.phase = phase
BY DEF Phase, Requests, None

\* The innermost call returns.
LEMMA ReturnsFits ==
  ASSUME Fits, Walking, NEW reply \in {"ok", "error"}, Returns(reply)
  PROVE  /\ stack' \in Seq(Calls) /\ Len(stack') = Len(stack) - 1
         /\ \A i \in 1 .. Len(stack) - 1 : stack'[i] = stack[i]
         /\ res' \in Resource /\ op' \in Requests /\ op' # None
         /\ op'.kind = op.kind /\ op'.src = op.src
         /\ op'.dst = op.dst /\ op'.depth = op.depth
         /\ op'.phase = (IF Walking' THEN "walk" ELSE "done")
         /\ Len(stack) = 1 => stack' = <<>> /\ op'.reply = reply /\ res' = res
         /\ Walking' => /\ Len(stack) - 1 \in 1 .. Len(stack) /\ op' = op
                        /\ Top' = stack[Len(stack) - 1] /\ Top'.phase = "members"
         /\ CallsShort' /\ StackFits'
<1> DEFINE n == Len(stack)
<1>1. TypeOK /\ StackFits /\ res \in Resource
  BY DEF Fits, TypeOK
<1>2. /\ n \in Nat /\ n >= 1 /\ op \in Requests /\ op # None /\ op.phase = "walk"
      /\ \A i \in 1 .. n : stack[i] \in Calls
  BY <1>1, TopCall
<1>3. /\ stack' \in Seq(Calls) /\ Len(stack') = n - 1
      /\ \A i \in 1 .. n - 1 : stack'[i] = stack[i]
      /\ n = 1 => op' = Ended(reply) /\ stack' = <<>> /\ res' = res
      /\ n # 1 => Walking' /\ op' = op /\ res' = CutBack(stack[n - 1])
  BY <1>1, ReturnsCalls
<1>4. /\ op.kind \in {"PROPFIND", "COPY"} /\ stack[1].rods = op.src.rods
      /\ \A i \in 1 .. n : LevelFits(stack[i], i, op)
      /\ \A i, j \in 1 .. n : i < j =>
           /\ stack[i].phase = "members"
           /\ \E c \in stack[i].seen : IsPrefixOf(c, stack[j].rods)
      /\ \A i \in 1 .. n : ~ TooLong(stack[i].uri) /\ ~ TooLong(stack[i].rods)
  BY <1>1 DEF StackFits, NestFits, TypeOK
<1> HIDE DEF n
<1>5. CASE n = 1
  <2>1. op' = Ended(reply) /\ stack' = <<>> /\ res' = res
    BY <1>3, <1>5
  <2>2. CallsShort' /\ StackFits' /\ ~ Walking'
    BY <2>1, NoCallsFit
  <2>3. /\ op' \in Requests /\ op' # None
        /\ op'.kind = op.kind /\ op'.src = op.src
        /\ op'.dst = op.dst /\ op'.depth = op.depth
        /\ op'.phase = "done" /\ op'.reply = reply
    BY <2>1, <1>2, EndedFits
  <2> QED BY <2>1, <2>2, <2>3, <1>1, <1>3 DEF n
<1>6. CASE n # 1
  <2>1. Walking' /\ op' = op /\ res' = CutBack(stack[n - 1])
    BY <1>3, <1>6
  <2>2. n - 1 \in 1 .. n /\ n \in 1 .. n /\ n - 1 < n
    BY <1>2, <1>6
  <2>3. Top' = stack[n - 1]
    <3>1. n - 1 \in 1 .. n - 1
      BY <2>2
    <3> QED BY <3>1, <1>3 DEF Top
  <2>4. /\ stack[n - 1] \in Calls /\ stack[n - 1].phase = "members"
    BY <2>2, <1>2, <1>4
  <2>5. /\ res' \in Resource
        /\ res'.uri = stack[n - 1].uri /\ res'.rods = stack[n - 1].rods
    BY <2>1, <2>4, <1>1, CutBackFits
  <2>6. \A i \in 1 .. n - 1 : i \in 1 .. n
    BY <1>2
  <2>7. CallsShort'
    BY <2>6, <1>3, <1>4 DEF CallsShort
  <2>8. NestFits'
    BY <2>6, <1>3, <1>4 DEF NestFits
  <2>9. \A i \in 1 .. Len(stack') : LevelFits(stack'[i], i, op')
    BY <2>1, <2>6, <1>3, <1>4
  <2>10. stack'[1].rods = op'.src.rods
    <3>1. 1 \in 1 .. n - 1
      BY <2>2
    <3> QED BY <3>1, <2>1, <1>3, <1>4
  <2>11. StackFits'
    BY <2>1, <2>3, <2>5, <2>8, <2>9, <2>10, <1>4 DEF StackFits
  <2>12. n - 1 \in 1 .. n /\ stack' # <<>>
    BY <2>1, <2>2 DEF Walking
  <2> QED BY <2>1, <2>3, <2>4, <2>5, <2>7, <2>11, <2>12, <1>2, <1>3, <1>6 DEF n
<1> QED BY <1>5, <1>6

-----------------------------------------------------------------------------
(* What the steps do to the tree.                                          *)

TreeFits(t) == DOMAIN t \subseteq Path /\ Closed(t)

LEMMA FrontOfPath ==
  ASSUME NEW p \in Path, p # Empty
  PROVE  /\ Front(p) \in Path /\ IsPrefixOf(Front(p), p) /\ Front(p) # p
         /\ Last(p) \in Name /\ p = Append(Front(p), Last(p))
<1>1. p \in Seq(Name) /\ p # <<>> /\ Len(p) \in Nat
  BY DEF Path, Empty
<1>2. /\ Front(p) \in Seq(Name) /\ IsPrefixOf(Front(p), p) /\ Last(p) \in Name
      /\ p = Append(Front(p), Last(p)) /\ Len(Front(p)) = Len(p) - 1
  BY <1>1, FrontPrefix
<1>3. Front(p) # p
  BY <1>1, <1>2
<1> QED BY <1>2, <1>3 DEF Path

LEMMA RemovesBelow ==
  ASSUME TreeFits(tree), NEW path \in Path, tree' = Without(Below(path))
  PROVE  /\ DOMAIN tree' = {p \in DOMAIN tree : ~ IsPrefixOf(path, p)}
         /\ \A p \in DOMAIN tree' : tree'[p] = tree[p]
         /\ TreeFits(tree')
<1>1. /\ DOMAIN tree' = {p \in DOMAIN tree : ~ IsPrefixOf(path, p)}
      /\ \A p \in DOMAIN tree' : tree'[p] = tree[p]
  BY DEF Without, Below
<1>2. ASSUME NEW p \in DOMAIN tree', p # Empty
      PROVE  Front(p) \in DOMAIN tree' /\ tree'[Front(p)] = Collection
  <2>1. p \in DOMAIN tree /\ p \in Path /\ ~ IsPrefixOf(path, p)
    BY <1>1 DEF TreeFits
  <2>2. Front(p) \in DOMAIN tree /\ tree[Front(p)] = Collection
    BY <2>1, <1>2 DEF TreeFits, Closed
  <2>3. ~ IsPrefixOf(path, Front(p))
    BY <2>1, <1>2, FrontOfPath, PrefixTransitive DEF Path
  <2> QED BY <2>2, <2>3, <1>1
<1> QED BY <1>1, <1>2 DEF TreeFits, Closed

LEMMA PutsThere ==
  ASSUME TreeFits(tree), NEW path \in Path, NEW node,
         HasParent(path), ~ IsCollection(path), tree' = With(path, node)
  PROVE  /\ DOMAIN tree' = DOMAIN tree \cup {path} /\ tree'[path] = node
         /\ \A p \in DOMAIN tree : p # path => tree'[p] = tree[p]
         /\ TreeFits(tree')
<1>1. /\ DOMAIN tree' = DOMAIN tree \cup {path} /\ tree'[path] = node
      /\ \A p \in DOMAIN tree : p # path => tree'[p] = tree[p]
  BY DEF With
<1>2. /\ path # Empty /\ Front(path) \in DOMAIN tree /\ tree[Front(path)] = Collection
  BY DEF HasParent, IsCollection, There
<1>3. ASSUME NEW p \in DOMAIN tree', p # Empty
      PROVE  Front(p) \in DOMAIN tree' /\ tree'[Front(p)] = Collection
  <2>1. CASE p = path
    <3>1. Front(path) # path
      BY <1>2, FrontOfPath
    <3> QED BY <2>1, <3>1, <1>1, <1>2
  <2>2. CASE p # path
    <3>1. Front(p) \in DOMAIN tree /\ tree[Front(p)] = Collection
      BY <2>2, <1>1, <1>3 DEF TreeFits, Closed
    <3>2. Front(p) # path
      BY <3>1 DEF IsCollection, There
    <3> QED BY <3>1, <3>2, <1>1
  <2> QED BY <2>1, <2>2
<1> QED BY <1>1, <1>3 DEF TreeFits, Closed

\* p, which lies below src, as what lies at the same place below dst.
Rebase(p, src, dst) == dst \o SubSeq(p, Len(src) + 1, Len(p))

Rebased(q, p, src, dst) ==
  /\ Len(q) + Len(src) = Len(p) + Len(dst)
  /\ \A i \in 1 .. Len(dst) : q[i] = dst[i]
  /\ \A i \in 1 .. Len(p) - Len(src) : q[Len(dst) + i] = p[Len(src) + i]

LEMMA RebaseMeans ==
  ASSUME NEW S, NEW src \in Seq(S), NEW dst \in Seq(S), NEW p \in Seq(S),
         IsPrefixOf(src, p)
  PROVE  /\ Rebase(p, src, dst) \in Seq(S) /\ IsPrefixOf(dst, Rebase(p, src, dst))
         /\ Rebased(Rebase(p, src, dst), p, src, dst)
<1> DEFINE rest == SubSeq(p, Len(src) + 1, Len(p))
           q == Rebase(p, src, dst)
<1>1. /\ Len(src) \in Nat /\ Len(dst) \in Nat /\ Len(p) \in Nat /\ Len(src) <= Len(p)
  BY DEF IsPrefixOf
<1>2. /\ rest \in Seq(S) /\ Len(rest) = Len(p) - Len(src)
      /\ \A i \in 1 .. Len(p) - Len(src) : rest[i] = p[Len(src) + i]
  <2>1. \A i \in Len(src) + 1 .. Len(p) : p[i] \in S
    BY <1>1
  <2>2. Len(src) + 1 \in Int /\ Len(p) \in Int
    BY <1>1
  <2>3. /\ rest \in Seq(S)
        /\ Len(rest) = IF Len(src) + 1 <= Len(p) THEN Len(p) - (Len(src) + 1) + 1 ELSE 0
        /\ \A i \in 1 .. Len(p) - (Len(src) + 1) + 1 : rest[i] = p[(Len(src) + 1 + i) - 1]
    BY <2>1, <2>2, SubSeqProperties
  <2> HIDE DEF rest
  <2>4. Len(rest) = Len(p) - Len(src)
    BY <2>3, <1>1
  <2>5. \A i \in 1 .. Len(p) - Len(src) : rest[i] = p[Len(src) + i]
    <3> SUFFICES ASSUME NEW i \in 1 .. Len(p) - Len(src)
                 PROVE  rest[i] = p[Len(src) + i]
      OBVIOUS
    <3>1. /\ i \in 1 .. Len(p) - (Len(src) + 1) + 1
          /\ (Len(src) + 1 + i) - 1 = Len(src) + i
      BY <1>1
    <3>2. rest[i] = p[(Len(src) + 1 + i) - 1]
      BY <2>3, <3>1
    <3> QED BY <3>1, <3>2
  <2> QED BY <2>3, <2>4, <2>5
<1>3. q = dst \o rest
  BY DEF Rebase
<1> HIDE DEF rest, q
<1>4. /\ q \in Seq(S) /\ Len(q) = Len(dst) + Len(rest) /\ IsPrefixOf(dst, q)
      /\ \A i \in 1 .. Len(dst) + Len(rest) :
           q[i] = IF i <= Len(dst) THEN dst[i] ELSE rest[i - Len(dst)]
  BY <1>2, <1>3, ConcatProperties, ConcatPrefix
<1>5. \A i \in 1 .. Len(dst) : q[i] = dst[i]
  BY <1>1, <1>2, <1>4
<1>6. \A i \in 1 .. Len(p) - Len(src) : q[Len(dst) + i] = p[Len(src) + i]
  <2> SUFFICES ASSUME NEW i \in 1 .. Len(p) - Len(src)
               PROVE  q[Len(dst) + i] = p[Len(src) + i]
    OBVIOUS
  <2>1. /\ Len(dst) + i \in 1 .. Len(dst) + Len(rest) /\ ~ (Len(dst) + i <= Len(dst))
        /\ (Len(dst) + i) - Len(dst) = i
    BY <1>1, <1>2
  <2>2. q[Len(dst) + i] = rest[i]
    BY <2>1, <1>4
  <2> QED BY <2>2, <1>2
<1>7. Len(q) + Len(src) = Len(p) + Len(dst)
  BY <1>1, <1>2, <1>4
<1>8. Rebased(q, p, src, dst)
  BY <1>5, <1>6, <1>7 DEF Rebased
<1> QED BY <1>4, <1>8 DEF q

LEMMA RebaseSelf ==
  ASSUME NEW S, NEW src \in Seq(S), NEW dst \in Seq(S)
  PROVE  Rebase(src, src, dst) = dst
<1> DEFINE q == Rebase(src, src, dst)
<1>1. /\ q \in Seq(S) /\ Len(q) + Len(src) = Len(src) + Len(dst) /\ IsPrefixOf(dst, q)
  BY PrefixSelf, RebaseMeans DEF Rebased
<1> HIDE DEF q
<1>2. Len(q) <= Len(dst)
  BY <1>1
<1>3. q = dst
  BY <1>1, <1>2, PrefixOfEqualLength
<1> QED BY <1>3 DEF q

LEMMA RebaseInjective ==
  ASSUME NEW S, NEW src \in Seq(S), NEW dst \in Seq(S),
         NEW p \in Seq(S), IsPrefixOf(src, p), NEW r \in Seq(S), IsPrefixOf(src, r)
  PROVE  Rebase(p, src, dst) = Rebase(r, src, dst) => p = r
<1>0. \A x \in Seq(S) : IsPrefixOf(src, x) =>
        Rebase(x, src, dst) \in Seq(S) /\ Rebased(Rebase(x, src, dst), x, src, dst)
  BY RebaseMeans
<1> DEFINE q == Rebase(p, src, dst)
<1>1. /\ Len(q) + Len(src) = Len(p) + Len(dst)
      /\ \A i \in 1 .. Len(p) - Len(src) : q[Len(dst) + i] = p[Len(src) + i]
  BY <1>0 DEF Rebased
<1> SUFFICES ASSUME q = Rebase(r, src, dst) PROVE p = r
  OBVIOUS
<1>2. /\ Len(q) + Len(src) = Len(r) + Len(dst)
      /\ \A i \in 1 .. Len(r) - Len(src) : q[Len(dst) + i] = r[Len(src) + i]
  BY <1>0 DEF Rebased
<1> HIDE DEF q
<1>3. /\ Len(src) \in Nat /\ Len(dst) \in Nat /\ Len(p) \in Nat /\ Len(r) \in Nat
      /\ \A i \in 1 .. Len(src) : src[i] = p[i] /\ src[i] = r[i]
  BY PrefixMeans
<1>4. Len(p) = Len(r)
  BY <1>1, <1>2, <1>3
<1>5. \A i \in 1 .. Len(p) : p[i] = r[i]
  <2> SUFFICES ASSUME NEW i \in 1 .. Len(p) PROVE p[i] = r[i]
    OBVIOUS
  <2>1. CASE i <= Len(src)
    BY <2>1, <1>3
  <2>2. CASE ~ (i <= Len(src))
    <3>1. /\ i - Len(src) \in 1 .. Len(p) - Len(src)
          /\ Len(src) + (i - Len(src)) = i
      BY <2>2, <1>3
    <3>2. p[Len(src) + (i - Len(src))] = r[Len(src) + (i - Len(src))]
      BY <3>1, <1>1, <1>2, <1>4
    <3> QED BY <3>1, <3>2
  <2> QED BY <2>1, <2>2
<1> QED BY <1>4, <1>5, SeqEqual

LEMMA RebaseFront ==
  ASSUME NEW S, NEW src \in Seq(S), NEW dst \in Seq(S),
         NEW p \in Seq(S), IsPrefixOf(src, p), p # src
  PROVE  /\ p # <<>> /\ Front(p) \in Seq(S) /\ IsPrefixOf(src, Front(p))
         /\ Rebase(p, src, dst) # <<>>
         /\ Front(Rebase(p, src, dst)) = Rebase(Front(p), src, dst)
         /\ Rebase(p, src, dst) = Append(Rebase(Front(p), src, dst), Last(p))
<1>0. \A x \in Seq(S) : IsPrefixOf(src, x) =>
        Rebase(x, src, dst) \in Seq(S) /\ Rebased(Rebase(x, src, dst), x, src, dst)
  BY RebaseMeans
<1> DEFINE q == Rebase(p, src, dst)
           r == Rebase(Front(p), src, dst)
<1>1. /\ p # <<>> /\ IsPrefixOf(src, Front(p)) /\ Front(p) \in Seq(S) /\ Last(p) \in S
      /\ Len(Front(p)) = Len(p) - 1 /\ \A i \in 1 .. Len(p) - 1 : Front(p)[i] = p[i]
  BY PrefixOfFront, FrontElements, FrontPrefix
<1>2. /\ Len(src) \in Nat /\ Len(dst) \in Nat /\ Len(p) \in Nat /\ Len(src) < Len(p)
      /\ Last(p) = p[Len(p)]
  BY BelowMember, PrefixLen DEF Last
<1>3. /\ q \in Seq(S) /\ Len(q) + Len(src) = Len(p) + Len(dst)
      /\ \A i \in 1 .. Len(dst) : q[i] = dst[i]
      /\ \A i \in 1 .. Len(p) - Len(src) : q[Len(dst) + i] = p[Len(src) + i]
  BY <1>0 DEF Rebased
<1>4. /\ r \in Seq(S) /\ Len(r) + Len(src) = Len(Front(p)) + Len(dst)
      /\ \A i \in 1 .. Len(dst) : r[i] = dst[i]
      /\ \A i \in 1 .. Len(Front(p)) - Len(src) : r[Len(dst) + i] = Front(p)[Len(src) + i]
  BY <1>0, <1>1 DEF Rebased
<1> HIDE DEF q, r
<1> DEFINE t == Append(r, Last(p))
<1>5. /\ t \in Seq(S) /\ t # <<>> /\ Len(t) = Len(r) + 1 /\ t[Len(r) + 1] = Last(p)
      /\ Front(t) = r /\ \A i \in 1 .. Len(r) : t[i] = r[i]
  <2>1. r \in Seq(S) /\ Last(p) \in S
    BY <1>1, <1>4
  <2> QED BY <2>1, AppendProperties, AppendPrefix
<1> HIDE DEF t
<1>6. Len(q) = Len(t) /\ Len(q) = Len(r) + 1 /\ Len(r) \in Nat
  BY <1>1, <1>2, <1>3, <1>4, <1>5
<1>7. \A i \in 1 .. Len(q) : q[i] = t[i]
  <2> SUFFICES ASSUME NEW i \in 1 .. Len(q) PROVE q[i] = t[i]
    OBVIOUS
  <2>1. CASE i <= Len(dst)
    <3>1. i \in 1 .. Len(dst) /\ i \in 1 .. Len(r)
      BY <2>1, <1>1, <1>2, <1>4
    <3> QED BY <3>1, <1>3, <1>4, <1>5
  <2>2. CASE Len(dst) < i /\ i < Len(q)
    <3> DEFINE k == i - Len(dst)
    <3>1. /\ k \in 1 .. Len(p) - Len(src) /\ k \in 1 .. Len(Front(p)) - Len(src)
          /\ Len(dst) + k = i /\ i \in 1 .. Len(r) /\ Len(src) + k \in 1 .. Len(p) - 1
      <4>0. \A a, b, c, j \in Nat : b < c /\ a < j /\ j < a + (c - b) =>
              /\ j - a \in 1 .. c - b /\ j - a \in 1 .. (c - 1) - b /\ a + (j - a) = j
              /\ j \in 1 .. a + ((c - 1) - b) /\ b + (j - a) \in 1 .. c - 1
        OBVIOUS
      <4>1. i \in Nat /\ Len(dst) < i /\ i < Len(dst) + (Len(p) - Len(src))
        BY <2>2, <1>2, <1>3, <1>6
      <4>2. /\ i - Len(dst) \in 1 .. Len(p) - Len(src)
            /\ i - Len(dst) \in 1 .. (Len(p) - 1) - Len(src)
            /\ Len(dst) + (i - Len(dst)) = i
            /\ i \in 1 .. Len(dst) + ((Len(p) - 1) - Len(src))
            /\ Len(src) + (i - Len(dst)) \in 1 .. Len(p) - 1
        BY <4>0, <4>1, <1>2
      <4> QED BY <4>2, <1>1, <1>4
    <3> HIDE DEF k
    <3>2. q[Len(dst) + k] = p[Len(src) + k] /\ r[Len(dst) + k] = Front(p)[Len(src) + k]
      BY <3>1, <1>3, <1>4
    <3>3. Front(p)[Len(src) + k] = p[Len(src) + k]
      BY <3>1, <1>1
    <3> QED BY <3>1, <3>2, <3>3, <1>5
  <2>3. CASE i = Len(q)
    <3> DEFINE k == Len(p) - Len(src)
    <3>1. k \in 1 .. Len(p) - Len(src) /\ Len(dst) + k = Len(q) /\ Len(src) + k = Len(p)
      BY <1>2, <1>3
    <3> HIDE DEF k
    <3>2. q[Len(dst) + k] = p[Len(src) + k]
      BY <3>1, <1>3
    <3> QED BY <3>1, <3>2, <2>3, <1>2, <1>5, <1>6
  <2>4. i <= Len(dst) \/ (Len(dst) < i /\ i < Len(q)) \/ i = Len(q)
    BY <1>2, <1>6
  <2> QED BY <2>1, <2>2, <2>3, <2>4
<1>8. q = t
  BY <1>3, <1>5, <1>6, <1>7, SeqEqual
<1>9. Front(q) = r /\ q # <<>>
  BY <1>5, <1>6, <1>8
<1> QED BY <1>1, <1>8, <1>9 DEF q, r, t

\* What Rename makes of a tree.
Renamed(t, src, dst) ==
  LET from == {p \in DOMAIN t : IsPrefixOf(src, p)}
      rest == DOMAIN t \ from
  IN  [p \in rest \cup {Rebase(q, src, dst) : q \in from} |->
         IF p \in rest THEN t[p]
         ELSE t[CHOOSE q \in from : Rebase(q, src, dst) = p]]

LEMMA RenamedMeans ==
  ASSUME NEW t, TreeFits(t), NEW src \in Path, NEW dst \in Path,
         dst \notin DOMAIN t, dst # Empty, Front(dst) \in DOMAIN t,
         t[Front(dst)] = Collection, ~ IsPrefixOf(src, dst)
  PROVE  /\ \A p \in DOMAIN t : ~ IsPrefixOf(src, p) =>
              /\ p \in DOMAIN Renamed(t, src, dst)
              /\ Renamed(t, src, dst)[p] = t[p] /\ ~ IsPrefixOf(dst, p)
         /\ \A q \in DOMAIN t : IsPrefixOf(src, q) =>
              /\ Rebase(q, src, dst) \in DOMAIN Renamed(t, src, dst)
              /\ Renamed(t, src, dst)[Rebase(q, src, dst)] = t[q]
              /\ IsPrefixOf(dst, Rebase(q, src, dst))
         /\ \A p \in DOMAIN Renamed(t, src, dst) :
              \/ p \in DOMAIN t /\ ~ IsPrefixOf(src, p)
              \/ \E q \in DOMAIN t : IsPrefixOf(src, q) /\ p = Rebase(q, src, dst)
         /\ TreeFits(Renamed(t, src, dst))
<1> DEFINE s == Renamed(t, src, dst)
           from == {p \in DOMAIN t : IsPrefixOf(src, p)}
           rest == DOMAIN t \ from
           Moved(q) == Rebase(q, src, dst)
<1>1. /\ DOMAIN t \subseteq Seq(Name) /\ src \in Seq(Name) /\ dst \in Seq(Name)
      /\ Path = Seq(Name)
  BY DEF TreeFits, Path
<1>2. \A p \in DOMAIN t : ~ IsPrefixOf(dst, p)
  <2>1. \A p \in DOMAIN t : dst # p
    OBVIOUS
  <2>2. DOMAIN t \subseteq Path /\ Closed(t)
    BY DEF TreeFits
  <2> QED BY <2>1, <2>2, AboveIsCollection
<1>3. \A q \in from : /\ Moved(q) \in Seq(Name) /\ IsPrefixOf(dst, Moved(q))
                      /\ q \in DOMAIN t /\ IsPrefixOf(src, q) /\ q \in Seq(Name)
  BY <1>1, RebaseMeans
<1>4. \A q, r \in from : Moved(q) = Moved(r) => q = r
  BY <1>1, RebaseInjective
<1>5. \A q \in from : Moved(q) \notin rest
  BY <1>2, <1>3
<1>6. s = [p \in rest \cup {Moved(q) : q \in from} |->
             IF p \in rest THEN t[p] ELSE t[CHOOSE q \in from : Moved(q) = p]]
  BY DEF Renamed
<1>7. /\ DOMAIN s = rest \cup {Moved(q) : q \in from}
      /\ \A p \in rest : s[p] = t[p]
  <2> HIDE DEF s, rest, from, Moved
  <2> QED BY <1>6
<1>8. \A q \in from : s[Moved(q)] = t[q]
  <2> SUFFICES ASSUME NEW q \in from PROVE s[Moved(q)] = t[q]
    OBVIOUS
  <2> HIDE DEF s, rest, from, Moved
  <2>1. s[Moved(q)] = t[CHOOSE r \in from : Moved(r) = Moved(q)]
    BY <1>5, <1>6
  <2>2. (CHOOSE r \in from : Moved(r) = Moved(q)) = q
    BY <1>4
  <2> QED BY <2>1, <2>2
<1>9. \A p \in rest : ~ IsPrefixOf(src, p) /\ p \in DOMAIN t
  OBVIOUS
<1>10. ASSUME NEW p \in DOMAIN s, p # Empty
       PROVE  Front(p) \in DOMAIN s /\ s[Front(p)] = Collection
  <2>1. CASE p \in rest
    <3>1. Front(p) \in DOMAIN t /\ t[Front(p)] = Collection
      BY <2>1, <1>9, <1>10 DEF TreeFits, Closed
    <3>2. ~ IsPrefixOf(src, Front(p))
      <4>1. p \in Path
        BY <2>1, <1>1, <1>9
      <4> QED BY <4>1, <2>1, <1>1, <1>9, <1>10, FrontOfPath, PrefixTransitive
    <3>3. Front(p) \in rest
      BY <3>1, <3>2
    <3> HIDE DEF s, rest
    <3> QED BY <3>1, <3>3, <1>7
  <2>2. CASE p \notin rest
    <3>1. PICK q \in from : p = Moved(q)
      <4> HIDE DEF s, rest, from, Moved
      <4> QED BY <2>2, <1>7, <1>10
    <3>2. CASE q = src
      <4>1. p = dst
        BY <3>1, <3>2, <1>1, RebaseSelf
      <4>2. ~ IsPrefixOf(src, Front(dst))
        BY <1>1, FrontOfPath, PrefixTransitive
      <4>3. Front(dst) \in rest
        BY <4>2
      <4> HIDE DEF s, rest
      <4> QED BY <4>1, <4>3, <1>7
    <3>3. CASE q # src
      <4>1. /\ q # <<>> /\ IsPrefixOf(src, Front(q)) /\ Front(Moved(q)) = Moved(Front(q))
        BY <3>3, <1>1, <1>3, RebaseFront
      <4>2. Front(q) \in DOMAIN t /\ t[Front(q)] = Collection
        BY <4>1, <1>3 DEF TreeFits, Closed, Empty
      <4>3. Front(q) \in from
        BY <4>1, <4>2
      <4> HIDE DEF s, rest, from, Moved
      <4> QED BY <4>1, <4>2, <4>3, <3>1, <1>7, <1>8
    <3> QED BY <3>2, <3>3
  <2> QED BY <2>1, <2>2
<1>11. DOMAIN s \subseteq Path
  <2>1. rest \subseteq Path
    BY <1>1
  <2> HIDE DEF s, rest, from, Moved
  <2> QED BY <2>1, <1>1, <1>3, <1>7
<1>12. TreeFits(s)
  <2> HIDE DEF s
  <2> QED BY <1>10, <1>11 DEF TreeFits, Closed
<1>13. \A p \in rest : s[p] = t[p] /\ ~ IsPrefixOf(dst, p)
  BY <1>2, <1>7, <1>9
<1>14. \A q \in from : s[Moved(q)] = t[q] /\ IsPrefixOf(dst, Moved(q))
  BY <1>3, <1>8
<1>15. \A p \in DOMAIN t : ~ IsPrefixOf(src, p) => p \in DOMAIN s /\ p \in rest
  <2> HIDE DEF s
  <2> QED BY <1>7
<1>16. \A q \in DOMAIN t : IsPrefixOf(src, q) => q \in from /\ Moved(q) \in DOMAIN s
  <2> HIDE DEF s, rest, Moved
  <2> QED BY <1>7
<1>17. \A p \in DOMAIN s : \/ p \in DOMAIN t /\ ~ IsPrefixOf(src, p)
                           \/ \E q \in DOMAIN t : IsPrefixOf(src, q) /\ p = Moved(q)
  <2> HIDE DEF s, rest, Moved
  <2> QED BY <1>7, <1>9
<1> HIDE DEF s, rest, from
<1> QED BY <1>12, <1>13, <1>14, <1>15, <1>16, <1>17 DEF s

-----------------------------------------------------------------------------
(* What a request looks up.                                                *)

LEMMA LookupFits ==
  ASSUME NEW uri \in Uri, Resolves(uri)
  PROVE  /\ Lookup(uri) \in Resource /\ Lookup(uri).uri = uri
         /\ Lookup(uri).rods = RodsPath(uri)
         /\ Lookup(uri).exists = There(RodsPath(uri))
         /\ Lookup(uri).collection = IsCollection(RodsPath(uri))
         /\ InLocation(uri) /\ RodsPath(uri) \in Path
         /\ IsPrefixOf(Root, RodsPath(uri)) /\ ~ TooLong(RodsPath(uri))
<1>1. /\ InLocation(uri) /\ RodsPath(uri) \in Path
      /\ IsPrefixOf(Root, RodsPath(uri)) /\ ~ TooLong(RodsPath(uri))
  BY RodsPathIsPath DEF Resolves
<1>2. There(RodsPath(uri)) \in BOOLEAN /\ IsCollection(RodsPath(uri)) \in BOOLEAN
  BY DEF There, IsCollection
<1>3. /\ Lookup(uri) \in Resource /\ Lookup(uri).uri = uri
      /\ Lookup(uri).rods = RodsPath(uri)
      /\ Lookup(uri).exists = There(RodsPath(uri))
      /\ Lookup(uri).collection = IsCollection(RodsPath(uri))
  BY <1>1, <1>2 DEF Lookup, Resource
<1> QED BY <1>1, <1>3

\* The resource that a walk starts from is the one that was looked up.
LEMMA StartFits ==
  ASSUME NEW r \in Resource, RodsPath(r.uri) = r.rods
  PROVE  [r EXCEPT !.rods = RodsPath(r.uri)] = r
BY DEF Resource

-----------------------------------------------------------------------------
(* The types, and the calls.                                               *)

ReportedFits ==
  reported \in [BagToSet(reported) -> Nat] /\ BagToSet(reported) \subseteq Resource

LEMMA TypesFit ==
  ASSUME Fits
  PROVE  /\ TreeFits(tree) /\ locked \subseteq Path /\ ReportedFits
         /\ stack \in Seq(Calls) /\ CallsShort /\ res \in Resource /\ past \in Pasts
         /\ op # None => /\ op \in Requests /\ LookedUp(op)
                         /\ op.phase = "walk" <=> Walking
                         /\ past.tree \in Trees
         /\ op = None => /\ stack = <<>> /\ tree \in Trees
                         /\ past = Nothing /\ reported = EmptyBag
         /\ Walking => op # None
BY DEF Fits, TypeOK, RequestFits, TreeFits, ReportedFits, CallsShort, Walking

LEMMA FitsAgain ==
  ASSUME Fits, op # None,
         TreeFits(tree'), locked' \subseteq Path, ReportedFits',
         past' \in Pasts, past'.tree = past.tree,
         op' \in Requests, op'.src = op.src, op'.dst = op.dst,
         op'.phase = "walk" <=> Walking',
         stack' \in Seq(Calls), CallsShort', StackFits', res' \in Resource
  PROVE  Fits'
<1>1. op' # None
  BY DEF Requests, None
<1>2. LookedUp(op')
  BY TypesFit DEF LookedUp
<1>3. past'.tree \in Trees
  BY TypesFit
<1>4. RequestFits'
  BY <1>1, <1>2, <1>3 DEF RequestFits
<1>5. TypeOK'
  BY <1>1 DEF TypeOK, TreeFits, ReportedFits, CallsShort, Walking
<1> QED BY <1>4, <1>5 DEF Fits

LEMMA InitFits == Init => Fits
<1> SUFFICES ASSUME Init PROVE Fits
  OBVIOUS
<1>1. /\ tree \in Trees /\ locked \in Locks /\ op = None /\ stack = <<>>
      /\ res = NoResource /\ reported = EmptyBag /\ past = Nothing
  BY DEF Init
<1>2. TreeFits(tree) /\ locked \subseteq Path
  BY <1>1, TreeAssumption, NameAssumption DEF TreeFits
<1>3. res \in Resource
  <2>1. Empty \in Seq(Letter) /\ Empty \in Path
    BY DEF Empty, Path
  <2>2. <<Empty>> \in Uri
    BY <2>1 DEF Uri
  <2> QED BY <1>1, <2>1, <2>2 DEF NoResource, Resource
<1>4. ReportedFits
  BY <1>1 DEF ReportedFits, EmptyBag, SetToBag, BagToSet
<1>5. past \in Pasts
  BY <1>1, BoundAssumption DEF Nothing, Pasts
<1>6. Len(stack) = 0 /\ stack \in Seq(Calls)
  BY <1>1
<1>7. StackFits
  BY <1>1, <1>6 DEF StackFits, NestFits, Walking
<1>8. TypeOK
  BY <1>1, <1>2, <1>3, <1>4, <1>5, <1>6 DEF TypeOK, TreeFits, ReportedFits
<1>9. RequestFits
  BY <1>1 DEF RequestFits
<1> QED BY <1>7, <1>8, <1>9 DEF Fits

LEMMA AnswerFits ==
  ASSUME Fits, Answer
  PROVE  Fits'
<1>1. /\ tree' \in Trees /\ locked' \in Locks /\ op' = None /\ res' = NoResource
      /\ reported' = EmptyBag /\ past' = Nothing /\ stack' = stack
      /\ op # None /\ op.phase = "done"
  BY DEF Answer
<1>2. stack' = <<>>
  BY <1>1, TypesFit DEF Walking
<1>3. Init'
  BY <1>1, <1>2 DEF Init
<1> QED BY <1>3, InitFits, PTL

\* A request comes.
LEMMA BeginFits ==
  ASSUME Fits,
         NEW kind \in {"PROPFIND", "COPY", "MOVE", "DELETE", "MKCOL"},
         NEW phase \in {"remove", "parent", "create", "rename", "walk"},
         NEW src \in Resource, NEW dst \in Resource, NEW depth \in Depth,
         InLocation(src.uri), RodsPath(src.uri) = src.rods, ~ TooLong(src.rods),
         IsPrefixOf(Root, src.rods), IsPrefixOf(Root, dst.rods),
         Begin(kind, phase, src, dst, depth),
         IF phase = "walk" THEN StartWalk(src, depth) /\ kind \in {"PROPFIND", "COPY"}
         ELSE UNCHANGED <<stack, res>>
  PROVE  /\ Fits' /\ op = None /\ stack = <<>>
         /\ op' \in Requests /\ op' # None
         /\ op'.kind = kind /\ op'.phase = phase /\ op'.src = src /\ op'.dst = dst
         /\ op'.depth = depth
         /\ past' = Looked /\ tree' = tree /\ locked' = locked /\ reported' = reported
         /\ phase = "walk" => /\ stack' = <<Frame(src, depth)>> /\ Len(stack') = 1
                              /\ Top' = Frame(src, depth) /\ res' = src
         /\ phase # "walk" => stack' = <<>>
<1>1. /\ op = None /\ past' = Looked
      /\ tree' = tree /\ locked' = locked /\ reported' = reported
      /\ op' = [kind |-> kind, phase |-> phase, src |-> src, dst |-> dst,
                depth |-> depth, reply |-> "none"]
  BY DEF Begin
<1>2. /\ op' \in Requests /\ op' # None
      /\ op'.kind = kind /\ op'.phase = phase /\ op'.src = src /\ op'.dst = dst
      /\ op'.depth = depth
  BY <1>1 DEF Requests, None
<1>3. /\ stack = <<>> /\ tree \in Trees /\ TreeFits(tree) /\ locked \subseteq Path
      /\ ReportedFits /\ res \in Resource
  BY <1>1, TypesFit
<1>4. past' \in Pasts /\ past'.tree = tree
  <2>1. {<<p, IsCollection(p)>> : p \in DOMAIN tree} \subseteq Path \X BOOLEAN
    <3>1. \A p : IsCollection(p) \in BOOLEAN
      BY DEF IsCollection
    <3> QED BY <3>1, <1>3 DEF TreeFits
  <2> QED BY <2>1, <1>1, <1>3, BoundAssumption DEF Looked, Pasts
<1>5. /\ stack' \in Seq(Calls) /\ CallsShort' /\ StackFits' /\ res' \in Resource
      /\ phase = "walk" <=> Walking'
      /\ phase = "walk" => /\ stack' = <<Frame(src, depth)>> /\ Len(stack') = 1
                           /\ Top' = Frame(src, depth) /\ res' = src
      /\ phase # "walk" => stack' = <<>>
  <2>1. CASE phase # "walk"
    <3>1. stack' = <<>> /\ res' = res
      BY <2>1, <1>3
    <3> QED BY <3>1, <2>1, <1>3, NoCallsFit
  <2>2. CASE phase = "walk"
    <3>1. ~ TooLong(src.uri) /\ res' = src /\ stack' = <<Frame(res', depth)>>
      BY <2>2, StartFits DEF StartWalk
    <3>2. stack' = <<Frame(src, depth)>>
      BY <3>1
    <3>3. depth \in 0 .. Infinity
      BY BoundAssumption DEF Depth
    <3>4. /\ stack' \in Seq(Calls) /\ Len(stack') = 1 /\ stack'[1] = Frame(src, depth)
          /\ CallsShort' /\ StackFits' /\ Walking'
      BY <2>2, <3>1, <3>2, <3>3, <1>2, BeginsFits
    <3>5. Top' = Frame(src, depth)
      BY <3>4 DEF Top
    <3> QED BY <2>2, <3>1, <3>2, <3>4, <3>5
  <2> QED BY <2>1, <2>2
<1>6. LookedUp(op')
  BY <1>2 DEF LookedUp
<1>7. RequestFits'
  BY <1>2, <1>3, <1>4, <1>5, <1>6 DEF RequestFits
<1>8. TypeOK'
  BY <1>1, <1>2, <1>3, <1>4, <1>5 DEF TypeOK, TreeFits, ReportedFits, CallsShort, Walking
<1>9. Fits'
  BY <1>5, <1>7, <1>8 DEF Fits
<1> QED BY <1>1, <1>2, <1>3, <1>5, <1>9

\* A request comes: what its variables are then.
Starts(kind, phase, src, dst, depth) ==
  /\ op = None /\ stack = <<>> /\ op' \in Requests /\ op' # None
  /\ op'.kind = kind /\ op'.phase = phase /\ op'.src = src /\ op'.dst = dst
  /\ op'.depth = depth
  /\ past' = Looked /\ tree' = tree /\ locked' = locked /\ reported' = reported
  /\ phase = "walk" => /\ stack' = <<Frame(src, depth)>> /\ Len(stack') = 1
                       /\ Top' = Frame(src, depth) /\ res' = src
  /\ phase # "walk" => stack' = <<>>

LEMMA PropfindFits ==
  ASSUME Fits, NEW uri \in PropfindUri, NEW depth \in Depth, Propfind(uri, depth)
  PROVE  Fits' /\ Starts("PROPFIND", "walk", Lookup(uri), Lookup(uri), depth)
<1>1. /\ uri \in Uri /\ Resolves(uri)
      /\ Begin("PROPFIND", "walk", Lookup(uri), Lookup(uri), depth)
      /\ StartWalk(Lookup(uri), depth)
  BY NameAssumption DEF Propfind
<1>2. /\ Lookup(uri) \in Resource /\ InLocation(Lookup(uri).uri)
      /\ RodsPath(Lookup(uri).uri) = Lookup(uri).rods /\ ~ TooLong(Lookup(uri).rods)
      /\ IsPrefixOf(Root, Lookup(uri).rods)
  BY <1>1, LookupFits
<1> QED BY <1>1, <1>2, BeginFits DEF Starts

LEMMA CopyFitsRequest ==
  ASSUME Fits, NEW uri \in SourceUri, NEW target \in TargetUri,
         NEW overwrite \in BOOLEAN, NEW depth \in {0, Infinity},
         Copy(uri, target, depth, overwrite)
  PROVE  /\ Fits'
         /\ Starts("COPY", IF Lookup(target).exists THEN "remove" ELSE "parent",
                   Lookup(uri), Lookup(target), depth)
<1> DEFINE phase == IF Lookup(target).exists THEN "remove" ELSE "parent"
<1>1. /\ uri \in Uri /\ Resolves(uri) /\ target \in Uri /\ Resolves(target)
      /\ depth \in Depth /\ phase \in {"remove", "parent"}
      /\ Begin("COPY", phase, Lookup(uri), Lookup(target), depth)
      /\ UNCHANGED <<stack, res>>
  BY NameAssumption DEF Copy, Depth
<1> HIDE DEF phase
<1>2. /\ Lookup(uri) \in Resource /\ InLocation(Lookup(uri).uri)
      /\ RodsPath(Lookup(uri).uri) = Lookup(uri).rods /\ ~ TooLong(Lookup(uri).rods)
      /\ IsPrefixOf(Root, Lookup(uri).rods)
  BY <1>1, LookupFits
<1>3. Lookup(target) \in Resource /\ IsPrefixOf(Root, Lookup(target).rods)
  BY <1>1, LookupFits
<1>4. Fits' /\ Starts("COPY", phase, Lookup(uri), Lookup(target), depth)
  BY <1>1, <1>2, <1>3, BeginFits DEF Starts
<1> QED BY <1>4 DEF phase

LEMMA MoveFits ==
  ASSUME Fits, NEW uri \in SourceUri, NEW target \in TargetUri,
         NEW overwrite \in BOOLEAN, Move(uri, target, overwrite)
  PROVE  /\ Fits'
         /\ Starts("MOVE", IF Lookup(target).exists THEN "remove" ELSE "rename",
                   Lookup(uri), Lookup(target), Infinity)
<1> DEFINE phase == IF Lookup(target).exists THEN "remove" ELSE "rename"
<1>1. /\ uri \in Uri /\ Resolves(uri) /\ target \in Uri /\ Resolves(target)
      /\ Infinity \in Depth /\ phase \in {"remove", "rename"}
      /\ Begin("MOVE", phase, Lookup(uri), Lookup(target), Infinity)
      /\ UNCHANGED <<stack, res>>
  BY NameAssumption DEF Move, Depth
<1> HIDE DEF phase
<1>2. /\ Lookup(uri) \in Resource /\ InLocation(Lookup(uri).uri)
      /\ RodsPath(Lookup(uri).uri) = Lookup(uri).rods /\ ~ TooLong(Lookup(uri).rods)
      /\ IsPrefixOf(Root, Lookup(uri).rods)
  BY <1>1, LookupFits
<1>3. Lookup(target) \in Resource /\ IsPrefixOf(Root, Lookup(target).rods)
  BY <1>1, LookupFits
<1>4. Fits' /\ Starts("MOVE", phase, Lookup(uri), Lookup(target), Infinity)
  BY <1>1, <1>2, <1>3, BeginFits DEF Starts
<1> QED BY <1>4 DEF phase

LEMMA DeleteFits ==
  ASSUME Fits, NEW uri \in SourceUri, Delete(uri)
  PROVE  Fits' /\ Starts("DELETE", "remove", Lookup(uri), Lookup(uri), Infinity)
<1>1. /\ uri \in Uri /\ Resolves(uri) /\ Infinity \in Depth
      /\ Begin("DELETE", "remove", Lookup(uri), Lookup(uri), Infinity)
      /\ UNCHANGED <<stack, res>>
  BY NameAssumption DEF Delete, Depth
<1>2. /\ Lookup(uri) \in Resource /\ InLocation(Lookup(uri).uri)
      /\ RodsPath(Lookup(uri).uri) = Lookup(uri).rods /\ ~ TooLong(Lookup(uri).rods)
      /\ IsPrefixOf(Root, Lookup(uri).rods)
  BY <1>1, LookupFits
<1> QED BY <1>1, <1>2, BeginFits DEF Starts

LEMMA MkcolFits ==
  ASSUME Fits, NEW uri \in TargetUri, Mkcol(uri)
  PROVE  Fits' /\ Starts("MKCOL", "parent", Lookup(uri), Lookup(uri), 0)
<1>1. /\ uri \in Uri /\ Resolves(uri) /\ 0 \in Depth
      /\ Begin("MKCOL", "parent", Lookup(uri), Lookup(uri), 0)
      /\ UNCHANGED <<stack, res>>
  BY NameAssumption DEF Mkcol, Depth
<1>2. /\ Lookup(uri) \in Resource /\ InLocation(Lookup(uri).uri)
      /\ RodsPath(Lookup(uri).uri) = Lookup(uri).rods /\ ~ TooLong(Lookup(uri).rods)
      /\ IsPrefixOf(Root, Lookup(uri).rods)
  BY <1>1, LookupFits
<1> QED BY <1>1, <1>2, BeginFits DEF Starts

\* A step of a request that is not walking: nothing but the tree and its phase
\* changes.
Steps(phase) ==
  /\ op # None /\ op.phase # "walk" /\ stack = <<>>
  /\ op' \in Requests /\ op' # None /\ op'.phase = phase
  /\ op'.kind = op.kind /\ op'.src = op.src /\ op'.dst = op.dst
  /\ op'.depth = op.depth
  /\ locked' = locked /\ reported' = reported
  /\ phase # "walk" => stack' = <<>> /\ res' = res

LEMMA StepsFits ==
  ASSUME Fits, NEW phase, phase # "walk", Steps(phase),
         TreeFits(tree'), past' \in Pasts, past'.tree = past.tree
  PROVE  Fits'
<1>1. stack' = <<>> /\ res' = res /\ op'.phase # "walk"
  BY DEF Steps
<1>2. stack' \in Seq(Calls) /\ CallsShort' /\ StackFits' /\ ~ Walking'
  BY <1>1, NoCallsFit
<1>3. locked' \subseteq Path /\ ReportedFits' /\ res' \in Resource
  BY <1>1, TypesFit DEF Steps, ReportedFits
<1> QED BY <1>1, <1>2, <1>3, FitsAgain DEF Steps

LEMMA CalmFits ==
  ASSUME past \in Pasts, past' = [past EXCEPT !.calm = FALSE]
  PROVE  /\ past' \in Pasts /\ ~ past'.calm /\ past'.others = past.others
         /\ past'.tree = past.tree /\ past'.there = past.there
         /\ past'.locked = past.locked
BY DEF Pasts

LEMMA GivesFits ==
  ASSUME Fits, op # None, NEW phase, phase # "walk",
         NEW reply \in {"ok", "error", "fault"}, Gives(phase, reply)
  PROVE  /\ Fits' /\ Steps("done") /\ tree' = tree
         /\ ~ past'.calm /\ past'.others = past.others /\ past'.tree = past.tree
         /\ past'.there = past.there /\ past'.locked = past.locked
<1>1. /\ op.phase # "walk" /\ op' = Ended(reply) /\ past' = [past EXCEPT !.calm = FALSE]
      /\ tree' = tree /\ locked' = locked /\ stack' = stack /\ res' = res
      /\ reported' = reported
  BY DEF Gives, Done
<1>2. /\ TreeFits(tree) /\ past \in Pasts /\ op \in Requests /\ stack = <<>>
  BY <1>1, TypesFit DEF Walking
<1>3. /\ past' \in Pasts /\ ~ past'.calm /\ past'.others = past.others
      /\ past'.tree = past.tree /\ past'.there = past.there
      /\ past'.locked = past.locked
  BY <1>1, <1>2, CalmFits
<1>4. /\ op' \in Requests /\ op' # None
      /\ op'.kind = op.kind /\ op'.src = op.src
      /\ op'.dst = op.dst /\ op'.depth = op.depth /\ op'.phase = "done"
  BY <1>1, <1>2, EndedFits
<1>5. Steps("done")
  BY <1>1, <1>2, <1>4 DEF Steps
<1> QED BY <1>1, <1>2, <1>3, <1>5, StepsFits

LEMMA KindIsRequest ==
  ASSUME Fits, op.kind \in {"PROPFIND", "COPY", "MOVE", "DELETE", "MKCOL"}
  PROVE  op # None
BY DEF None

LEMMA RemoveFits ==
  ASSUME Fits, Remove
  PROVE  /\ Fits' /\ op # None /\ op.phase = "remove" /\ past' = past
         /\ Steps(IF op.kind = "DELETE" THEN "done"
                  ELSE IF op.kind = "COPY" THEN "parent" ELSE "rename")
         /\ DOMAIN tree' = {p \in DOMAIN tree : ~ IsPrefixOf(op.dst.rods, p)}
         /\ \A p \in DOMAIN tree' : tree'[p] = tree[p]
<1>1. /\ op.kind # "none" /\ op.phase = "remove" /\ tree' = Without(Below(op.dst.rods))
      /\ locked' = locked /\ stack' = stack /\ res' = res
      /\ reported' = reported /\ past' = past
      /\ IF op.kind = "DELETE" THEN op' = Ended("ok")
         ELSE Phase(IF op.kind = "COPY" THEN "parent" ELSE "rename")
  BY DEF Remove, Done
<1>2. op # None
  BY <1>1 DEF None
<1>3. /\ TreeFits(tree) /\ past \in Pasts /\ op \in Requests /\ stack = <<>>
      /\ op.dst.rods \in Path
  BY <1>1, <1>2, TypesFit DEF Walking, Requests, Resource
<1>4. /\ DOMAIN tree' = {p \in DOMAIN tree : ~ IsPrefixOf(op.dst.rods, p)}
      /\ \A p \in DOMAIN tree' : tree'[p] = tree[p]
      /\ TreeFits(tree')
  BY <1>1, <1>3, RemovesBelow
<1> DEFINE phase == IF op.kind = "DELETE" THEN "done"
                    ELSE IF op.kind = "COPY" THEN "parent" ELSE "rename"
<1>5. /\ op' \in Requests /\ op' # None
      /\ op'.kind = op.kind /\ op'.src = op.src
      /\ op'.dst = op.dst /\ op'.depth = op.depth /\ op'.phase = phase
  <2>1. CASE op.kind = "DELETE"
    BY <2>1, <1>1, <1>3, EndedFits
  <2>2. CASE op.kind # "DELETE"
    <3>1. Phase(phase) /\ phase \in {"parent", "rename"}
      BY <2>2, <1>1
    <3> HIDE DEF phase
    <3> QED BY <3>1, <1>3, PhaseFits
  <2> QED BY <2>1, <2>2
<1>6. phase # "walk"
  OBVIOUS
<1> HIDE DEF phase
<1>7. Steps(phase)
  BY <1>1, <1>2, <1>3, <1>5 DEF Steps
<1>8. Fits'
  BY <1>1, <1>3, <1>4, <1>6, <1>7, StepsFits
<1> QED BY <1>1, <1>2, <1>4, <1>7, <1>8 DEF phase

LEMMA RenameFits ==
  ASSUME Fits, Rename
  PROVE  /\ Fits' /\ op # None /\ op.phase = "rename" /\ op.kind = "MOVE"
         /\ past' = past /\ Steps("done")
         /\ tree' = Renamed(tree, op.src.rods, op.dst.rods)
         /\ op.src.rods \in Path /\ op.dst.rods \in Path /\ TreeFits(tree)
         /\ op.dst.rods \notin DOMAIN tree /\ op.dst.rods # Empty
         /\ Front(op.dst.rods) \in DOMAIN tree
         /\ tree[Front(op.dst.rods)] = Collection
         /\ ~ IsPrefixOf(op.src.rods, op.dst.rods)
<1>1. /\ op.kind = "MOVE" /\ op.phase = "rename" /\ past' = past
      /\ locked' = locked /\ stack' = stack /\ res' = res /\ reported' = reported
      /\ op' = Ended("ok")
      /\ op.dst.rods \notin DOMAIN tree /\ op.dst.rods # Empty
      /\ Front(op.dst.rods) \in DOMAIN tree /\ tree[Front(op.dst.rods)] = Collection
      /\ ~ IsPrefixOf(op.src.rods, op.dst.rods)
  BY DEF Rename, Done, HasParent, IsCollection, There
<1>2. op # None
  BY <1>1, KindIsRequest
<1>3. /\ TreeFits(tree) /\ past \in Pasts /\ op \in Requests /\ stack = <<>>
      /\ op.src.rods \in Path /\ op.dst.rods \in Path
  BY <1>1, <1>2, TypesFit DEF Walking, Requests, Resource
<1>4. tree' = Renamed(tree, op.src.rods, op.dst.rods)
  BY DEF Rename, Renamed, Rebase, Below
<1>5. TreeFits(tree')
  BY <1>1, <1>3, <1>4, RenamedMeans
<1>6. /\ op' \in Requests /\ op' # None
      /\ op'.kind = op.kind /\ op'.src = op.src
      /\ op'.dst = op.dst /\ op'.depth = op.depth /\ op'.phase = "done"
  BY <1>1, <1>3, EndedFits
<1>7. Steps("done")
  BY <1>1, <1>2, <1>3, <1>6 DEF Steps
<1>8. Fits'
  BY <1>1, <1>3, <1>5, <1>7, StepsFits
<1> QED BY <1>1, <1>2, <1>3, <1>4, <1>7, <1>8

LEMMA CreateFits ==
  ASSUME Fits, Create
  PROVE  /\ Fits' /\ op # None /\ op.phase = "create" /\ op.kind = "MKCOL"
         /\ past' = past /\ Steps("done")
         /\ DOMAIN tree' = DOMAIN tree \cup {op.dst.rods}
         /\ \A p \in DOMAIN tree : p # op.dst.rods => tree'[p] = tree[p]
<1>1. /\ op.kind = "MKCOL" /\ op.phase = "create" /\ past' = past
      /\ locked' = locked /\ stack' = stack /\ res' = res /\ reported' = reported
      /\ op' = Ended("ok") /\ tree' = With(op.dst.rods, Collection)
      /\ ~ IsCollection(op.dst.rods) /\ HasParent(op.dst.rods)
  BY DEF Create, Done, IsCollection
<1>2. op # None
  BY <1>1, KindIsRequest
<1>3. /\ TreeFits(tree) /\ past \in Pasts /\ op \in Requests /\ stack = <<>>
      /\ op.dst.rods \in Path
  BY <1>1, <1>2, TypesFit DEF Walking, Requests, Resource
<1>4. /\ DOMAIN tree' = DOMAIN tree \cup {op.dst.rods}
      /\ \A p \in DOMAIN tree : p # op.dst.rods => tree'[p] = tree[p]
      /\ TreeFits(tree')
  BY <1>1, <1>3, PutsThere
<1>5. /\ op' \in Requests /\ op' # None
      /\ op'.kind = op.kind /\ op'.src = op.src
      /\ op'.dst = op.dst /\ op'.depth = op.depth /\ op'.phase = "done"
  BY <1>1, <1>3, EndedFits
<1>6. Steps("done")
  BY <1>1, <1>2, <1>3, <1>5 DEF Steps
<1>7. Fits'
  BY <1>1, <1>3, <1>4, <1>6, StepsFits
<1> QED BY <1>1, <1>2, <1>4, <1>6, <1>7

LEMMA GetParentFits ==
  ASSUME Fits, GetParent
  PROVE  /\ Fits' /\ op # None /\ op.phase = "parent" /\ op.kind \in {"COPY", "MKCOL"}
         /\ tree' = tree /\ past' = past
         /\ Steps(IF op.kind = "COPY" THEN "walk" ELSE "create")
         /\ op.kind = "COPY" => /\ stack' = <<Frame(op.src, op.depth)>>
                                /\ Len(stack') = 1 /\ res' = op.src
                                /\ Walking' /\ Top' = Frame(op.src, op.depth)
<1>1. /\ op.kind \in {"COPY", "MKCOL"} /\ op.phase = "parent"
      /\ tree' = tree /\ locked' = locked /\ reported' = reported /\ past' = past
      /\ IF op.kind = "COPY" THEN Phase("walk") /\ StartWalk(op.src, op.depth)
         ELSE Phase("create") /\ stack' = stack /\ res' = res
  BY DEF GetParent
<1>2. op # None
  BY <1>1, KindIsRequest
<1>3. /\ TreeFits(tree) /\ past \in Pasts /\ op \in Requests /\ stack = <<>>
      /\ locked \subseteq Path /\ ReportedFits /\ LookedUp(op)
      /\ op.src \in Resource /\ op.depth \in Depth
  BY <1>1, <1>2, TypesFit DEF Walking, Requests
<1>4. CASE op.kind = "MKCOL"
  <2>1. /\ op' \in Requests /\ op' # None /\ op'.phase = "create"
        /\ op'.kind = op.kind /\ op'.src = op.src
        /\ op'.dst = op.dst /\ op'.depth = op.depth
    BY <1>1, <1>3, <1>4, PhaseFits
  <2>2. Steps("create")
    BY <2>1, <1>1, <1>2, <1>3, <1>4 DEF Steps
  <2> QED BY <2>2, <1>1, <1>2, <1>3, <1>4, StepsFits
<1>5. CASE op.kind = "COPY"
  <2>1. /\ op' \in Requests /\ op' # None /\ op'.phase = "walk"
        /\ op'.kind = op.kind /\ op'.src = op.src
        /\ op'.dst = op.dst /\ op'.depth = op.depth
    BY <1>1, <1>3, <1>5, PhaseFits
  <2>2. Steps("walk")
    BY <2>1, <1>1, <1>2, <1>3 DEF Steps
  <2>3. /\ ~ TooLong(op.src.uri) /\ res' = op.src /\ stack' = <<Frame(op.src, op.depth)>>
    <3>1. /\ ~ TooLong(op.src.uri) /\ res' = [op.src EXCEPT !.rods = RodsPath(op.src.uri)]
          /\ stack' = <<Frame(res', op.depth)>>
      BY <1>1, <1>5 DEF StartWalk
    <3>2. res' = op.src
      BY <3>1, <1>3, StartFits DEF LookedUp
    <3> QED BY <3>1, <3>2
  <2>4. op.depth \in 0 .. Infinity
    BY <1>3, BoundAssumption DEF Depth
  <2>5. /\ stack' \in Seq(Calls) /\ Len(stack') = 1
        /\ stack'[1] = Frame(op.src, op.depth)
        /\ CallsShort' /\ StackFits' /\ Walking'
    BY <2>1, <2>3, <2>4, <1>3, <1>5, BeginsFits DEF LookedUp
  <2>6. Top' = Frame(op.src, op.depth)
    BY <2>5 DEF Top
  <2>7. locked' \subseteq Path /\ ReportedFits' /\ res' \in Resource /\ TreeFits(tree')
    BY <2>3, <1>1, <1>3 DEF ReportedFits
  <2>8. Fits'
    BY <2>1, <2>5, <2>7, <1>1, <1>2, <1>3, FitsAgain
  <2> QED BY <2>2, <2>3, <2>5, <2>6, <2>8, <1>1, <1>2, <1>5
<1> QED BY <1>1, <1>4, <1>5

\* A step in which the innermost call goes on as f.
TurnsTo(f) ==
  /\ Walking /\ Walking' /\ Len(stack') = Len(stack) /\ stack'[Len(stack)] = f
  /\ Top' = f /\ \A i \in 1 .. Len(stack) - 1 : stack'[i] = stack[i]
  /\ op' = op /\ res'.uri = res.uri /\ res'.rods = res.rods

LEMMA TurnsToFits ==
  ASSUME Fits, Walking, NEW f \in Calls, TopBecomes(f), CallFits(f),
         f.uri = Top.uri, f.rods = Top.rods, f.depth = Top.depth,
         f.phase \in {"lockdb", "locknull"} => op.kind = "PROPFIND",
         op' = op, res'.uri = res.uri, res'.rods = res.rods, res' \in Resource,
         TreeFits(tree'), locked' \subseteq Path, ReportedFits',
         past' \in Pasts, past'.tree = past.tree
  PROVE  Fits' /\ TurnsTo(f)
<1>1. TypeOK /\ op \in Requests /\ op # None /\ op.phase = "walk"
  BY TypesFit, TopCall DEF Fits
<1>2. /\ stack' \in Seq(Calls) /\ Len(stack') = Len(stack) /\ Walking'
      /\ stack'[Len(stack)] = f
      /\ \A i \in 1 .. Len(stack) - 1 : stack'[i] = stack[i]
  BY <1>1, TurnsCalls
<1>3. CallsShort' /\ StackFits' /\ Top' = f
  BY TurnsFits
<1>4. Fits'
  BY <1>1, <1>2, <1>3, FitsAgain
<1> QED BY <1>2, <1>3, <1>4 DEF TurnsTo

\* A step in which it returns.
GoesBack(reply) ==
  /\ Walking /\ Len(stack') = Len(stack) - 1
  /\ \A i \in 1 .. Len(stack) - 1 : stack'[i] = stack[i]
  /\ op' # None /\ op'.kind = op.kind /\ op'.src = op.src
  /\ op'.dst = op.dst /\ op'.depth = op.depth
  /\ op'.phase = (IF Walking' THEN "walk" ELSE "done")
  /\ Len(stack) = 1 => stack' = <<>> /\ op'.reply = reply
  /\ Walking' => /\ Len(stack) - 1 \in 1 .. Len(stack) /\ op' = op
                 /\ Top' = stack[Len(stack) - 1] /\ Top'.phase = "members"

LEMMA GoesBackFits ==
  ASSUME Fits, Walking, NEW reply \in {"ok", "error"}, Returns(reply),
         TreeFits(tree'), locked' \subseteq Path, ReportedFits',
         past' \in Pasts, past'.tree = past.tree
  PROVE  Fits' /\ GoesBack(reply)
<1>1. op # None
  BY TypesFit
<1>2. /\ stack' \in Seq(Calls) /\ Len(stack') = Len(stack) - 1
      /\ \A i \in 1 .. Len(stack) - 1 : stack'[i] = stack[i]
      /\ res' \in Resource /\ op' \in Requests /\ op' # None
      /\ op'.kind = op.kind /\ op'.src = op.src
      /\ op'.dst = op.dst /\ op'.depth = op.depth
      /\ op'.phase = (IF Walking' THEN "walk" ELSE "done")
      /\ Len(stack) = 1 => stack' = <<>> /\ op'.reply = reply /\ res' = res
      /\ Walking' => /\ Len(stack) - 1 \in 1 .. Len(stack) /\ op' = op
                     /\ Top' = stack[Len(stack) - 1] /\ Top'.phase = "members"
      /\ CallsShort' /\ StackFits'
  BY ReturnsFits
<1>3. op'.phase = "walk" <=> Walking'
  BY <1>2
<1>4. Fits'
  BY <1>1, <1>2, <1>3, FitsAgain
<1> QED BY <1>2, <1>4 DEF GoesBack

LEMMA ReturnsErrorFits ==
  ASSUME Fits, Walking, ReturnsError
  PROVE  /\ Fits' /\ GoesBack("error")
         /\ tree' = tree /\ locked' = locked /\ reported' = reported
         /\ ~ past'.calm /\ past'.others = past.others /\ past'.tree = past.tree
         /\ past'.there = past.there /\ past'.locked = past.locked
<1>1. /\ Returns("error") /\ past' = [past EXCEPT !.calm = FALSE]
      /\ tree' = tree /\ locked' = locked /\ reported' = reported
  BY DEF ReturnsError
<1>2. TreeFits(tree) /\ locked \subseteq Path /\ ReportedFits /\ past \in Pasts
  BY TypesFit
<1>3. /\ past' \in Pasts /\ ~ past'.calm /\ past'.others = past.others
      /\ past'.tree = past.tree /\ past'.there = past.there
      /\ past'.locked = past.locked
  BY <1>1, <1>2, CalmFits
<1>4. TreeFits(tree') /\ locked' \subseteq Path /\ ReportedFits'
  BY <1>1, <1>2 DEF ReportedFits
<1> QED BY <1>1, <1>3, <1>4, GoesBackFits

Opened(f) == [f EXCEPT !.phase = "open"]

LEMMA TopFits ==
  ASSUME Fits, Walking
  PROVE  /\ Top \in Calls /\ CallFits(Top) /\ res.uri = Top.uri /\ res.rods = Top.rods
         /\ res \in Resource /\ op \in Requests /\ op.kind \in {"PROPFIND", "COPY"}
         /\ Len(stack) \in Nat /\ Len(stack) >= 1 /\ Top = stack[Len(stack)]
         /\ Len(stack) \in 1 .. Len(stack) /\ op.phase = "walk" /\ op # None
         /\ Top.phase \in {"lockdb", "locknull"} => op.kind = "PROPFIND"
         /\ Top.depth = op.depth - (Len(stack) - 1)
         /\ Len(Top.rods) = (Len(stack) - 1) + Len(op.src.rods)
<1>1. TypeOK /\ StackFits
  BY DEF Fits
<1>2. /\ Top \in Calls /\ Len(stack) \in Nat /\ Len(stack) >= 1 /\ Top = stack[Len(stack)]
      /\ op.phase = "walk" /\ op # None /\ op \in Requests
  BY <1>1, TopCall
<1>3. Len(stack) \in 1 .. Len(stack)
  BY <1>2
<1>4. LevelFits(Top, Len(stack), op)
  BY <1>1, <1>2, <1>3 DEF StackFits
<1>5. /\ CallFits(Top)
      /\ Top.phase \in {"lockdb", "locknull"} => op.kind = "PROPFIND"
      /\ Top.depth = op.depth - (Len(stack) - 1)
      /\ Len(Top.rods) = (Len(stack) - 1) + Len(op.src.rods)
  BY <1>4 DEF LevelFits
<1>6. /\ op.kind \in {"PROPFIND", "COPY"} /\ res.uri = Top.uri /\ res.rods = Top.rods
  BY <1>1 DEF StackFits
<1>7. res \in Resource
  BY TypesFit
<1> QED BY <1>2, <1>3, <1>5, <1>6, <1>7

LEMMA OpenedFits ==
  ASSUME NEW f \in Calls, CallFits(f), f.phase = "visit", f.depth # 0
  PROVE  /\ Opened(f) \in Calls /\ CallFits(Opened(f)) /\ Opened(f).uri = f.uri
         /\ Opened(f).rods = f.rods /\ Opened(f).depth = f.depth
         /\ Opened(f).phase = "open"
         /\ Opened(f).left = {} /\ Opened(f).seen = {} /\ Opened(f).names = {}
<1>1. /\ Opened(f) \in Calls /\ Opened(f).uri = f.uri
      /\ Opened(f).rods = f.rods /\ Opened(f).depth = f.depth
      /\ Opened(f).phase = "open" /\ Opened(f).left = f.left
      /\ Opened(f).seen = f.seen /\ Opened(f).names = f.names
  BY DEF Opened, Calls
<1>2. f.left = {} /\ f.seen = {} /\ f.names = {}
  BY DEF CallFits
<1> QED BY <1>1, <1>2 DEF CallFits

\* After the callback the call returns or opens the collection.
LEMMA GoesOnFits ==
  ASSUME Fits, Walking, Top.phase = "visit", GoesOn,
         TreeFits(tree'), locked' \subseteq Path, ReportedFits',
         past' \in Pasts, past'.tree = past.tree
  PROVE  /\ Fits'
         /\ \/ EndsHere(Top.depth) /\ GoesBack("ok")
            \/ ~ EndsHere(Top.depth) /\ TurnsTo(Opened(Top)) /\ res' = res
<1>1. CASE EndsHere(Top.depth)
  BY <1>1, GoesBackFits DEF GoesOn
<1>2. CASE ~ EndsHere(Top.depth)
  <2>1. TopBecomes(Opened(Top)) /\ op' = op /\ res' = res
    BY <1>2 DEF GoesOn, Opened
  <2>2. Top.depth # 0
    BY <1>2 DEF EndsHere
  <2>3. /\ Opened(Top) \in Calls /\ CallFits(Opened(Top)) /\ Opened(Top).uri = Top.uri
        /\ Opened(Top).rods = Top.rods /\ Opened(Top).depth = Top.depth
        /\ Opened(Top).phase = "open"
    BY <2>2, TopFits, OpenedFits
  <2>4. res' \in Resource /\ ~ (Opened(Top).phase \in {"lockdb", "locknull"})
    BY <2>1, <2>3, TypesFit
  <2> QED BY <2>1, <2>3, <2>4, <1>2, TurnsToFits
<1> QED BY <1>1, <1>2

\* One more response.
LEMMA ReportedMore ==
  ASSUME ReportedFits, NEW r \in Resource, reported' = reported (+) SetToBag({r})
  PROVE  /\ ReportedFits' /\ BagToSet(reported') = BagToSet(reported) \cup {r}
         /\ r \notin BagToSet(reported) => reported'[r] = 1
         /\ \A s \in BagToSet(reported) : s # r => reported'[s] = reported[s]
<1>1. /\ DOMAIN reported' = DOMAIN reported \cup {r}
      /\ \A e \in DOMAIN reported \cup {r} :
           reported'[e] = (IF e \in DOMAIN reported THEN reported[e] ELSE 0)
                            + (IF e \in {r} THEN 1 ELSE 0)
      /\ reported' = [e \in DOMAIN reported \cup {r} |->
           (IF e \in DOMAIN reported THEN reported[e] ELSE 0)
             + (IF e \in {r} THEN 1 ELSE 0)]
  <2>1. DOMAIN SetToBag({r}) = {r} /\ SetToBag({r})[r] = 1
    BY DEF SetToBag
  <2>2. reported' = [e \in DOMAIN reported \cup {r} |->
           (IF e \in DOMAIN reported THEN reported[e] ELSE 0)
             + (IF e \in {r} THEN SetToBag({r})[e] ELSE 0)]
    BY <2>1 DEF (+)
  <2> QED BY <2>1, <2>2
<1>2. \A e \in DOMAIN reported : reported[e] \in Nat
  BY DEF ReportedFits, BagToSet
<1>3. reported' \in [DOMAIN reported' -> Nat]
  BY <1>1, <1>2
<1>4. DOMAIN reported' \subseteq Resource
  BY <1>1 DEF ReportedFits, BagToSet
<1>5. r \notin DOMAIN reported => reported'[r] = 1
  BY <1>1
<1>6. \A s \in DOMAIN reported : s # r => reported'[s] = reported[s]
  BY <1>1, <1>2
<1> QED BY <1>1, <1>3, <1>4, <1>5, <1>6 DEF ReportedFits, BagToSet

LEMMA VisitPropfindFits ==
  ASSUME Fits, VisitPropfind
  PROVE  /\ Fits' /\ Walking /\ op.kind = "PROPFIND" /\ Top.phase = "visit"
         /\ \/ EndsHere(Top.depth) /\ GoesBack("ok")
            \/ ~ EndsHere(Top.depth) /\ TurnsTo(Opened(Top)) /\ res' = res
         /\ tree' = tree /\ locked' = locked /\ past' = past
         /\ BagToSet(reported') = BagToSet(reported) \cup {res}
         /\ res \notin BagToSet(reported) => reported'[res] = 1
         /\ \A s \in BagToSet(reported) : s # res => reported'[s] = reported[s]
<1>1. /\ Walking /\ op.kind = "PROPFIND" /\ Top.phase = "visit" /\ GoesOn
      /\ tree' = tree /\ locked' = locked /\ past' = past
      /\ reported' = reported (+) SetToBag({res})
  BY DEF VisitPropfind, Visiting
<1>2. /\ TreeFits(tree) /\ locked \subseteq Path /\ past \in Pasts /\ res \in Resource
      /\ ReportedFits
  BY TypesFit
<1>3. /\ ReportedFits' /\ BagToSet(reported') = BagToSet(reported) \cup {res}
      /\ res \notin BagToSet(reported) => reported'[res] = 1
      /\ \A s \in BagToSet(reported) : s # res => reported'[s] = reported[s]
  BY <1>1, <1>2, ReportedMore
<1>4. TreeFits(tree') /\ locked' \subseteq Path /\ past' \in Pasts /\ past'.tree = past.tree
  BY <1>1, <1>2
<1>5. /\ Fits'
      /\ \/ EndsHere(Top.depth) /\ GoesBack("ok")
         \/ ~ EndsHere(Top.depth) /\ TurnsTo(Opened(Top)) /\ res' = res
  BY <1>1, <1>3, <1>4, GoesOnFits
<1> QED BY <1>1, <1>3, <1>5

\* What a copy is put into is no tree yet, and becomes one.
LEMMA MirrorFits ==
  ASSUME Fits, Walking
  PROVE  Mirror(res.rods) \in Path
<1>1. /\ op.src.rods \in Seq(Name) /\ op.dst.rods \in Seq(Name) /\ res.rods \in Seq(Name)
  BY TopFits DEF Requests, Resource, Path
<1> DEFINE rest == SubSeq(res.rods, Len(op.src.rods) + 1, Len(res.rods))
<1>2. rest \in Seq(Name)
  <2>1. /\ Len(op.src.rods) + 1 \in Int /\ Len(res.rods) \in Int
        /\ \A i \in Len(op.src.rods) + 1 .. Len(res.rods) : res.rods[i] \in Name
    BY <1>1
  <2> QED BY <2>1, SubSeqProperties
<1> HIDE DEF rest
<1>3. CASE op.src.rods = Empty /\ rest # <<>> /\ op.dst.rods # Empty
  <2>1. /\ Last(op.dst.rods) \in Name /\ Front(op.dst.rods) \in Seq(Name)
        /\ Head(rest) \in Name /\ Tail(rest) \in Seq(Name)
    BY <1>1, <1>2, <1>3, FrontPrefix, HeadTailProperties DEF Empty
  <2>2. Last(op.dst.rods) \o Head(rest) \in Name
    <3>1. /\ Last(op.dst.rods) \in Seq(Letter) /\ Head(rest) \in Seq(Letter)
          /\ Head(rest) # <<>>
      BY <2>1 DEF Name, Empty
    <3> QED BY <3>1, ConcatProperties, ConcatEqualIffEmpty DEF Name, Empty
  <2> DEFINE x == Last(op.dst.rods) \o Head(rest)
  <2>3. Mirror(res.rods) = Front(op.dst.rods) \o <<x>> \o Tail(rest)
    BY <1>3 DEF Mirror, rest
  <2> HIDE DEF x
  <2>4. <<x>> \in Seq(Name)
    BY <2>2 DEF x
  <2>5. Front(op.dst.rods) \o <<x>> \in Seq(Name)
    BY <2>1, <2>4, ConcatProperties
  <2>6. (Front(op.dst.rods) \o <<x>>) \o Tail(rest) \in Seq(Name)
    BY <2>1, <2>5, ConcatProperties
  <2> QED BY <2>3, <2>6 DEF Path
<1>4. CASE ~ (op.src.rods = Empty /\ rest # <<>> /\ op.dst.rods # Empty)
  <2>1. Mirror(res.rods) = op.dst.rods \o rest
    BY <1>4 DEF Mirror, rest
  <2> QED BY <2>1, <1>1, <1>2, ConcatProperties DEF Path
<1> QED BY <1>3, <1>4

LEMMA VisitCopyFits ==
  ASSUME Fits, VisitCopy
  PROVE  /\ Fits' /\ Walking /\ op.kind = "COPY" /\ Top.phase = "visit"
         /\ \/ EndsHere(Top.depth) /\ GoesBack("ok")
            \/ ~ EndsHere(Top.depth) /\ TurnsTo(Opened(Top)) /\ res' = res
         /\ locked' = locked /\ past' = past /\ reported' = reported
         /\ Mirror(res.rods) \in Path
         /\ HasParent(Mirror(res.rods)) /\ ~ IsCollection(Mirror(res.rods))
         /\ DOMAIN tree' = DOMAIN tree \cup {Mirror(res.rods)}
         /\ \A p \in DOMAIN tree : p # Mirror(res.rods) => tree'[p] = tree[p]
         /\ \/ /\ res.collection /\ Mirror(res.rods) \notin DOMAIN tree
               /\ tree'[Mirror(res.rods)] = Collection
            \/ /\ ~ res.collection /\ res.rods \in DOMAIN tree
               /\ tree[res.rods] # Collection
               /\ tree'[Mirror(res.rods)] = tree[res.rods]
<1> DEFINE to == Mirror(res.rods)
<1>1. /\ Walking /\ op.kind = "COPY" /\ Top.phase = "visit" /\ GoesOn
      /\ locked' = locked /\ past' = past /\ reported' = reported
      /\ HasParent(to)
      /\ \/ res.collection /\ ~ There(to) /\ tree' = With(to, Collection)
         \/ /\ ~ res.collection /\ ~ IsCollection(to)
            /\ There(res.rods) /\ ~ IsCollection(res.rods)
            /\ tree' = With(to, tree[res.rods])
  BY DEF VisitCopy, Visiting
<1>2. /\ TreeFits(tree) /\ locked \subseteq Path /\ past \in Pasts /\ ReportedFits
      /\ to \in Path
  BY <1>1, TypesFit, MirrorFits
<1> HIDE DEF to
<1>3. ~ IsCollection(to)
  BY <1>1 DEF IsCollection
<1>4. /\ DOMAIN tree' = DOMAIN tree \cup {to}
      /\ \A p \in DOMAIN tree : p # to => tree'[p] = tree[p]
      /\ \/ /\ res.collection /\ to \notin DOMAIN tree /\ tree'[to] = Collection
         \/ /\ ~ res.collection /\ res.rods \in DOMAIN tree
            /\ tree[res.rods] # Collection /\ tree'[to] = tree[res.rods]
      /\ TreeFits(tree')
  <2>1. CASE res.collection /\ ~ There(to) /\ tree' = With(to, Collection)
    BY <2>1, <1>1, <1>2, <1>3, PutsThere DEF There
  <2>2. CASE /\ ~ res.collection /\ There(res.rods) /\ ~ IsCollection(res.rods)
             /\ tree' = With(to, tree[res.rods])
    BY <2>2, <1>1, <1>2, <1>3, PutsThere DEF There, IsCollection
  <2> QED BY <2>1, <2>2, <1>1
<1>5. /\ locked' \subseteq Path /\ past' \in Pasts /\ past'.tree = past.tree
      /\ ReportedFits'
  BY <1>1, <1>2 DEF ReportedFits
<1>6. /\ Fits'
      /\ \/ EndsHere(Top.depth) /\ GoesBack("ok")
         \/ ~ EndsHere(Top.depth) /\ TurnsTo(Opened(Top)) /\ res' = res
  BY <1>1, <1>4, <1>5, GoesOnFits
<1> QED BY <1>1, <1>2, <1>3, <1>4, <1>6 DEF to

\* What a member is named.
LEMMA MemberNamed ==
  ASSUME TreeFits(tree), NEW path \in Path, NEW p \in Members(path)
  PROVE  /\ p \in DOMAIN tree /\ p \in Path /\ p # Empty /\ Front(p) = path
         /\ Last(p) \in Name /\ p = Append(path, Last(p)) /\ IsChild(path, p)
<1>1. /\ p \in DOMAIN tree /\ IsPrefixOf(path, p) /\ Len(p) = Len(path) + 1 /\ p \in Path
  BY DEF Members, Below, TreeFits
<1>2. Len(path) \in Nat /\ p \in Seq(Name) /\ path \in Seq(Name) /\ Path = Seq(Name)
  BY <1>1 DEF Path
<1>3. p # Empty
  BY <1>1, <1>2 DEF Empty
<1>4. path # p
  BY <1>1, <1>2
<1>5. /\ IsPrefixOf(path, Front(p)) /\ Front(p) \in Seq(Name)
      /\ Len(Front(p)) = Len(p) - 1 /\ Last(p) \in Name
      /\ p = Append(Front(p), Last(p))
  BY <1>1, <1>2, <1>3, <1>4, PrefixOfFront, FrontPrefix DEF Empty
<1>6. path = Front(p)
  BY <1>1, <1>2, <1>5, PrefixOfEqualLength
<1> QED BY <1>1, <1>3, <1>5, <1>6 DEF IsChild

LEMMA ChildIsMember ==
  ASSUME TreeFits(tree), NEW path \in Path, NEW p \in DOMAIN tree, IsChild(path, p)
  PROVE  p \in Members(path)
<1>1. p \in Seq(Name) /\ p # <<>> /\ Front(p) = path /\ Len(p) \in Nat
  BY DEF TreeFits, IsChild, Path, Empty
<1>2. IsPrefixOf(path, p) /\ Len(path) = Len(p) - 1
  BY <1>1, FrontPrefix
<1>3. Len(p) = Len(path) + 1
  BY <1>1, <1>2
<1> QED BY <1>2, <1>3 DEF Members, Below

Listed(f, left) == [f EXCEPT !.phase = "members", !.left = left]

Entries(path) == {<<Last(p), IsCollection(p)>> : p \in Members(path)}

LEMMA OpenFits ==
  ASSUME Fits, Open
  PROVE  /\ Fits' /\ Walking /\ Top.phase = "open" /\ IsCollection(res.rods)
         /\ TurnsTo(Listed(Top, Entries(res.rods))) /\ res' = res
         /\ Listed(Top, Entries(res.rods)).phase = "members"
         /\ Listed(Top, Entries(res.rods)).left = Entries(res.rods)
         /\ Listed(Top, Entries(res.rods)).seen = {}
         /\ Listed(Top, Entries(res.rods)).names = {}
         /\ Listed(Top, Entries(res.rods)).rods = Top.rods
         /\ Listed(Top, Entries(res.rods)).depth = Top.depth
         /\ tree' = tree /\ locked' = locked /\ past' = past /\ reported' = reported
<1> DEFINE left == Entries(res.rods)
           f == Listed(Top, left)
<1>1. /\ Walking /\ Top.phase = "open" /\ IsCollection(res.rods)
      /\ TopBecomes([Top EXCEPT !.phase = "members", !.left = left])
      /\ tree' = tree /\ locked' = locked /\ past' = past /\ reported' = reported
      /\ op' = op /\ res' = res
  BY DEF Open, Entries
<1>2. /\ TreeFits(tree) /\ locked \subseteq Path /\ past \in Pasts /\ ReportedFits
      /\ res \in Resource
  BY TypesFit
<1>3. /\ Top \in Calls /\ CallFits(Top) /\ res.uri = Top.uri /\ res.rods = Top.rods
      /\ res.rods \in Path
  BY <1>1, <1>2, TopFits DEF Resource
<1>4. /\ left \in SUBSET (Name \X BOOLEAN)
      /\ \A e, g \in left : e[1] = g[1] => e = g
  <2>1. \A p \in Members(res.rods) : IsCollection(p) \in BOOLEAN
    BY DEF IsCollection
  <2>2. \A p \in Members(res.rods) : Last(p) \in Name /\ p = Append(res.rods, Last(p))
    BY <1>2, <1>3, MemberNamed
  <2>3. \A e \in left : \E p \in Members(res.rods) : e = <<Last(p), IsCollection(p)>>
    BY DEF Entries
  <2> HIDE DEF left
  <2>4. \A e \in left : e \in Name \X BOOLEAN
    BY <2>1, <2>2, <2>3
  <2>5. ASSUME NEW e \in left, NEW g \in left, e[1] = g[1]
        PROVE  e = g
    <3>1. PICK p \in Members(res.rods) : e = <<Last(p), IsCollection(p)>>
      BY <2>3
    <3>2. PICK q \in Members(res.rods) : g = <<Last(q), IsCollection(q)>>
      BY <2>3
    <3>3. Last(p) = Last(q)
      BY <2>5, <3>1, <3>2
    <3>4. p = q
      BY <2>2, <3>3
    <3> QED BY <3>1, <3>2, <3>4
  <2> QED BY <2>4, <2>5
<1> HIDE DEF left
<1>5. /\ f \in Calls /\ f.phase = "members" /\ f.left = left /\ f.uri = Top.uri
      /\ f.rods = Top.rods /\ f.depth = Top.depth /\ f.seen = Top.seen
      /\ f.names = Top.names
  BY <1>3, <1>4 DEF Listed, Calls
<1>6. TopBecomes(f)
  BY <1>1 DEF Listed
<1> HIDE DEF f
<1>7. Top.seen = {} /\ Top.names = {} /\ Top.depth # 0
  BY <1>1, <1>3 DEF CallFits
<1>8. CallFits(f)
  BY <1>3, <1>4, <1>5, <1>7 DEF CallFits
<1>9. /\ TreeFits(tree') /\ locked' \subseteq Path /\ past' \in Pasts
      /\ past'.tree = past.tree /\ ReportedFits' /\ res' \in Resource
  BY <1>1, <1>2 DEF ReportedFits
<1>10. Fits' /\ TurnsTo(f)
  BY <1>1, <1>5, <1>6, <1>8, <1>9, TurnsToFits
<1> QED BY <1>1, <1>5, <1>7, <1>10 DEF f, left

\* The step that MemberFits is about, as the others.
CallsFor(entry) ==
  /\ Walking /\ Walking' /\ Len(stack') = Len(stack) + 1
  /\ \A i \in 1 .. Len(stack) - 1 : stack'[i] = stack[i]
  /\ stack'[Len(stack)] = Reads(Top, entry, Append(Top.rods, entry[1]))
  /\ stack'[Len(stack) + 1] = Frame(MemberOf(res, entry), Top.depth - 1)
  /\ Top' = Frame(MemberOf(res, entry), Top.depth - 1)
  /\ res' = MemberOf(res, entry) /\ op' = op

LEMMA MemberStepFits ==
  ASSUME Fits, Walking, NEW entry \in Top.left, Member(entry)
  PROVE  /\ Fits' /\ CallsFor(entry) /\ Top.phase = "members"
         /\ tree' = tree /\ locked' = locked /\ past' = past /\ reported' = reported
<1>1. /\ stack' \in Seq(Calls) /\ Len(stack') = Len(stack) + 1 /\ Walking'
      /\ \A i \in 1 .. Len(stack) - 1 : stack'[i] = stack[i]
      /\ stack'[Len(stack)] = Reads(Top, entry, Append(Top.rods, entry[1]))
      /\ stack'[Len(stack) + 1] = Frame(MemberOf(res, entry), Top.depth - 1)
      /\ Top' = Frame(MemberOf(res, entry), Top.depth - 1)
      /\ res' = MemberOf(res, entry) /\ res' \in Resource
      /\ CallsShort' /\ StackFits'
  BY MemberFits
<1>2. /\ tree' = tree /\ locked' = locked /\ past' = past /\ reported' = reported
      /\ op' = op /\ Top.phase = "members"
  BY DEF Member, Reading
<1>3. /\ TreeFits(tree) /\ locked \subseteq Path /\ past \in Pasts /\ ReportedFits
      /\ op # None /\ op \in Requests /\ op.phase = "walk"
  BY TypesFit
<1>4. /\ TreeFits(tree') /\ locked' \subseteq Path /\ past' \in Pasts
      /\ past'.tree = past.tree /\ ReportedFits'
  BY <1>2, <1>3 DEF ReportedFits
<1>5. Fits'
  BY <1>1, <1>2, <1>3, <1>4, FitsAgain
<1> QED BY <1>1, <1>2, <1>5 DEF CallsFor

Phased(f, phase) == [f EXCEPT !.phase = phase]

LEMMA EndMembersFits ==
  ASSUME Fits, EndMembers
  PROVE  /\ Fits' /\ Walking /\ Top.phase = "members" /\ Top.left = {}
         /\ tree' = tree /\ locked' = locked /\ past' = past /\ reported' = reported
         /\ \/ op.kind = "COPY" /\ GoesBack("ok")
            \/ /\ op.kind = "PROPFIND" /\ TurnsTo(Phased(Top, "lockdb")) /\ res' = res
               /\ Phased(Top, "lockdb").phase = "lockdb"
               /\ Phased(Top, "lockdb").left = {}
               /\ Phased(Top, "lockdb").seen = Top.seen
               /\ Phased(Top, "lockdb").names = {}
               /\ Phased(Top, "lockdb").rods = Top.rods
<1>1. /\ Walking /\ Top.phase = "members" /\ Top.left = {}
      /\ tree' = tree /\ locked' = locked /\ past' = past /\ reported' = reported
      /\ IF op.kind = "PROPFIND"
         THEN TopBecomes([Top EXCEPT !.phase = "lockdb"]) /\ op' = op /\ res' = res
         ELSE Returns("ok")
  BY DEF EndMembers, Reading
<1>2. /\ TreeFits(tree) /\ locked \subseteq Path /\ past \in Pasts /\ ReportedFits
      /\ res \in Resource
  BY TypesFit
<1>3. /\ TreeFits(tree') /\ locked' \subseteq Path /\ past' \in Pasts
      /\ past'.tree = past.tree /\ ReportedFits'
  BY <1>1, <1>2 DEF ReportedFits
<1>4. Top \in Calls /\ CallFits(Top) /\ op.kind \in {"PROPFIND", "COPY"}
  BY <1>1, TopFits
<1>5. CASE op.kind = "COPY"
  BY <1>1, <1>3, <1>5, GoesBackFits
<1>6. CASE op.kind = "PROPFIND"
  <2> DEFINE f == Phased(Top, "lockdb")
  <2>1. /\ f \in Calls /\ f.phase = "lockdb" /\ f.left = {} /\ f.uri = Top.uri
        /\ f.rods = Top.rods /\ f.depth = Top.depth /\ f.seen = Top.seen
        /\ f.names = Top.names
    BY <1>1, <1>4 DEF Phased, Calls
  <2>2. TopBecomes(f) /\ op' = op /\ res' = res
    BY <1>1, <1>6 DEF Phased
  <2> HIDE DEF f
  <2>3. Top.names = {} /\ Top.depth # 0
    BY <1>1, <1>4 DEF CallFits
  <2>4. CallFits(f)
    BY <1>4, <2>1, <2>3 DEF CallFits
  <2>5. Fits' /\ TurnsTo(f)
    BY <1>1, <1>2, <1>3, <1>6, <2>1, <2>2, <2>4, TurnsToFits
  <2>6. /\ f.phase = "lockdb" /\ f.left = {} /\ f.seen = Top.seen
        /\ f.names = {} /\ f.rods = Top.rods
    BY <2>1, <2>3
  <2> QED BY <1>1, <1>6, <2>2, <2>5, <2>6 DEF f
<1> QED BY <1>4, <1>5, <1>6

WithNames(f, names) == [f EXCEPT !.phase = "locknull", !.names = names]

LEMMA WithNamesFits ==
  ASSUME NEW f \in Calls, CallFits(f), f.phase \in {"lockdb", "locknull"},
         NEW names \in SUBSET Path, \A c \in names : IsChild(f.rods, c)
  PROVE  LET g == WithNames(f, names)
         IN  /\ g \in Calls /\ CallFits(g) /\ g.phase = "locknull" /\ g.uri = f.uri
             /\ g.rods = f.rods /\ g.depth = f.depth /\ g.left = {}
             /\ g.seen = f.seen /\ g.names = names
<1> DEFINE g == WithNames(f, names)
<1>1. /\ g \in Calls /\ g.phase = "locknull" /\ g.uri = f.uri
      /\ g.rods = f.rods /\ g.depth = f.depth /\ g.left = f.left
      /\ g.seen = f.seen /\ g.names = names
  BY DEF WithNames, Calls
<1>2. f.left = {} /\ f.depth # 0
  BY DEF CallFits
<1> HIDE DEF g
<1>3. CallFits(g)
  BY <1>1, <1>2 DEF CallFits
<1> QED BY <1>1, <1>2, <1>3 DEF g

LEMMA LockDbFits ==
  ASSUME Fits, LockDb
  PROVE  /\ Fits' /\ Walking /\ Top.phase = "lockdb" /\ op.kind = "PROPFIND"
         /\ TurnsTo(WithNames(Top, LockedEntries(res.rods))) /\ res' = res
         /\ WithNames(Top, LockedEntries(res.rods)).phase = "locknull"
         /\ WithNames(Top, LockedEntries(res.rods)).left = {}
         /\ WithNames(Top, LockedEntries(res.rods)).seen = Top.seen
         /\ WithNames(Top, LockedEntries(res.rods)).names = LockedEntries(res.rods)
         /\ WithNames(Top, LockedEntries(res.rods)).rods = Top.rods
         /\ tree' = tree /\ locked' = locked /\ past' = past /\ reported' = reported
<1> DEFINE names == LockedEntries(res.rods)
           f == WithNames(Top, names)
<1>1. /\ Walking /\ Top.phase = "lockdb"
      /\ TopBecomes([Top EXCEPT !.phase = "locknull", !.names = names])
      /\ tree' = tree /\ locked' = locked /\ past' = past /\ reported' = reported
      /\ op' = op /\ res' = res
  BY DEF LockDb
<1>2. /\ TreeFits(tree) /\ locked \subseteq Path /\ past \in Pasts /\ ReportedFits
      /\ res \in Resource
  BY TypesFit
<1>3. /\ Top \in Calls /\ CallFits(Top) /\ res.rods = Top.rods /\ op.kind = "PROPFIND"
      /\ res.rods \in Path
  BY <1>1, <1>2, TopFits DEF Resource
<1>4. names \in SUBSET Path /\ \A c \in names : IsChild(Top.rods, c)
  <2> SUFFICES ASSUME NEW c \in names PROVE c \in Path /\ IsChild(Top.rods, c)
    OBVIOUS
  <2>1. c \in locked /\ IsPrefixOf(res.rods, c) /\ Len(c) = Len(res.rods) + 1
    BY DEF LockedEntries
  <2>2. /\ c \in Seq(Name) /\ res.rods \in Seq(Name) /\ Len(res.rods) \in Nat /\ c \in Path
    BY <1>2, <1>3, <2>1 DEF Path
  <2>3. res.rods # c /\ c # <<>>
    BY <2>1, <2>2
  <2>4. /\ IsPrefixOf(res.rods, Front(c)) /\ Front(c) \in Seq(Name)
        /\ Len(Front(c)) = Len(c) - 1
    BY <2>1, <2>2, <2>3, PrefixOfFront, FrontPrefix
  <2>5. res.rods = Front(c)
    BY <2>1, <2>2, <2>4, PrefixOfEqualLength
  <2> QED BY <1>3, <2>2, <2>3, <2>5 DEF IsChild, Empty
<1> HIDE DEF names
<1>5. /\ f \in Calls /\ CallFits(f) /\ f.phase = "locknull" /\ f.uri = Top.uri
      /\ f.rods = Top.rods /\ f.depth = Top.depth /\ f.left = {}
      /\ f.seen = Top.seen /\ f.names = names
  BY <1>1, <1>3, <1>4, WithNamesFits
<1>6. TopBecomes(f)
  BY <1>1 DEF WithNames
<1> HIDE DEF f
<1>7. /\ TreeFits(tree') /\ locked' \subseteq Path /\ past' \in Pasts
      /\ past'.tree = past.tree /\ ReportedFits' /\ res' \in Resource
  BY <1>1, <1>2 DEF ReportedFits
<1>8. Fits' /\ TurnsTo(f)
  BY <1>1, <1>3, <1>5, <1>6, <1>7, TurnsToFits
<1> QED BY <1>1, <1>3, <1>5, <1>8 DEF f, names

LEMMA NullFits ==
  ASSUME Fits, Walking, NEW path \in Top.names
  PROVE  /\ NullResource(path) \in Resource /\ NullResource(path).rods = path
         /\ ~ NullResource(path).exists /\ ~ NullResource(path).collection
         /\ InLocation(NullResource(path).uri)
         /\ RodsPath(NullResource(path).uri) = path
         /\ path \in Path /\ IsChild(Top.rods, path)
<1>1. /\ Top \in Calls /\ CallFits(Top) /\ res.uri = Top.uri /\ res.rods = Top.rods
      /\ res \in Resource
  BY TopFits
<1>2. path \in Path /\ IsChild(Top.rods, path) /\ InLocation(res.uri)
      /\ RodsPath(res.uri) = res.rods
  BY <1>1 DEF CallFits, Calls
<1>3. Last(path) \in Name /\ path = Append(res.rods, Last(path))
  BY <1>1, <1>2, FrontOfPath DEF IsChild
<1>4. /\ Join(res.uri, Last(path)) \in Uri /\ InLocation(Join(res.uri, Last(path)))
      /\ RodsPath(Join(res.uri, Last(path))) = path
  BY <1>1, <1>2, <1>3, JoinResolves DEF Resource
<1> QED BY <1>2, <1>4 DEF NullResource, Resource

LEMMA LockNullFits ==
  ASSUME Fits, Walking, NEW path \in Top.names, LockNull(path)
  PROVE  /\ Fits' /\ Top.phase = "locknull" /\ op.kind = "PROPFIND"
         /\ TurnsTo(WithNames(Top, Top.names \ {path}))
         /\ WithNames(Top, Top.names \ {path}).phase = "locknull"
         /\ WithNames(Top, Top.names \ {path}).left = {}
         /\ WithNames(Top, Top.names \ {path}).seen = Top.seen
         /\ WithNames(Top, Top.names \ {path}).names = Top.names \ {path}
         /\ WithNames(Top, Top.names \ {path}).rods = Top.rods
         /\ tree' = tree /\ locked' = locked /\ past' = past
         /\ \/ path \in Top.seen /\ reported' = reported
            \/ /\ path \notin Top.seen
               /\ BagToSet(reported') = BagToSet(reported) \cup {NullResource(path)}
               /\ NullResource(path) \notin BagToSet(reported) =>
                    reported'[NullResource(path)] = 1
               /\ \A s \in BagToSet(reported) :
                    s # NullResource(path) => reported'[s] = reported[s]
<1> DEFINE names == Top.names \ {path}
           f == WithNames(Top, names)
<1>1. /\ Top.phase = "locknull"
      /\ TopBecomes([Top EXCEPT !.names = names])
      /\ tree' = tree /\ locked' = locked /\ past' = past
      /\ op' = op
      /\ IF path \in Top.seen THEN res' = res /\ reported' = reported
         ELSE /\ reported' = reported (+) SetToBag({NullResource(path)})
              /\ res' = [res EXCEPT !.exists = FALSE, !.collection = FALSE]
  BY DEF LockNull, NamesAfter, Seen
<1>2. /\ TreeFits(tree) /\ locked \subseteq Path /\ past \in Pasts /\ ReportedFits
      /\ res \in Resource
  BY TypesFit
<1>3. /\ Top \in Calls /\ CallFits(Top) /\ res.rods = Top.rods /\ op.kind = "PROPFIND"
  BY <1>1, TopFits
<1>4. names \in SUBSET Path /\ \A c \in names : IsChild(Top.rods, c)
  BY <1>3 DEF CallFits, Calls
<1>5. [Top EXCEPT !.names = names] = WithNames(Top, names)
  BY <1>1, <1>3 DEF WithNames, Calls
<1> HIDE DEF names
<1>6. /\ f \in Calls /\ CallFits(f) /\ f.phase = "locknull" /\ f.uri = Top.uri
      /\ f.rods = Top.rods /\ f.depth = Top.depth /\ f.left = {}
      /\ f.seen = Top.seen /\ f.names = names
  BY <1>1, <1>3, <1>4, WithNamesFits
<1>7. TopBecomes(f)
  BY <1>1, <1>5
<1> HIDE DEF f
<1>8. res' \in Resource /\ res'.uri = res.uri /\ res'.rods = res.rods
  BY <1>1, <1>2 DEF Resource
<1>9. /\ ReportedFits'
      /\ \/ path \in Top.seen /\ reported' = reported
         \/ /\ path \notin Top.seen
            /\ BagToSet(reported') = BagToSet(reported) \cup {NullResource(path)}
            /\ NullResource(path) \notin BagToSet(reported) =>
                 reported'[NullResource(path)] = 1
            /\ \A s \in BagToSet(reported) :
                 s # NullResource(path) => reported'[s] = reported[s]
  <2>1. CASE path \in Top.seen
    BY <2>1, <1>1, <1>2 DEF ReportedFits
  <2>2. CASE path \notin Top.seen
    <3>1. /\ NullResource(path) \in Resource
          /\ reported' = reported (+) SetToBag({NullResource(path)})
      BY <2>2, <1>1, NullFits
    <3> QED BY <3>1, <2>2, <1>2, ReportedMore
  <2> QED BY <2>1, <2>2
<1>10. /\ TreeFits(tree') /\ locked' \subseteq Path /\ past' \in Pasts
       /\ past'.tree = past.tree
  BY <1>1, <1>2
<1>11. Fits' /\ TurnsTo(f)
  BY <1>1, <1>3, <1>6, <1>7, <1>8, <1>9, <1>10, TurnsToFits
<1> QED BY <1>1, <1>3, <1>6, <1>9, <1>11 DEF f, names

LEMMA EndLockNullFits ==
  ASSUME Fits, EndLockNull
  PROVE  /\ Fits' /\ GoesBack("ok") /\ Top.phase = "locknull" /\ Top.names = {}
         /\ op.kind = "PROPFIND"
         /\ tree' = tree /\ locked' = locked /\ past' = past /\ reported' = reported
<1>1. /\ Walking /\ Top.phase = "locknull" /\ Top.names = {} /\ Returns("ok")
      /\ tree' = tree /\ locked' = locked /\ past' = past /\ reported' = reported
  BY DEF EndLockNull
<1>2. TreeFits(tree) /\ locked \subseteq Path /\ past \in Pasts /\ ReportedFits
  BY TypesFit
<1>3. /\ TreeFits(tree') /\ locked' \subseteq Path /\ past' \in Pasts
      /\ past'.tree = past.tree /\ ReportedFits'
  BY <1>1, <1>2 DEF ReportedFits
<1>4. op.kind = "PROPFIND"
  BY <1>1, TopFits
<1> QED BY <1>1, <1>3, <1>4, GoesBackFits

-----------------------------------------------------------------------------
(* What others do, and the steps together.                                 *)

TreeOf(t) == {<<p, t[p] = Collection>> : p \in DOMAIN t}

\* A step of others: the request does not notice.
Meanwhile ==
  /\ op # None /\ op.phase # "done" /\ op' = op /\ stack' = stack /\ res' = res
  /\ reported' = reported
  /\ ~ past'.calm /\ past'.others = past.others + 1 /\ past'.tree = past.tree
  /\ past.there \subseteq past'.there
  /\ past'.locked = past.locked \cup locked' /\ locked \subseteq locked'
  /\ \A p \in DOMAIN tree' :
       \/ p \in DOMAIN tree /\ tree'[p] = tree[p]
       \/ <<p, tree'[p] = Collection>> \in past'.there

LEMMA CallsAgain ==
  ASSUME Fits, op' = op, stack' = stack, res' = res
  PROVE  /\ stack' \in Seq(Calls) /\ CallsShort' /\ StackFits' /\ Walking' = Walking
         /\ res' \in Resource
         /\ Walking => Top' = Top
<1>1. stack' \in Seq(Calls) /\ res' \in Resource
  BY TypesFit
<1>2. CallsShort'
  BY TypesFit DEF CallsShort
<1>3. Walking' = Walking /\ Top' = Top
  BY DEF Walking, Top
<1>4. NestFits'
  BY DEF Fits, StackFits, NestFits
<1>5. \A i \in 1 .. Len(stack) : LevelFits(stack[i], i, op)
  BY DEF Fits, StackFits
<1>6. Walking => /\ op.kind \in {"PROPFIND", "COPY"}
                 /\ stack[1].rods = op.src.rods
                 /\ res.uri = Top.uri /\ res.rods = Top.rods
  BY DEF Fits, StackFits
<1>7. \A i \in 1 .. Len(stack') : LevelFits(stack'[i], i, op')
  BY <1>5
<1>8. Walking' => /\ op'.kind \in {"PROPFIND", "COPY"}
                  /\ stack'[1].rods = op'.src.rods
                  /\ res'.uri = Top'.uri /\ res'.rods = Top'.rods
  BY <1>3, <1>6
<1> HIDE DEF Top, Walking
<1>9. StackFits'
  BY <1>4, <1>7, <1>8 DEF StackFits
<1> QED BY <1>1, <1>2, <1>3, <1>9

LEMMA HappensFits ==
  ASSUME past \in Pasts, past.others < MaxOthers, locked' \subseteq Path,
         NEW paths \in SUBSET (Path \X BOOLEAN), Happens(paths)
  PROVE  /\ past' \in Pasts /\ ~ past'.calm /\ past'.others = past.others + 1
         /\ past'.tree = past.tree /\ past'.there = past.there \cup paths
         /\ past'.locked = past.locked \cup locked'
<1>1. past.others + 1 \in 0 .. MaxOthers
  BY BoundAssumption DEF Pasts
<1> QED BY <1>1 DEF Happens, Pasts

LEMMA OthersFits ==
  ASSUME Fits, Others
  PROVE  Fits' /\ Meanwhile
<1>1. PICK path \in OtherPaths :
        \/ \E node \in {Collection, "new"} : OtherCreates(path, node)
        \/ OtherRemoves(path)
        \/ OtherLocks(path)
  BY DEF Others
<1>2. path \in Path
  BY NameAssumption
<1>3. /\ op # None /\ op.phase # "done" /\ past.others < MaxOthers
      /\ op' = op /\ stack' = stack /\ res' = res /\ reported' = reported
  BY <1>1 DEF OtherCreates, OtherRemoves, OtherLocks, OtherStep
<1>4. /\ TreeFits(tree) /\ locked \subseteq Path /\ ReportedFits /\ past \in Pasts
      /\ op \in Requests
      /\ op.phase = "walk" <=> Walking
  BY <1>3, TypesFit
<1>5. /\ TreeFits(tree') /\ past' \in Pasts /\ Meanwhile /\ locked' \subseteq Path
      /\ past'.tree = past.tree
  <2>1. CASE \E node \in {Collection, "new"} : OtherCreates(path, node)
    <3> PICK node \in {Collection, "new"} : OtherCreates(path, node)
      BY <2>1
    <3>1. /\ ~ There(path) /\ HasParent(path) /\ tree' = With(path, node)
          /\ locked' = locked /\ Happens({<<path, node = Collection>>})
      BY DEF OtherCreates
    <3>2. {<<path, node = Collection>>} \in SUBSET (Path \X BOOLEAN)
      <4>1. \A b \in BOOLEAN : {<<path, b>>} \in SUBSET (Path \X BOOLEAN)
        BY <1>2
      <4>2. (node = Collection) \in BOOLEAN
        OBVIOUS
      <4> QED BY <4>1, <4>2, Zenon
    <3>3. /\ past' \in Pasts /\ ~ past'.calm /\ past'.others = past.others + 1
          /\ past'.tree = past.tree
          /\ past'.there = past.there \cup {<<path, node = Collection>>}
          /\ past'.locked = past.locked \cup locked'
      BY <3>1, <3>2, <1>3, <1>4, HappensFits
    <3>4. /\ DOMAIN tree' = DOMAIN tree \cup {path} /\ tree'[path] = node
          /\ \A p \in DOMAIN tree : p # path => tree'[p] = tree[p]
          /\ TreeFits(tree')
      BY <3>1, <1>2, <1>4, PutsThere DEF IsCollection
    <3>5. Meanwhile
      BY <3>1, <3>3, <3>4, <1>3 DEF Meanwhile, There
    <3> QED BY <3>1, <3>3, <3>4, <3>5, <1>4
  <2>2. CASE OtherRemoves(path)
    <3>1. /\ tree' = Without(Below(path)) /\ locked' = locked /\ Happens({})
      BY <2>2 DEF OtherRemoves
    <3>2. /\ past' \in Pasts /\ ~ past'.calm /\ past'.others = past.others + 1
          /\ past'.tree = past.tree /\ past'.there = past.there \cup {}
          /\ past'.locked = past.locked \cup locked'
      BY <3>1, <1>3, <1>4, HappensFits
    <3>3. /\ DOMAIN tree' = {p \in DOMAIN tree : ~ IsPrefixOf(path, p)}
          /\ \A p \in DOMAIN tree' : tree'[p] = tree[p]
          /\ TreeFits(tree')
      BY <3>1, <1>2, <1>4, RemovesBelow
    <3>4. Meanwhile
      BY <3>1, <3>2, <3>3, <1>3 DEF Meanwhile
    <3> QED BY <3>1, <3>2, <3>3, <3>4, <1>4
  <2>3. CASE OtherLocks(path)
    <3>1. tree' = tree /\ locked' = locked \cup {path} /\ Happens({})
      BY <2>3 DEF OtherLocks
    <3>2. locked' \subseteq Path
      BY <3>1, <1>2, <1>4
    <3>3. /\ past' \in Pasts /\ ~ past'.calm /\ past'.others = past.others + 1
          /\ past'.tree = past.tree /\ past'.there = past.there \cup {}
          /\ past'.locked = past.locked \cup locked'
      BY <3>1, <3>2, <1>3, <1>4, HappensFits
    <3>4. Meanwhile
      BY <3>1, <3>3, <1>3 DEF Meanwhile
    <3> QED BY <3>1, <3>2, <3>3, <3>4, <1>4
  <2> QED BY <1>1, <2>1, <2>2, <2>3
<1>6. /\ stack' \in Seq(Calls) /\ CallsShort' /\ StackFits' /\ Walking' = Walking
      /\ res' \in Resource
  BY <1>3, CallsAgain
<1>7. ReportedFits'
  BY <1>3, <1>4 DEF ReportedFits
<1>8. Fits'
  BY <1>3, <1>4, <1>5, <1>6, <1>7, FitsAgain
<1> QED BY <1>5, <1>8

\* What a resource that has been looked up says of what is there.
SaysTrue(r) == r.exists = There(r.rods) /\ r.collection = IsCollection(r.rods)

\* A request has come.
Arrives ==
  /\ op = None /\ stack = <<>> /\ op' \in Requests /\ op' # None
  /\ past' = Looked /\ tree' = tree /\ locked' = locked
  /\ reported' = reported /\ reported = EmptyBag
  /\ SaysTrue(op'.src) /\ SaysTrue(op'.dst)
  /\ \/ /\ op'.kind = "PROPFIND" /\ op'.phase = "walk"
        /\ op'.src.exists \/ op'.src.rods \in locked
        /\ Walking' /\ Len(stack') = 1 /\ stack' = <<Frame(op'.src, op'.depth)>>
        /\ Top' = Frame(op'.src, op'.depth) /\ res' = op'.src
     \/ /\ op'.kind \in {"COPY", "MOVE"} /\ stack' = <<>>
        /\ op'.phase = (IF op'.dst.exists THEN "remove"
                        ELSE IF op'.kind = "COPY" THEN "parent" ELSE "rename")
        /\ Allowed(op'.src, op'.dst, op'.depth, TRUE)
        /\ op'.depth \in {0, Infinity}
        /\ op'.kind = "MOVE" => op'.depth = Infinity
     \/ /\ op'.kind \in {"DELETE", "MKCOL"} /\ stack' = <<>>
        /\ op'.phase \in {"remove", "parent"}

LEMMA RequestComes ==
  ASSUME Fits, Request
  PROVE  Fits' /\ Arrives
<1>1. \A uri \in Uri : Resolves(uri) => SaysTrue(Lookup(uri))
  <2> SUFFICES ASSUME NEW uri \in Uri, Resolves(uri) PROVE SaysTrue(Lookup(uri))
    OBVIOUS
  <2> QED BY LookupFits DEF SaysTrue
<1>2. op = None => reported = EmptyBag
  BY TypesFit
<1>3. CASE \E uri \in PropfindUri, depth \in Depth : Propfind(uri, depth)
  <2> PICK uri \in PropfindUri, depth \in Depth : Propfind(uri, depth)
    BY <1>3
  <2>1. /\ uri \in Uri /\ Resolves(uri)
        /\ Lookup(uri).exists \/ Lookup(uri).rods \in locked
    BY NameAssumption DEF Propfind
  <2>2. Fits' /\ Starts("PROPFIND", "walk", Lookup(uri), Lookup(uri), depth)
    BY PropfindFits
  <2>3. SaysTrue(Lookup(uri))
    BY <1>1, <2>1
  <2>4. Walking'
    BY <2>2 DEF Starts, Walking
  <2> QED BY <1>2, <2>1, <2>2, <2>3, <2>4 DEF Starts, Arrives
<1>4. CASE \E uri \in SourceUri, target \in TargetUri, overwrite \in BOOLEAN,
              depth \in {0, Infinity} : Copy(uri, target, depth, overwrite)
  <2> PICK uri \in SourceUri, target \in TargetUri, overwrite \in BOOLEAN,
           depth \in {0, Infinity} : Copy(uri, target, depth, overwrite)
    BY <1>4
  <2>1. /\ uri \in Uri /\ target \in Uri /\ Resolves(uri) /\ Resolves(target)
        /\ Allowed(Lookup(uri), Lookup(target), depth, TRUE)
    BY NameAssumption DEF Copy, Allowed
  <2>2. /\ Fits'
        /\ Starts("COPY", IF Lookup(target).exists THEN "remove" ELSE "parent",
                  Lookup(uri), Lookup(target), depth)
    BY CopyFitsRequest
  <2>3. SaysTrue(Lookup(uri)) /\ SaysTrue(Lookup(target))
    BY <1>1, <2>1
  <2> QED BY <1>2, <2>1, <2>2, <2>3 DEF Starts, Arrives
<1>5. CASE \E uri \in SourceUri, target \in TargetUri, overwrite \in BOOLEAN :
             Move(uri, target, overwrite)
  <2> PICK uri \in SourceUri, target \in TargetUri, overwrite \in BOOLEAN :
             Move(uri, target, overwrite)
    BY <1>5
  <2>1. /\ uri \in Uri /\ target \in Uri /\ Resolves(uri) /\ Resolves(target)
        /\ Allowed(Lookup(uri), Lookup(target), Infinity, TRUE)
    BY NameAssumption DEF Move, Allowed
  <2>2. /\ Fits'
        /\ Starts("MOVE", IF Lookup(target).exists THEN "remove" ELSE "rename",
                  Lookup(uri), Lookup(target), Infinity)
    BY MoveFits
  <2>3. SaysTrue(Lookup(uri)) /\ SaysTrue(Lookup(target))
    BY <1>1, <2>1
  <2> QED BY <1>2, <2>1, <2>2, <2>3 DEF Starts, Arrives
<1>6. CASE \E uri \in SourceUri : Delete(uri)
  <2> PICK uri \in SourceUri : Delete(uri)
    BY <1>6
  <2>1. uri \in Uri /\ Resolves(uri)
    BY NameAssumption DEF Delete
  <2>2. Fits' /\ Starts("DELETE", "remove", Lookup(uri), Lookup(uri), Infinity)
    BY DeleteFits
  <2>3. SaysTrue(Lookup(uri))
    BY <1>1, <2>1
  <2> QED BY <1>2, <2>1, <2>2, <2>3 DEF Starts, Arrives
<1>7. CASE \E uri \in TargetUri : Mkcol(uri)
  <2> PICK uri \in TargetUri : Mkcol(uri)
    BY <1>7
  <2>1. uri \in Uri /\ Resolves(uri)
    BY NameAssumption DEF Mkcol
  <2>2. Fits' /\ Starts("MKCOL", "parent", Lookup(uri), Lookup(uri), 0)
    BY MkcolFits
  <2>3. SaysTrue(Lookup(uri))
    BY <1>1, <2>1
  <2> QED BY <1>2, <2>1, <2>2, <2>3 DEF Starts, Arrives
<1> QED BY <1>3, <1>4, <1>5, <1>6, <1>7 DEF Request

\* Calls that fail, outside the walk and in it.
Refused == RemoveFails \/ RenameFails \/ NoParent \/ CreateFails

Broken == VisitFails \/ OpenFails \/ ReadFails \/ LockDbFails \/ LockNullTooLong

LEMMA RefusedFits ==
  ASSUME Fits, Refused
  PROVE  /\ Fits' /\ Steps("done") /\ tree' = tree
         /\ ~ past'.calm /\ past'.others = past.others /\ past'.tree = past.tree
         /\ past'.there = past.there /\ past'.locked = past.locked
<1>1. op # None
  BY DEF Refused, RemoveFails, RenameFails, NoParent, CreateFails, None
<1>2. CASE RemoveFails
  BY <1>1, <1>2, GivesFits DEF RemoveFails
<1>3. CASE RenameFails
  BY <1>1, <1>3, GivesFits DEF RenameFails
<1>4. CASE NoParent
  BY <1>1, <1>4, GivesFits DEF NoParent
<1>5. CASE CreateFails
  BY <1>1, <1>5, GivesFits DEF CreateFails
<1> QED BY <1>2, <1>3, <1>4, <1>5 DEF Refused

LEMMA BrokenFits ==
  ASSUME Fits, Broken
  PROVE  /\ Fits' /\ GoesBack("error")
         /\ tree' = tree /\ locked' = locked /\ reported' = reported
         /\ ~ past'.calm /\ past'.others = past.others /\ past'.tree = past.tree
         /\ past'.there = past.there /\ past'.locked = past.locked
<1>1. Walking /\ ReturnsError
  BY DEF Broken, VisitFails, OpenFails, ReadFails, LockDbFails, LockNullTooLong,
         Visiting, Reading
<1> QED BY <1>1, ReturnsErrorFits

\* The steps of a request under way, one by one.
Walks ==
  \/ VisitPropfind \/ VisitCopy \/ Open
  \/ Walking /\ \E entry \in Top.left : Member(entry)
  \/ EndMembers \/ LockDb
  \/ Walking /\ \E path \in Top.names : LockNull(path)
  \/ EndLockNull \/ Broken

Acts == Remove \/ Rename \/ GetParent \/ Create \/ Refused

LEMMA StepCases ==
  ASSUME Next
  PROVE  Request \/ Acts \/ Walks \/ Others \/ Answer
BY DEF Next, Call, Acts, Walks, Refused, Broken

LEMMA ActsFit ==
  ASSUME Fits, Acts
  PROVE  /\ Fits' /\ op # None /\ op.phase \in {"remove", "rename", "parent", "create"}
         /\ \E phase : Steps(phase)
<1>1. CASE Remove
  BY <1>1, RemoveFits
<1>2. CASE Rename
  BY <1>2, RenameFits
<1>3. CASE GetParent
  BY <1>3, GetParentFits
<1>4. CASE Create
  BY <1>4, CreateFits
<1>5. CASE Refused
  <2>1. op.phase \in {"remove", "rename", "parent", "create"}
    BY <1>5 DEF Refused, RemoveFails, RenameFails, NoParent, CreateFails, Gives
  <2> QED BY <2>1, <1>5, RefusedFits DEF Steps
<1> QED BY <1>1, <1>2, <1>3, <1>4, <1>5 DEF Acts

LEMMA WalksFit ==
  ASSUME Fits, Walks
  PROVE  Fits' /\ Walking /\ op # None /\ locked' = locked
<1>1. CASE VisitPropfind
  BY <1>1, VisitPropfindFits, TypesFit
<1>2. CASE VisitCopy
  BY <1>2, VisitCopyFits, TypesFit
<1>3. CASE Open
  BY <1>3, OpenFits, TypesFit
<1>4. CASE Walking /\ \E entry \in Top.left : Member(entry)
  BY <1>4, MemberStepFits, TypesFit
<1>5. CASE EndMembers
  BY <1>5, EndMembersFits, TypesFit
<1>6. CASE LockDb
  BY <1>6, LockDbFits, TypesFit
<1>7. CASE Walking /\ \E path \in Top.names : LockNull(path)
  BY <1>7, LockNullFits, TypesFit
<1>8. CASE EndLockNull
  BY <1>8, EndLockNullFits, TypesFit DEF GoesBack
<1>9. CASE Broken
  BY <1>9, BrokenFits, TypesFit DEF GoesBack
<1> QED BY <1>1, <1>2, <1>3, <1>4, <1>5, <1>6, <1>7, <1>8, <1>9 DEF Walks

LEMMA StepFits == Fits /\ [Next]_vars => Fits'
<1> SUFFICES ASSUME Fits, [Next]_vars PROVE Fits'
  OBVIOUS
<1>1. CASE UNCHANGED vars
  BY <1>1 DEF vars, Fits, TypeOK, Closed, StackFits, NestFits, RequestFits, Walking, Top
<1>2. CASE Next
  BY <1>2, StepCases, RequestComes, ActsFit, WalksFit, OthersFits, AnswerFits
<1> QED BY <1>1, <1>2

\* The types, and that each call of walker was made from the one before it, for
\* a member that this has read: its path and its URI go one name further, its
\* depth is one less, and the resource that all share has the paths of the
\* innermost.
THEOREM StackSound == Spec => []Fits
BY InitFits, StepFits, PTL DEF Spec

\* All variables have their types, and paths stay short enough.
THEOREM TypeCorrect == Spec => []TypeOK
<1>1. Fits => TypeOK
  BY DEF Fits
<1> QED BY <1>1, StackSound, PTL

-----------------------------------------------------------------------------
(* The responses of a PROPFIND: their paths.                               *)

LEMMA NoReports == BagToSet(EmptyBag) = {}
BY DEF BagToSet, EmptyBag, SetToBag

\* A step writes one response, or none.
Writes(r) ==
  /\ BagToSet(reported') = BagToSet(reported) \cup {r}
  /\ r \notin BagToSet(reported) => reported'[r] = 1
  /\ \A s \in BagToSet(reported) : s # r => reported'[s] = reported[s]

LEMMA WritesWhen ==
  ASSUME Fits, [Next]_vars
  PROVE  \/ reported' = reported
         \/ BagToSet(reported') = {} /\ op' = None
         \/ VisitPropfind /\ Writes(res)
         \/ \E path \in Top.names : /\ Walking /\ LockNull(path)
                                    /\ path \notin Top.seen /\ Writes(NullResource(path))
<1>1. CASE UNCHANGED vars
  BY <1>1 DEF vars
<1>2. CASE Request
  BY <1>2, RequestComes DEF Arrives
<1>3. CASE Acts
  BY <1>3, ActsFit DEF Steps
<1>4. CASE Others
  BY <1>4, OthersFits DEF Meanwhile
<1>5. CASE Answer
  BY <1>5, NoReports DEF Answer
<1>6. CASE Walks
  <2>1. CASE VisitPropfind
    BY <2>1, VisitPropfindFits DEF Writes
  <2>2. CASE VisitCopy
    BY <2>2, VisitCopyFits
  <2>3. CASE Open
    BY <2>3, OpenFits
  <2>4. CASE Walking /\ \E entry \in Top.left : Member(entry)
    BY <2>4, MemberStepFits
  <2>5. CASE EndMembers
    BY <2>5, EndMembersFits
  <2>6. CASE LockDb
    BY <2>6, LockDbFits
  <2>7. CASE Walking /\ \E path \in Top.names : LockNull(path)
    BY <2>7, LockNullFits DEF Writes
  <2>8. CASE EndLockNull
    BY <2>8, EndLockNullFits
  <2>9. CASE Broken
    BY <2>9, BrokenFits
  <2> QED BY <1>6, <2>1, <2>2, <2>3, <2>4, <2>5, <2>6, <2>7, <2>8, <2>9 DEF Walks
<1> QED BY <1>1, <1>2, <1>3, <1>4, <1>5, <1>6, StepCases

LEMMA ResolvesStep == Fits /\ ReportsResolve /\ [Next]_vars => ReportsResolve'
<1> SUFFICES ASSUME Fits, ReportsResolve, [Next]_vars PROVE ReportsResolve'
  OBVIOUS
<1>1. CASE reported' = reported
  BY <1>1 DEF ReportsResolve
<1>2. CASE BagToSet(reported') = {}
  BY <1>2 DEF ReportsResolve
<1>3. CASE VisitPropfind /\ Writes(res)
  <2>1. InLocation(res.uri) /\ RodsPath(res.uri) = res.rods
    BY <1>3, VisitPropfindFits, TopFits DEF CallFits
  <2> QED BY <1>3, <2>1 DEF ReportsResolve, Writes
<1>4. ASSUME NEW path \in Top.names, Walking, LockNull(path), Writes(NullResource(path))
      PROVE  ReportsResolve'
  <2>1. /\ InLocation(NullResource(path).uri)
        /\ RodsPath(NullResource(path).uri) = NullResource(path).rods
    BY <1>4, NullFits
  <2> QED BY <1>4, <2>1 DEF ReportsResolve, Writes
<1> QED BY <1>1, <1>2, <1>3, <1>4, WritesWhen

\* Every response has a URI that leads back to the resource it is about: the two
\* paths that the walk extends and cuts back by hand never part.
THEOREM ReportsResolveHolds == Spec => []ReportsResolve
<1>1. Init => ReportsResolve
  BY NoReports DEF Init, ReportsResolve
<1> QED BY <1>1, StackSound, ResolvesStep, PTL DEF Spec

-----------------------------------------------------------------------------
(* What is remembered of a request.                                        *)

PastTrue ==
  op # None =>
    /\ past.calm => past.others = 0
    /\ locked \subseteq past.locked
    /\ past.others = 0 => /\ locked = past.locked
                          /\ past.there = TreeOf(past.tree)
    /\ op.kind = "PROPFIND" =>
         /\ op.phase \in {"walk", "done"}
         /\ TreeOf(tree) \subseteq past.there
         /\ past.others = 0 => tree = past.tree
    /\ op.kind # "PROPFIND" => reported = EmptyBag

\* A step for the request under way: what it is and what is remembered of it
\* stay, except that something may have gone wrong.
Keeps ==
  /\ op # None /\ op' # None /\ op'.kind = op.kind /\ op'.src = op.src
  /\ op'.dst = op.dst /\ op'.depth = op.depth
  /\ locked' = locked /\ past'.others = past.others /\ past'.tree = past.tree
  /\ past'.there = past.there /\ past'.locked = past.locked
  /\ past'.calm => past' = past

LEMMA StepsKeep ==
  ASSUME Fits, NEW phase, Steps(phase), past' = past
  PROVE  Keeps
BY DEF Steps, Keeps

LEMMA TurnsKeep ==
  ASSUME Fits, NEW f, TurnsTo(f), past' = past, locked' = locked
  PROVE  Keeps /\ (op.phase = "walk" /\ op'.phase = "walk")
<1>1. op # None /\ op.phase = "walk"
  BY TopFits DEF TurnsTo
<1> QED BY <1>1 DEF TurnsTo, Keeps

LEMMA GoesBackKeep ==
  ASSUME Fits, NEW reply, GoesBack(reply), past' = past, locked' = locked
  PROVE  Keeps /\ (op.phase = "walk" /\ op'.phase \in {"walk", "done"})
<1>1. op # None /\ op.phase = "walk"
  BY TopFits DEF GoesBack
<1> QED BY <1>1 DEF GoesBack, Keeps

LEMMA ActsKeep ==
  ASSUME Fits, Acts
  PROVE  Keeps /\ reported' = reported
<1>1. CASE Remove
  BY <1>1, RemoveFits, StepsKeep DEF Steps
<1>2. CASE Rename
  BY <1>2, RenameFits, StepsKeep DEF Steps
<1>3. CASE GetParent
  BY <1>3, GetParentFits, StepsKeep DEF Steps
<1>4. CASE Create
  BY <1>4, CreateFits, StepsKeep DEF Steps
<1>5. CASE Refused
  BY <1>5, RefusedFits DEF Steps, Keeps
<1> QED BY <1>1, <1>2, <1>3, <1>4, <1>5 DEF Acts

LEMMA WalksKeep ==
  ASSUME Fits, Walks
  PROVE  /\ Keeps /\ op.phase = "walk" /\ op'.phase \in {"walk", "done"}
         /\ VisitCopy \/ tree' = tree
         /\ op.kind = "COPY" => reported' = reported
<1>1. CASE VisitPropfind
  BY <1>1, VisitPropfindFits, TurnsKeep, GoesBackKeep
<1>2. CASE VisitCopy
  BY <1>2, VisitCopyFits, TurnsKeep, GoesBackKeep
<1>3. CASE Open
  BY <1>3, OpenFits, TurnsKeep
<1>4. CASE Walking /\ \E entry \in Top.left : Member(entry)
  <2> PICK entry \in Top.left : Member(entry)
    BY <1>4
  <2>1. /\ CallsFor(entry) /\ tree' = tree /\ locked' = locked /\ past' = past
        /\ reported' = reported
    BY <1>4, MemberStepFits
  <2>2. op # None /\ op.phase = "walk"
    BY <1>4, TopFits
  <2> QED BY <2>1, <2>2 DEF CallsFor, Keeps
<1>5. CASE EndMembers
  BY <1>5, EndMembersFits, TurnsKeep, GoesBackKeep
<1>6. CASE LockDb
  BY <1>6, LockDbFits, TurnsKeep
<1>7. CASE Walking /\ \E path \in Top.names : LockNull(path)
  <2> PICK path \in Top.names : LockNull(path)
    BY <1>7
  <2>1. /\ TurnsTo(WithNames(Top, Top.names \ {path})) /\ op.kind = "PROPFIND"
        /\ tree' = tree /\ locked' = locked /\ past' = past
    BY <1>7, LockNullFits
  <2> QED BY <2>1, TurnsKeep
<1>8. CASE EndLockNull
  BY <1>8, EndLockNullFits, GoesBackKeep
<1>9. CASE Broken
  <2>1. Walking
    BY <1>9, BrokenFits DEF GoesBack
  <2>2. op # None /\ op.phase = "walk"
    BY <2>1, TopFits
  <2> QED BY <1>9, <2>2, BrokenFits DEF GoesBack, Keeps
<1> QED BY <1>1, <1>2, <1>3, <1>4, <1>5, <1>6, <1>7, <1>8, <1>9 DEF Walks

LEMMA LookedHas ==
  ASSUME past' = Looked
  PROVE  /\ past'.calm /\ past'.others = 0 /\ past'.tree = tree
         /\ past'.there = TreeOf(tree) /\ past'.locked = locked
BY DEF Looked, TreeOf, IsCollection, There

LEMMA PastStep == Fits /\ PastTrue /\ [Next]_vars => PastTrue'
<1> SUFFICES ASSUME Fits, PastTrue, [Next]_vars PROVE PastTrue'
  OBVIOUS
<1>1. CASE UNCHANGED vars
  BY <1>1 DEF vars, PastTrue
<1>2. CASE Request
  <2>1. Arrives
    BY <1>2, RequestComes
  <2>2. op' # None /\ tree' = tree /\ locked' = locked /\ reported' = EmptyBag
    BY <2>1 DEF Arrives
  <2>3. /\ past'.calm /\ past'.others = 0 /\ past'.tree = tree
        /\ past'.there = TreeOf(tree) /\ past'.locked = locked
    BY <2>1, LookedHas DEF Arrives
  <2>4. op'.kind = "PROPFIND" => op'.phase = "walk"
    BY <2>1 DEF Arrives
  <2> QED BY <2>2, <2>3, <2>4 DEF PastTrue
<1>3. CASE Acts
  <2>1. /\ Keeps /\ reported' = reported
        /\ op.phase \in {"remove", "rename", "parent", "create"}
    BY <1>3, ActsKeep, ActsFit
  <2>2. op.kind # "PROPFIND"
    BY <2>1 DEF PastTrue, Keeps
  <2> QED BY <2>1, <2>2 DEF PastTrue, Keeps
<1>4. CASE Walks
  <2>1. /\ Keeps /\ op.phase = "walk" /\ op'.phase \in {"walk", "done"} /\ Walking
        /\ VisitCopy \/ tree' = tree
        /\ op.kind = "COPY" => reported' = reported
    BY <1>4, WalksKeep, WalksFit
  <2>2. op.kind \in {"PROPFIND", "COPY"}
    BY <2>1, TopFits
  <2>3. op.kind = "PROPFIND" => tree' = tree
    BY <2>1 DEF VisitCopy, Visiting
  <2> QED BY <2>1, <2>2, <2>3 DEF PastTrue, Keeps
<1>5. CASE Others
  <2>1. Meanwhile
    BY <1>5, OthersFits
  <2>2. past'.others # 0
    <3>1. past.others \in Nat
      BY TypesFit DEF Pasts
    <3> QED BY <3>1, <2>1 DEF Meanwhile
  <2>3. ~ past'.calm /\ locked' \subseteq past'.locked
    BY <2>1 DEF Meanwhile
  <2>4. ASSUME op.kind = "PROPFIND"
        PROVE  TreeOf(tree') \subseteq past'.there
    <3>1. TreeOf(tree) \subseteq past'.there
      BY <2>1, <2>4 DEF PastTrue, Meanwhile
    <3>2. \A p \in DOMAIN tree' : <<p, tree'[p] = Collection>> \in past'.there
      BY <2>1, <3>1 DEF Meanwhile, TreeOf
    <3> QED BY <3>2 DEF TreeOf
  <2>5. op' = op /\ reported' = reported /\ op # None
    BY <2>1 DEF Meanwhile
  <2> QED BY <2>2, <2>3, <2>4, <2>5 DEF PastTrue
<1>6. CASE Answer
  BY <1>6 DEF Answer, PastTrue
<1> QED BY <1>1, <1>2, <1>3, <1>4, <1>5, <1>6, StepCases

\* What is remembered of a request is true of it: of a PROPFIND, what was there
\* and locked is remembered, and nothing differs from it before others come in.
THEOREM PastSound == Spec => []PastTrue
<1>1. Init => PastTrue
  BY DEF Init, PastTrue
<1> QED BY <1>1, StackSound, PastStep, PTL DEF Spec

-----------------------------------------------------------------------------
(* The responses of a PROPFIND: what they say.                             *)

LEMMA MemberEffects ==
  ASSUME Fits, Walking, NEW entry \in Top.left, Member(entry)
  PROVE  LET c == Append(Top.rods, entry[1])
             f == stack'[Len(stack)]
             g == stack'[Len(stack) + 1]
         IN  /\ entry \in Name \X BOOLEAN
             /\ c \in Path /\ IsChild(Top.rods, c) /\ c # Empty
             /\ Top.phase = "members" /\ Top.names = {} /\ c \notin Top.seen
             /\ f.phase = "members" /\ f.rods = Top.rods /\ f.depth = Top.depth
             /\ f.left = Top.left \ {entry} /\ f.seen = Top.seen \cup {c}
             /\ f.names = {}
             /\ Top' = g /\ g.phase = "visit" /\ g.rods = c /\ g.left = {}
             /\ g.seen = {} /\ g.names = {} /\ g.depth = Top.depth - 1
             /\ res'.rods = c /\ res'.exists /\ res'.collection = entry[2]
<1> DEFINE c == Append(Top.rods, entry[1])
           r == MemberOf(res, entry)
<1>1. CallsFor(entry) /\ Top.phase = "members"
  BY MemberStepFits
<1>2. Top \in Calls /\ CallFits(Top) /\ res.rods = Top.rods /\ res.uri = Top.uri
  BY TopFits
<1>3. entry \in Name \X BOOLEAN /\ Top.rods \in Path /\ Top.names = {} /\ c \notin Top.seen
  BY <1>1, <1>2 DEF Calls, CallFits
<1>4. /\ c \in Path /\ IsChild(Top.rods, c) /\ c # Empty
  <2>1. /\ entry[1] \in Name /\ Top.rods \in Seq(Name)
    BY <1>3 DEF Path
  <2>2. /\ c \in Seq(Name) /\ Front(c) = Top.rods /\ c # <<>>
    BY <2>1, AppendPrefix
  <2> QED BY <2>2 DEF IsChild, Path, Empty
<1>5. /\ Reads(Top, entry, c).phase = "members" /\ Reads(Top, entry, c).rods = Top.rods
      /\ Reads(Top, entry, c).depth = Top.depth /\ Reads(Top, entry, c).names = {}
      /\ Reads(Top, entry, c).left = Top.left \ {entry}
      /\ Reads(Top, entry, c).seen = Top.seen \cup {c}
  BY <1>1, <1>2, <1>3 DEF Reads, Calls
<1>6. r.rods = c /\ r.exists /\ r.collection = entry[2]
  BY <1>2 DEF MemberOf
<1>7. /\ Frame(r, Top.depth - 1).phase = "visit" /\ Frame(r, Top.depth - 1).rods = r.rods
      /\ Frame(r, Top.depth - 1).left = {} /\ Frame(r, Top.depth - 1).seen = {}
      /\ Frame(r, Top.depth - 1).names = {}
      /\ Frame(r, Top.depth - 1).depth = Top.depth - 1
  BY DEF Frame
<1>8. /\ stack'[Len(stack)] = Reads(Top, entry, c)
      /\ stack'[Len(stack) + 1] = Frame(r, Top.depth - 1)
      /\ Top' = Frame(r, Top.depth - 1) /\ res' = r
  BY <1>1 DEF CallsFor
<1> HIDE DEF r, c
<1> QED BY <1>1, <1>3, <1>4, <1>5, <1>6, <1>7, <1>8 DEF c

\* Whether response r is true of tree t, in a request of which h is remembered.
FlagTrue(r, t, h) ==
  IF r.exists THEN <<r.rods, r.collection>> \in h.there
  ELSE r.rods \in h.locked /\ (r.rods \in DOMAIN t => h.others > 0)

\* What a call will write is true: what it has to read has been there, its names
\* have been locked, and those that it takes for members it has read.
CallTrue(f, t, h) ==
  /\ \A e \in f.left : <<Append(f.rods, e[1]), e[2]>> \in h.there
  /\ f.names \subseteq h.locked
  /\ h.others = 0 /\ f.phase \in {"members", "lockdb", "locknull"} =>
       \A p \in DOMAIN t : IsChild(f.rods, p) =>
         p \in f.seen \/ \E e \in f.left : p = Append(f.rods, e[1])

FlagsFit ==
  /\ \A r \in BagToSet(reported) : FlagTrue(r, tree, past)
  /\ Walking /\ op.kind = "PROPFIND" =>
       /\ Top.phase = "visit" => FlagTrue(res, tree, past)
       /\ \A i \in 1 .. Len(stack) : CallTrue(stack[i], tree, past)

LEMMA FlagsKeep ==
  ASSUME Keeps, tree' = tree
  PROVE  /\ \A r : FlagTrue(r, tree', past') <=> FlagTrue(r, tree, past)
         /\ \A f : CallTrue(f, tree', past') <=> CallTrue(f, tree, past)
BY DEF Keeps, FlagTrue, CallTrue

LEMMA FlagsMeanwhile ==
  ASSUME Fits, Meanwhile
  PROVE  /\ \A r : FlagTrue(r, tree, past) => FlagTrue(r, tree', past')
         /\ \A f : CallTrue(f, tree, past) => CallTrue(f, tree', past')
<1>1. past'.others > 0 /\ past'.others # 0
  <2>1. past.others \in Nat
    BY TypesFit DEF Pasts
  <2> QED BY <2>1 DEF Meanwhile
<1>2. past.there \subseteq past'.there /\ past.locked \subseteq past'.locked
  BY DEF Meanwhile
<1> QED BY <1>1, <1>2 DEF FlagTrue, CallTrue

LEMMA FlagsTurn ==
  ASSUME Fits, FlagsFit, NEW f, TurnsTo(f), Keeps, tree' = tree, op.kind = "PROPFIND",
         f.phase # "visit", CallTrue(f, tree, past),
         \A r \in BagToSet(reported') : FlagTrue(r, tree, past)
  PROVE  FlagsFit'
<1>1. Len(stack) \in Nat /\ Walking
  BY TopFits DEF TurnsTo
<1>2. \A i \in 1 .. Len(stack') : CallTrue(stack'[i], tree, past)
  BY <1>1 DEF TurnsTo, FlagsFit
<1>3. Top'.phase # "visit"
  BY DEF TurnsTo
<1> QED BY <1>2, <1>3, FlagsKeep DEF FlagsFit

LEMMA FlagsGoBack ==
  ASSUME Fits, FlagsFit, NEW reply, GoesBack(reply), Keeps, tree' = tree,
         op.kind = "PROPFIND",
         \A r \in BagToSet(reported') : FlagTrue(r, tree, past)
  PROVE  FlagsFit'
<1>1. Len(stack) \in Nat /\ Walking
  BY TopFits DEF GoesBack
<1>2. \A i \in 1 .. Len(stack') : CallTrue(stack'[i], tree, past)
  BY <1>1 DEF GoesBack, FlagsFit
<1>3. Walking' => Top'.phase # "visit"
  BY DEF GoesBack
<1> QED BY <1>2, <1>3, FlagsKeep DEF FlagsFit

LEMMA FlagsVisit ==
  ASSUME Fits, PastTrue, FlagsFit, VisitPropfind
  PROVE  FlagsFit'
<1>1. /\ Walking /\ op.kind = "PROPFIND" /\ Top.phase = "visit"
      /\ \/ EndsHere(Top.depth) /\ GoesBack("ok")
         \/ ~ EndsHere(Top.depth) /\ TurnsTo(Opened(Top))
      /\ tree' = tree /\ BagToSet(reported') = BagToSet(reported) \cup {res}
  BY VisitPropfindFits
<1>2. Keeps
  BY WalksKeep DEF Walks
<1>3. \A r \in BagToSet(reported') : FlagTrue(r, tree, past)
  BY <1>1 DEF FlagsFit
<1>4. CASE GoesBack("ok")
  BY <1>1, <1>2, <1>3, <1>4, FlagsGoBack
<1>5. CASE ~ EndsHere(Top.depth) /\ TurnsTo(Opened(Top))
  <2>1. Top \in Calls /\ CallFits(Top) /\ Top.depth # 0
    BY <1>1, <1>5, TopFits DEF EndsHere
  <2>2. /\ Opened(Top).phase = "open" /\ Opened(Top).left = {} /\ Opened(Top).names = {}
    BY <2>1, <1>1, OpenedFits
  <2> HIDE DEF Opened
  <2>3. CallTrue(Opened(Top), tree, past)
    BY <2>2 DEF CallTrue
  <2> QED BY <1>1, <1>2, <1>3, <1>5, <2>2, <2>3, FlagsTurn
<1> QED BY <1>1, <1>4, <1>5

LEMMA FlagsOpen ==
  ASSUME Fits, PastTrue, FlagsFit, Open, op.kind = "PROPFIND"
  PROVE  FlagsFit'
<1> DEFINE left == Entries(res.rods)
           f == Listed(Top, left)
<1>1. /\ Walking /\ TurnsTo(f) /\ f.phase = "members" /\ f.left = left
      /\ f.names = {} /\ f.rods = Top.rods /\ tree' = tree /\ reported' = reported
  BY OpenFits
<1>2. Keeps
  BY WalksKeep DEF Walks
<1>3. op # None /\ res.rods = Top.rods /\ res.rods \in Path /\ TreeFits(tree)
  BY <1>1, TopFits, TypesFit DEF Resource
<1>4. ASSUME NEW e \in left
      PROVE  <<Append(Top.rods, e[1]), e[2]>> \in past.there
  <2>1. PICK p \in Members(res.rods) : e = <<Last(p), IsCollection(p)>>
    BY DEF Entries
  <2>2. p \in DOMAIN tree /\ p = Append(res.rods, Last(p))
    BY <1>3, MemberNamed
  <2>3. <<p, tree[p] = Collection>> \in past.there
    BY <2>2, <1>3 DEF PastTrue, TreeOf
  <2>4. IsCollection(p) = (tree[p] = Collection)
    BY <2>2 DEF IsCollection, There
  <2> QED BY <2>1, <2>2, <2>3, <2>4, <1>3
<1>5. ASSUME NEW p \in DOMAIN tree, IsChild(Top.rods, p)
      PROVE  \E e \in left : p = Append(Top.rods, e[1])
  <2>1. p \in Members(res.rods)
    BY <1>3, <1>5, ChildIsMember
  <2>2. p = Append(res.rods, Last(p))
    BY <2>1, <1>3, MemberNamed
  <2>3. <<Last(p), IsCollection(p)>> \in left
    BY <2>1 DEF Entries
  <2> QED BY <2>2, <2>3, <1>3
<1> HIDE DEF left, f
<1>6. CallTrue(f, tree, past)
  BY <1>1, <1>4, <1>5 DEF CallTrue
<1>7. \A r \in BagToSet(reported') : FlagTrue(r, tree, past)
  BY <1>1 DEF FlagsFit
<1> QED BY <1>1, <1>2, <1>6, <1>7, FlagsTurn

LEMMA FlagsMember ==
  ASSUME Fits, PastTrue, FlagsFit, Walking, NEW entry \in Top.left, Member(entry),
         op.kind = "PROPFIND"
  PROVE  FlagsFit'
<1> DEFINE c == Append(Top.rods, entry[1])
           f == stack'[Len(stack)]
           g == stack'[Len(stack) + 1]
<1>1. /\ Top.phase = "members" /\ f.phase = "members" /\ f.rods = Top.rods
      /\ f.left = Top.left \ {entry} /\ f.seen = Top.seen \cup {c} /\ f.names = {}
      /\ Top' = g /\ g.phase = "visit" /\ g.left = {} /\ g.names = {}
      /\ res'.rods = c /\ res'.exists /\ res'.collection = entry[2]
  BY MemberEffects
<1>2. Keeps /\ tree' = tree /\ reported' = reported
  BY MemberStepFits, WalksKeep DEF Walks
<1>3. /\ Len(stack) \in Nat /\ Len(stack) \in 1 .. Len(stack) /\ Top = stack[Len(stack)]
      /\ Len(stack') = Len(stack) + 1
      /\ \A i \in 1 .. Len(stack) - 1 : stack'[i] = stack[i]
  BY TopFits, MemberStepFits DEF CallsFor
<1>4. CallTrue(Top, tree, past)
  BY <1>3 DEF FlagsFit
<1> HIDE DEF f, g
<1>5. CallTrue(f, tree, past)
  <2>1. /\ \A e \in f.left : <<Append(f.rods, e[1]), e[2]>> \in past.there
        /\ f.names \subseteq past.locked
    BY <1>1, <1>4 DEF CallTrue
  <2>2. ASSUME past.others = 0, NEW p \in DOMAIN tree, IsChild(f.rods, p)
        PROVE  p \in f.seen \/ \E e \in f.left : p = Append(f.rods, e[1])
    <3>1. p \in Top.seen \/ \E e \in Top.left : p = Append(Top.rods, e[1])
      BY <2>2, <1>1, <1>4 DEF CallTrue
    <3> QED BY <3>1, <1>1
  <2> QED BY <2>1, <2>2 DEF CallTrue
<1>6. CallTrue(g, tree, past)
  BY <1>1 DEF CallTrue
<1>7. \A i \in 1 .. Len(stack') : CallTrue(stack'[i], tree, past)
  <2> SUFFICES ASSUME NEW i \in 1 .. Len(stack') PROVE CallTrue(stack'[i], tree, past)
    OBVIOUS
  <2>1. i \in 1 .. Len(stack) - 1 \/ i = Len(stack) \/ i = Len(stack) + 1
    BY <1>3
  <2>2. CASE i \in 1 .. Len(stack) - 1
    BY <2>2, <1>3 DEF FlagsFit
  <2> QED BY <2>1, <2>2, <1>5, <1>6 DEF f, g
<1>8. FlagTrue(res', tree, past)
  BY <1>1, <1>4 DEF CallTrue, FlagTrue
<1>9. \A r \in BagToSet(reported') : FlagTrue(r, tree, past)
  BY <1>2 DEF FlagsFit
<1> QED BY <1>2, <1>7, <1>8, <1>9, FlagsKeep DEF FlagsFit

LEMMA FlagsEndMembers ==
  ASSUME Fits, PastTrue, FlagsFit, EndMembers, op.kind = "PROPFIND"
  PROVE  FlagsFit'
<1> DEFINE f == Phased(Top, "lockdb")
<1>1. /\ Walking /\ Top.phase = "members" /\ Top.left = {}
      /\ tree' = tree /\ reported' = reported
      /\ TurnsTo(f) /\ f.phase = "lockdb" /\ f.left = {} /\ f.seen = Top.seen
      /\ f.names = {} /\ f.rods = Top.rods
  BY EndMembersFits
<1>2. Keeps
  BY WalksKeep DEF Walks
<1>3. CallTrue(Top, tree, past)
  BY <1>1, TopFits DEF FlagsFit
<1> HIDE DEF f
<1>4. CallTrue(f, tree, past)
  BY <1>1, <1>3 DEF CallTrue
<1>5. \A r \in BagToSet(reported') : FlagTrue(r, tree, past)
  BY <1>1 DEF FlagsFit
<1> QED BY <1>1, <1>2, <1>4, <1>5, FlagsTurn

LEMMA FlagsLockDb ==
  ASSUME Fits, PastTrue, FlagsFit, LockDb
  PROVE  FlagsFit'
<1> DEFINE f == WithNames(Top, LockedEntries(res.rods))
<1>1. /\ Walking /\ Top.phase = "lockdb" /\ op.kind = "PROPFIND"
      /\ TurnsTo(f) /\ f.phase = "locknull" /\ f.left = {} /\ f.seen = Top.seen
      /\ f.names = LockedEntries(res.rods) /\ f.rods = Top.rods
      /\ tree' = tree /\ reported' = reported
  BY LockDbFits
<1>2. Keeps
  BY WalksKeep DEF Walks
<1>3. CallTrue(Top, tree, past) /\ op # None /\ CallFits(Top)
  BY <1>1, TopFits DEF FlagsFit
<1>4. LockedEntries(res.rods) \subseteq past.locked
  BY <1>3 DEF LockedEntries, PastTrue
<1>5. Top.left = {}
  BY <1>1, <1>3 DEF CallFits
<1> HIDE DEF f
<1>6. CallTrue(f, tree, past)
  BY <1>1, <1>3, <1>4, <1>5 DEF CallTrue
<1>7. \A r \in BagToSet(reported') : FlagTrue(r, tree, past)
  BY <1>1 DEF FlagsFit
<1> QED BY <1>1, <1>2, <1>6, <1>7, FlagsTurn

LEMMA FlagsLockNull ==
  ASSUME Fits, PastTrue, FlagsFit, Walking, NEW path \in Top.names, LockNull(path)
  PROVE  FlagsFit'
<1> DEFINE f == WithNames(Top, Top.names \ {path})
<1>1. /\ Top.phase = "locknull" /\ op.kind = "PROPFIND"
      /\ TurnsTo(f) /\ f.phase = "locknull" /\ f.left = {} /\ f.seen = Top.seen
      /\ f.names = Top.names \ {path} /\ f.rods = Top.rods /\ tree' = tree
      /\ \/ reported' = reported
         \/ /\ path \notin Top.seen
            /\ BagToSet(reported') = BagToSet(reported) \cup {NullResource(path)}
  BY LockNullFits
<1>2. Keeps
  BY WalksKeep DEF Walks
<1>3. CallTrue(Top, tree, past) /\ CallFits(Top)
  BY <1>1, TopFits DEF FlagsFit
<1>4. Top.left = {} /\ IsChild(Top.rods, path)
  BY <1>1, <1>3 DEF CallFits
<1> HIDE DEF f
<1>5. CallTrue(f, tree, past)
  BY <1>1, <1>3, <1>4 DEF CallTrue
<1>6. path \notin Top.seen => FlagTrue(NullResource(path), tree, past)
  <2>1. NullResource(path).rods = path /\ ~ NullResource(path).exists
    BY NullFits
  <2>2. path \in past.locked
    BY <1>3 DEF CallTrue
  <2>3. path \notin Top.seen /\ path \in DOMAIN tree => past.others # 0
    BY <1>1, <1>3, <1>4 DEF CallTrue
  <2>4. past.others \in Nat
    BY TypesFit DEF Pasts
  <2> QED BY <2>1, <2>2, <2>3, <2>4 DEF FlagTrue
<1>7. \A r \in BagToSet(reported') : FlagTrue(r, tree, past)
  BY <1>1, <1>6 DEF FlagsFit
<1> QED BY <1>1, <1>2, <1>5, <1>7, FlagsTurn

LEMMA FlagsStep == Fits /\ PastTrue /\ FlagsFit /\ [Next]_vars => FlagsFit'
<1> SUFFICES ASSUME Fits, PastTrue, FlagsFit, [Next]_vars PROVE FlagsFit'
  OBVIOUS
<1>1. CASE UNCHANGED vars
  BY <1>1 DEF vars, FlagsFit, Walking, Top, FlagTrue, CallTrue
<1>2. CASE Request
  <2>1. /\ Arrives /\ BagToSet(reported') = {}
    BY <1>2, RequestComes, NoReports DEF Arrives
  <2>2. CASE op'.kind # "PROPFIND"
    BY <2>1, <2>2 DEF FlagsFit
  <2>3. CASE op'.kind = "PROPFIND"
    <3>1. /\ op'.src.exists \/ op'.src.rods \in locked
          /\ SaysTrue(op'.src) /\ Len(stack') = 1
          /\ stack' = <<Frame(op'.src, op'.depth)>> /\ res' = op'.src
          /\ past' = Looked /\ tree' = tree
      BY <2>1, <2>3 DEF Arrives
    <3>2. stack'[1] = Frame(op'.src, op'.depth)
      BY <3>1
    <3>3. /\ stack'[1].phase = "visit" /\ stack'[1].left = {} /\ stack'[1].names = {}
      BY <3>2 DEF Frame
    <3>4. CallTrue(stack'[1], tree', past')
      BY <3>3 DEF CallTrue
    <3>5. past'.there = TreeOf(tree) /\ past'.locked = locked
      BY <3>1, LookedHas
    <3>6. FlagTrue(res', tree', past')
      <4>1. CASE op'.src.exists
        <5>1. /\ op'.src.rods \in DOMAIN tree
              /\ op'.src.collection = (tree[op'.src.rods] = Collection)
          BY <4>1, <3>1 DEF SaysTrue, IsCollection, There
        <5> QED BY <4>1, <5>1, <3>1, <3>5 DEF FlagTrue, TreeOf
      <4>2. CASE ~ op'.src.exists
        BY <4>2, <3>1, <3>5 DEF FlagTrue, SaysTrue, There
      <4> QED BY <4>1, <4>2
    <3>7. \A i \in 1 .. Len(stack') : CallTrue(stack'[i], tree', past')
      BY <3>1, <3>4
    <3> QED BY <2>1, <3>6, <3>7 DEF FlagsFit
  <2> QED BY <2>2, <2>3
<1>3. CASE Acts
  <2>1. Keeps /\ reported' = reported /\ op.phase \notin {"walk", "done"}
    BY <1>3, ActsKeep, ActsFit
  <2>2. op.kind # "PROPFIND" /\ BagToSet(reported') = {}
    BY <2>1, NoReports DEF PastTrue, Keeps
  <2> QED BY <2>1, <2>2 DEF FlagsFit, Keeps
<1>4. CASE Walks
  <2>1. Keeps /\ Walking
    BY <1>4, WalksKeep, WalksFit
  <2>2. CASE op.kind = "COPY"
    <3>1. BagToSet(reported') = {}
      BY <1>4, <2>1, <2>2, WalksKeep, NoReports DEF PastTrue, Keeps
    <3> QED BY <2>1, <2>2, <3>1 DEF FlagsFit, Keeps
  <2>3. CASE op.kind = "PROPFIND"
    <3>1. ~ VisitCopy
      BY <2>3 DEF VisitCopy, Visiting
    <3>2. CASE EndLockNull
      <4>1. GoesBack("ok") /\ tree' = tree /\ reported' = reported
        BY <3>2, EndLockNullFits
      <4> QED BY <4>1, <2>1, <2>3, FlagsGoBack DEF FlagsFit
    <3>3. CASE Broken
      <4>1. GoesBack("error") /\ tree' = tree /\ reported' = reported
        BY <3>3, BrokenFits
      <4> QED BY <4>1, <2>1, <2>3, FlagsGoBack DEF FlagsFit
    <3> QED BY <1>4, <2>3, <3>1, <3>2, <3>3, FlagsVisit, FlagsOpen, FlagsMember,
               FlagsEndMembers, FlagsLockDb, FlagsLockNull DEF Walks
  <2>4. op.kind \in {"PROPFIND", "COPY"}
    BY <2>1, TopFits
  <2> QED BY <2>2, <2>3, <2>4
<1>5. CASE Others
  <2>1. /\ Meanwhile /\ op' = op /\ stack' = stack /\ res' = res /\ reported' = reported
    BY <1>5, OthersFits DEF Meanwhile
  <2>2. Walking' = Walking /\ (Walking => Top' = Top)
    BY <2>1 DEF Walking, Top
  <2> QED BY <2>1, <2>2, FlagsMeanwhile DEF FlagsFit
<1>6. CASE Answer
  <2>1. BagToSet(reported') = {} /\ stack' = <<>>
    <3>1. stack = <<>>
      BY <1>6, TypesFit DEF Answer, Walking
    <3> QED BY <3>1, <1>6, NoReports DEF Answer
  <2> QED BY <2>1 DEF FlagsFit, Walking
<1> QED BY <1>1, <1>2, <1>3, <1>4, <1>5, <1>6, StepCases

\* What has been written is true, and what the calls will write.
THEOREM FlagsSound == Spec => []FlagsFit
<1>1. Init => FlagsFit
  BY NoReports DEF Init, FlagsFit, Walking
<1> QED BY <1>1, StackSound, PastSound, FlagsStep, PTL DEF Spec

\* Every response says of its resource what was so at some time during the
\* request, though all are written from one structure that the walk shares.
THEOREM FlagsTrueHolds == Spec => []FlagsTrue
<1>1. FlagsFit => FlagsTrue
  BY DEF FlagsFit, FlagsTrue, FlagTrue, There
<1> QED BY <1>1, FlagsSound, PTL

-----------------------------------------------------------------------------
(* The responses of a PROPFIND: none comes twice.                          *)

LEMMA ChildMeans ==
  ASSUME NEW path \in Path, NEW p \in Path, IsChild(path, p)
  PROVE  IsPrefixOf(path, p) /\ Len(p) = Len(path) + 1 /\ path # p
<1>1. p # Empty /\ Front(p) = path
  BY DEF IsChild
<1>2. IsPrefixOf(path, p) /\ path # p
  BY <1>1, FrontOfPath
<1>3. p \in Seq(Name) /\ p # <<>> /\ Len(p) \in Nat
  BY <1>1 DEF Path, Empty
<1>4. Len(path) = Len(p) - 1
  BY <1>1, <1>3, FrontPrefix
<1> QED BY <1>2, <1>3, <1>4

\* Of the children of a path, one lies above any place below it.
LEMMA OneChildAbove ==
  ASSUME NEW path \in Path, NEW c \in Path, NEW d \in Path, NEW p \in Path,
         IsChild(path, c), IsChild(path, d), IsPrefixOf(c, p), IsPrefixOf(d, p)
  PROVE  c = d
<1>1. Len(c) = Len(path) + 1 /\ Len(d) = Len(path) + 1
  BY ChildMeans
<1>2. c \in Seq(Name) /\ d \in Seq(Name) /\ p \in Seq(Name) /\ Len(path) \in Nat
  BY DEF Path
<1>3. IsPrefixOf(c, d)
  BY <1>1, <1>2, PrefixComparable
<1> QED BY <1>1, <1>2, <1>3, PrefixOfEqualLength

\* No step to come of call f writes a response for p.
Avoids(f, p) ==
  /\ \A e \in f.left : ~ IsPrefixOf(Append(f.rods, e[1]), p)
  /\ f.phase = "open" /\ IsPrefixOf(f.rods, p) => p = f.rods
  /\ IsChild(f.rods, p) => \/ p \in f.seen
                           \/ f.phase = "locknull" /\ p \notin f.names

OnceFits ==
  /\ NoTwice
  /\ \A r \in BagToSet(reported) :
       /\ \A i \in 1 .. Len(stack) : Avoids(stack[i], r.rods)
       /\ Walking /\ Top.phase = "visit" => ~ IsPrefixOf(res.rods, r.rods)

LEMMA EntryIsChild ==
  ASSUME NEW f \in Calls, NEW e \in f.left
  PROVE  Append(f.rods, e[1]) \in Path /\ IsChild(f.rods, Append(f.rods, e[1]))
<1>1. f.rods \in Seq(Name) /\ e[1] \in Name
  BY DEF Calls, Path
<1> QED BY <1>1, AppendPrefix DEF IsChild, Path, Empty

\* What lies at or below something that a call has read is none of its business.
LEMMA AvoidsBelow ==
  ASSUME NEW f \in Calls, CallFits(f), NEW c \in f.seen, NEW p \in Path,
         IsPrefixOf(c, p), f.phase = "members"
  PROVE  Avoids(f, p)
<1>1. c \in Path /\ f.rods \in Path /\ IsChild(f.rods, c)
  BY DEF Calls, CallFits
<1>2. ASSUME NEW e \in f.left, IsPrefixOf(Append(f.rods, e[1]), p)
      PROVE  FALSE
  <2>1. Append(f.rods, e[1]) \in Path /\ IsChild(f.rods, Append(f.rods, e[1]))
    BY EntryIsChild
  <2>2. Append(f.rods, e[1]) = c
    BY <1>1, <1>2, <2>1, OneChildAbove
  <2> QED BY <2>2 DEF CallFits
<1>3. IsChild(f.rods, p) => p = c
  BY <1>1, OneChildAbove, PrefixSelf DEF Path
<1> QED BY <1>2, <1>3 DEF Avoids

LEMMA OuterAvoid ==
  ASSUME Fits, Walking, NEW p \in Path, IsPrefixOf(Top.rods, p)
  PROVE  \A i \in 1 .. Len(stack) - 1 : Avoids(stack[i], p)
<1> SUFFICES ASSUME NEW i \in 1 .. Len(stack) - 1 PROVE Avoids(stack[i], p)
  OBVIOUS
<1>1. /\ Len(stack) \in Nat /\ Top = stack[Len(stack)] /\ Len(stack) \in 1 .. Len(stack)
      /\ Top \in Calls /\ StackFits /\ TypeOK
  BY TopFits DEF Fits
<1>2. i \in 1 .. Len(stack) /\ i < Len(stack)
  BY <1>1
<1>3. stack[i] \in Calls /\ CallFits(stack[i])
  BY <1>1, <1>2, TopCall DEF StackFits, LevelFits
<1>4. /\ stack[i].phase = "members"
      /\ \E c \in stack[i].seen : IsPrefixOf(c, Top.rods)
  BY <1>1, <1>2 DEF StackFits, NestFits
<1>5. PICK c \in stack[i].seen : IsPrefixOf(c, Top.rods)
  BY <1>4
<1>6. IsPrefixOf(c, p)
  BY <1>1, <1>3, <1>5, PrefixTransitive DEF Calls, Path
<1> QED BY <1>3, <1>4, <1>6, AvoidsBelow

LEMMA OnceTurns ==
  ASSUME Fits, OnceFits, NEW f, TurnsTo(f), f.phase # "visit", reported' = reported,
         \A r \in BagToSet(reported) : Avoids(f, r.rods)
  PROVE  OnceFits'
<1>1. Len(stack) \in Nat /\ Walking
  BY TopFits DEF TurnsTo
<1>2. \A r \in BagToSet(reported) : \A i \in 1 .. Len(stack') : Avoids(stack'[i], r.rods)
  BY <1>1 DEF TurnsTo, OnceFits
<1>3. Top'.phase # "visit" /\ NoTwice'
  BY DEF TurnsTo, OnceFits, NoTwice
<1> QED BY <1>2, <1>3 DEF OnceFits

LEMMA OnceGoesBack ==
  ASSUME Fits, OnceFits, NEW reply, GoesBack(reply), reported' = reported
  PROVE  OnceFits'
<1>1. Len(stack) \in Nat /\ Walking
  BY TopFits DEF GoesBack
<1>2. \A r \in BagToSet(reported) : \A i \in 1 .. Len(stack') : Avoids(stack'[i], r.rods)
  BY <1>1 DEF GoesBack, OnceFits
<1>3. Walking' => Top'.phase # "visit"
  BY DEF GoesBack
<1>4. NoTwice'
  BY DEF OnceFits, NoTwice
<1> QED BY <1>2, <1>3, <1>4 DEF OnceFits

LEMMA OnceWrites ==
  ASSUME NoTwice, NEW w, Writes(w), \A r \in BagToSet(reported) : r.rods # w.rods
  PROVE  NoTwice'
<1>1. w \notin BagToSet(reported) /\ reported'[w] = 1
  BY DEF Writes
<1> QED BY <1>1 DEF Writes, NoTwice

LEMMA OnceVisit ==
  ASSUME Fits, OnceFits, VisitPropfind
  PROVE  OnceFits'
<1>1. /\ Walking /\ Top.phase = "visit" /\ Writes(res)
      /\ \/ EndsHere(Top.depth) /\ GoesBack("ok")
         \/ ~ EndsHere(Top.depth) /\ TurnsTo(Opened(Top))
      /\ BagToSet(reported') = BagToSet(reported) \cup {res}
  BY VisitPropfindFits DEF Writes
<1>2. /\ Top \in Calls /\ CallFits(Top) /\ res.rods = Top.rods /\ Top.rods \in Path
      /\ Len(stack) \in Nat /\ Len(stack) \in 1 .. Len(stack)
      /\ \A r \in BagToSet(reported) : r.rods \in Path
  BY <1>1, TopFits, TypesFit DEF Calls, ReportedFits, Resource
<1>3. IsPrefixOf(Top.rods, Top.rods)
  BY <1>2, PrefixSelf DEF Path
<1>4. \A r \in BagToSet(reported) : ~ IsPrefixOf(Top.rods, r.rods)
  BY <1>1, <1>2 DEF OnceFits
<1>5. NoTwice'
  <2>1. \A r \in BagToSet(reported) : r.rods # res.rods
    BY <1>2, <1>3, <1>4
  <2> QED BY <1>1, <2>1, OnceWrites DEF OnceFits
<1>6. \A i \in 1 .. Len(stack) - 1 : Avoids(stack[i], res.rods)
  BY <1>1, <1>2, <1>3, OuterAvoid
<1>7. \A r \in BagToSet(reported') : \A i \in 1 .. Len(stack) - 1 :
        Avoids(stack[i], r.rods)
  BY <1>1, <1>2, <1>6 DEF OnceFits
<1>8. CASE GoesBack("ok")
  <2>1. \A r \in BagToSet(reported') : \A i \in 1 .. Len(stack') : Avoids(stack'[i], r.rods)
    BY <1>7, <1>8 DEF GoesBack
  <2>2. Walking' => Top'.phase # "visit"
    BY <1>8 DEF GoesBack
  <2> QED BY <1>5, <2>1, <2>2 DEF OnceFits
<1>9. CASE ~ EndsHere(Top.depth) /\ TurnsTo(Opened(Top))
  <2>1. Top.depth # 0
    BY <1>9 DEF EndsHere
  <2>2. /\ Opened(Top).phase = "open" /\ Opened(Top).left = {} /\ Opened(Top).seen = {}
        /\ Opened(Top).rods = Top.rods
    BY <1>1, <1>2, <2>1, OpenedFits
  <2> HIDE DEF Opened
  <2>3. ASSUME NEW r \in BagToSet(reported')
        PROVE  Avoids(Opened(Top), r.rods)
    <3>1. r \in BagToSet(reported) \/ r = res
      BY <1>1
    <3>2. CASE r = res
      <4>1. ~ IsChild(Top.rods, Top.rods)
        BY <1>2, ChildMeans
      <4> QED BY <4>1, <3>2, <2>2, <1>2 DEF Avoids
    <3>3. CASE r \in BagToSet(reported)
      <4>1. ~ IsPrefixOf(Top.rods, r.rods) /\ r.rods \in Path
        BY <3>3, <1>2, <1>4
      <4>2. ~ IsChild(Top.rods, r.rods)
        BY <4>1, <1>2, ChildMeans
      <4> QED BY <4>1, <4>2, <2>2 DEF Avoids
    <3> QED BY <3>1, <3>2, <3>3
  <2>4. \A r \in BagToSet(reported') : \A i \in 1 .. Len(stack') : Avoids(stack'[i], r.rods)
    BY <1>2, <1>7, <1>9, <2>3 DEF TurnsTo
  <2>5. Top'.phase # "visit"
    BY <1>9, <2>2 DEF TurnsTo
  <2> QED BY <1>5, <2>4, <2>5 DEF OnceFits
<1> QED BY <1>1, <1>8, <1>9

LEMMA OnceOpen ==
  ASSUME Fits, OnceFits, Open
  PROVE  OnceFits'
<1> DEFINE f == Listed(Top, Entries(res.rods))
<1>1. /\ Walking /\ Top.phase = "open" /\ TurnsTo(f) /\ f.phase = "members"
      /\ f.left = Entries(res.rods)
      /\ f.rods = Top.rods /\ f.seen = {} /\ reported' = reported
  BY OpenFits
<1>2. /\ Top \in Calls /\ CallFits(Top) /\ res.rods = Top.rods /\ Top.rods \in Path
      /\ Top = stack[Len(stack)] /\ Len(stack) \in 1 .. Len(stack)
      /\ TreeFits(tree) /\ \A r \in BagToSet(reported) : r.rods \in Path
  BY <1>1, TopFits, TypesFit DEF Calls, ReportedFits, Resource
<1> HIDE DEF f
<1>3. ASSUME NEW r \in BagToSet(reported) PROVE Avoids(f, r.rods)
  <2>1. r.rods \in Path /\ Avoids(Top, r.rods)
    BY <1>2 DEF OnceFits
  <2>2. /\ IsPrefixOf(Top.rods, r.rods) => r.rods = Top.rods
        /\ ~ IsChild(Top.rods, r.rods)
    <3>1. Top.seen = {}
      BY <1>1, <1>2 DEF CallFits
    <3> QED BY <3>1, <2>1, <1>1 DEF Avoids
  <2>3. ASSUME NEW e \in f.left, IsPrefixOf(Append(f.rods, e[1]), r.rods)
        PROVE  FALSE
    <3>1. PICK p \in Members(res.rods) : e = <<Last(p), IsCollection(p)>>
      BY <1>1, <2>3 DEF Entries
    <3>2. p \in Path /\ p = Append(Top.rods, Last(p)) /\ IsChild(Top.rods, p)
      BY <1>2, MemberNamed
    <3>3. IsPrefixOf(p, r.rods)
      BY <2>3, <3>1, <3>2, <1>1
    <3>4. IsPrefixOf(Top.rods, p) /\ Len(p) = Len(Top.rods) + 1
      BY <3>2, <1>2, ChildMeans
    <3>5. IsPrefixOf(Top.rods, r.rods)
      BY <3>2, <3>3, <3>4, <2>1, <1>2, PrefixTransitive DEF Path
    <3>6. IsPrefixOf(p, Top.rods)
      BY <3>3, <3>5, <2>2
    <3> QED BY <3>2, <3>4, <3>6, <1>2, PrefixLen DEF Path
  <2> QED BY <2>2, <2>3, <1>1 DEF Avoids
<1> QED BY <1>1, <1>3, OnceTurns

LEMMA OnceMember ==
  ASSUME Fits, OnceFits, Walking, NEW entry \in Top.left, Member(entry)
  PROVE  OnceFits'
<1> DEFINE c == Append(Top.rods, entry[1])
           f == stack'[Len(stack)]
           g == stack'[Len(stack) + 1]
<1>1. /\ c \in Path /\ IsChild(Top.rods, c)
      /\ Top.phase = "members" /\ f.phase = "members" /\ f.rods = Top.rods
      /\ f.left = Top.left \ {entry} /\ f.seen = Top.seen \cup {c}
      /\ Top' = g /\ g.phase = "visit" /\ g.rods = c /\ g.left = {}
      /\ res'.rods = c
  BY MemberEffects
<1>2. reported' = reported
  BY MemberStepFits
<1>3. /\ Len(stack) \in Nat /\ Len(stack) \in 1 .. Len(stack) /\ Top = stack[Len(stack)]
      /\ Len(stack') = Len(stack) + 1
      /\ \A i \in 1 .. Len(stack) - 1 : stack'[i] = stack[i]
  BY TopFits, MemberStepFits DEF CallsFor
<1>4. \A r \in BagToSet(reported) : r.rods \in Path
  BY TypesFit DEF ReportedFits, Resource
<1>5. NoTwice'
  BY <1>2 DEF OnceFits, NoTwice
<1>6. ASSUME NEW r \in BagToSet(reported')
      PROVE  /\ Avoids(f, r.rods) /\ Avoids(g, r.rods) /\ ~ IsPrefixOf(c, r.rods)
             /\ \A i \in 1 .. Len(stack) - 1 : Avoids(stack[i], r.rods)
  <2> HIDE DEF f, g
  <2>1. r \in BagToSet(reported) /\ r.rods \in Path
    BY <1>2, <1>4
  <2>2. \A i \in 1 .. Len(stack) : Avoids(stack[i], r.rods)
    BY <2>1 DEF OnceFits
  <2>3. Avoids(Top, r.rods) /\ \A i \in 1 .. Len(stack) - 1 : Avoids(stack[i], r.rods)
    BY <2>2, <1>3
  <2>4. ~ IsPrefixOf(c, r.rods)
    BY <2>3 DEF Avoids
  <2>5. Avoids(f, r.rods)
    BY <1>1, <2>3 DEF Avoids
  <2>6. ~ IsChild(c, r.rods)
    BY <2>1, <2>4, <1>1, ChildMeans
  <2>7. Avoids(g, r.rods)
    BY <1>1, <2>6 DEF Avoids
  <2> QED BY <2>3, <2>4, <2>5, <2>7
<1>7. ASSUME NEW r \in BagToSet(reported'), NEW i \in 1 .. Len(stack')
      PROVE  Avoids(stack'[i], r.rods)
  <2>1. i \in 1 .. Len(stack) - 1 \/ i = Len(stack) \/ i = Len(stack) + 1
    BY <1>3
  <2>2. CASE i \in 1 .. Len(stack) - 1
    BY <2>2, <1>3, <1>6
  <2> QED BY <2>1, <2>2, <1>6
<1>8. \A r \in BagToSet(reported') : ~ IsPrefixOf(res'.rods, r.rods)
  BY <1>1, <1>6
<1> QED BY <1>5, <1>7, <1>8 DEF OnceFits

LEMMA OnceLockNull ==
  ASSUME Fits, OnceFits, Walking, NEW path \in Top.names, LockNull(path)
  PROVE  OnceFits'
<1> DEFINE f == WithNames(Top, Top.names \ {path})
           w == NullResource(path)
<1>1. /\ Top.phase = "locknull" /\ TurnsTo(f) /\ f.phase = "locknull" /\ f.left = {}
      /\ f.seen = Top.seen /\ f.names = Top.names \ {path} /\ f.rods = Top.rods
      /\ reported' = reported \/ (path \notin Top.seen /\ Writes(w))
  BY LockNullFits DEF Writes
<1>2. w.rods = path /\ path \in Path /\ IsChild(Top.rods, path)
  BY NullFits
<1>3. /\ Len(stack) \in Nat /\ Len(stack) \in 1 .. Len(stack) /\ Top = stack[Len(stack)]
      /\ Top \in Calls /\ Top.rods \in Path
  BY TopFits DEF Calls
<1> HIDE DEF f, w
<1>4. \A r \in BagToSet(reported) : Avoids(Top, r.rods)
  BY <1>3 DEF OnceFits
<1>5. \A r \in BagToSet(reported) : Avoids(f, r.rods)
  BY <1>1, <1>4 DEF Avoids
<1>6. CASE reported' = reported
  BY <1>1, <1>5, <1>6, OnceTurns
<1>7. CASE path \notin Top.seen /\ Writes(w)
  <2>1. \A r \in BagToSet(reported) : r.rods # path
    BY <1>1, <1>2, <1>4, <1>7 DEF Avoids
  <2>2. NoTwice'
    BY <2>1, <1>2, <1>7, OnceWrites DEF OnceFits
  <2>3. Avoids(f, w.rods)
    BY <1>1, <1>2 DEF Avoids
  <2>4. \A i \in 1 .. Len(stack) - 1 : Avoids(stack[i], w.rods)
    <3>1. IsPrefixOf(Top.rods, path)
      BY <1>2, <1>3, ChildMeans
    <3> QED BY <3>1, <1>2, OuterAvoid
  <2>5. ASSUME NEW r \in BagToSet(reported')
        PROVE  \A i \in 1 .. Len(stack') : Avoids(stack'[i], r.rods)
    <3>1. r \in BagToSet(reported) \/ r = w
      BY <1>7 DEF Writes
    <3>2. Avoids(f, r.rods) /\ \A i \in 1 .. Len(stack) - 1 : Avoids(stack[i], r.rods)
      BY <3>1, <1>3, <1>5, <2>3, <2>4 DEF OnceFits
    <3> QED BY <3>2, <1>1, <1>3 DEF TurnsTo
  <2>6. Top'.phase # "visit"
    BY <1>1 DEF TurnsTo
  <2> QED BY <2>2, <2>5, <2>6 DEF OnceFits
<1> QED BY <1>1, <1>6, <1>7

LEMMA OnceNone ==
  ASSUME BagToSet(reported') = {}
  PROVE  OnceFits'
BY DEF OnceFits, NoTwice

LEMMA OnceStep == Fits /\ PastTrue /\ OnceFits /\ [Next]_vars => OnceFits'
<1> SUFFICES ASSUME Fits, PastTrue, OnceFits, [Next]_vars PROVE OnceFits'
  OBVIOUS
<1>1. CASE UNCHANGED vars
  BY <1>1 DEF vars, OnceFits, NoTwice, Walking, Top
<1>2. CASE Request \/ Answer
  BY <1>2, RequestComes, NoReports, OnceNone DEF Arrives, Answer
<1>3. CASE Acts
  <2>1. Keeps /\ reported' = reported /\ op.phase \notin {"walk", "done"}
    BY <1>3, ActsKeep, ActsFit
  <2>2. BagToSet(reported') = {}
    BY <2>1, NoReports DEF PastTrue, Keeps
  <2> QED BY <2>2, OnceNone
<1>4. CASE Others
  <2>1. op' = op /\ stack' = stack /\ res' = res /\ reported' = reported
    BY <1>4, OthersFits DEF Meanwhile
  <2> QED BY <2>1 DEF OnceFits, NoTwice, Walking, Top
<1>5. CASE Walks
  <2>1. Keeps /\ Walking
    BY <1>5, WalksKeep, WalksFit
  <2>2. CASE op.kind = "COPY"
    <3>1. BagToSet(reported') = {}
      BY <1>5, <2>1, <2>2, WalksKeep, NoReports DEF PastTrue, Keeps
    <3> QED BY <3>1, OnceNone
  <2>3. CASE op.kind = "PROPFIND"
    <3>1. ~ VisitCopy
      BY <2>3 DEF VisitCopy, Visiting
    <3>2. CASE EndLockNull
      BY <3>2, EndLockNullFits, OnceGoesBack
    <3>3. CASE Broken
      BY <3>3, BrokenFits, OnceGoesBack
    <3>4. CASE EndMembers
      <4> DEFINE f == Phased(Top, "lockdb")
      <4>1. /\ Top.phase = "members" /\ reported' = reported
            /\ TurnsTo(f) /\ f.phase = "lockdb" /\ f.left = {} /\ f.seen = Top.seen
            /\ f.names = {} /\ f.rods = Top.rods
        BY <3>4, <2>3, EndMembersFits
      <4> HIDE DEF f
      <4>2. \A r \in BagToSet(reported) : Avoids(Top, r.rods)
        BY <2>1, TopFits DEF OnceFits
      <4>3. \A r \in BagToSet(reported) : Avoids(f, r.rods)
        BY <4>1, <4>2 DEF Avoids
      <4> QED BY <4>1, <4>3, OnceTurns
    <3>5. CASE LockDb
      <4> DEFINE f == WithNames(Top, LockedEntries(res.rods))
      <4>1. /\ Top.phase = "lockdb" /\ reported' = reported
            /\ TurnsTo(f) /\ f.phase = "locknull" /\ f.left = {} /\ f.seen = Top.seen
            /\ f.rods = Top.rods
        BY <3>5, LockDbFits
      <4> HIDE DEF f
      <4>2. \A r \in BagToSet(reported) : Avoids(Top, r.rods)
        BY <2>1, TopFits DEF OnceFits
      <4>3. \A r \in BagToSet(reported) : Avoids(f, r.rods)
        BY <4>1, <4>2 DEF Avoids
      <4> QED BY <4>1, <4>3, OnceTurns
    <3> QED BY <1>5, <3>1, <3>2, <3>3, <3>4, <3>5, OnceVisit, OnceOpen, OnceMember,
               OnceLockNull DEF Walks
  <2>4. op.kind \in {"PROPFIND", "COPY"}
    BY <2>1, TopFits
  <2> QED BY <2>2, <2>3, <2>4
<1> QED BY <1>1, <1>2, <1>3, <1>4, <1>5, StepCases

\* No resource has two responses, whatever is locked, created or removed while
\* its collection is read.
THEOREM NoTwiceHolds == Spec => []NoTwice
<1>1. Init => OnceFits
  BY NoReports DEF Init, OnceFits, NoTwice
<1>2. OnceFits => NoTwice
  BY DEF OnceFits
<1> QED BY <1>1, <1>2, StackSound, PastSound, OnceStep, PTL DEF Spec

-----------------------------------------------------------------------------
(* The responses of a PROPFIND: all that there is has one.                 *)

\* What PROPFIND o is to list of tree t and of the locked names l.
Listable(p, o, t, l) ==
  /\ p \in DOMAIN t \cup l
  /\ IsPrefixOf(o.src.rods, p) /\ Len(p) - Len(o.src.rods) <= o.depth
  /\ p \in DOMAIN t \/ p = o.src.rods
       \/ (p # Empty /\ Front(p) \in DOMAIN t /\ t[Front(p)] = Collection)

\* What call f will still come to, of what there is and of what is only locked.
Ahead(f, p) ==
  \/ f.phase = "visit" /\ IsPrefixOf(f.rods, p)
  \/ f.phase = "open" /\ IsPrefixOf(f.rods, p) /\ p # f.rods
  \/ \E e \in f.left : IsPrefixOf(Append(f.rods, e[1]), p)

AheadLocked(f, p) ==
  \/ f.phase \in {"members", "lockdb"} /\ IsChild(f.rods, p)
  \/ p \in f.names

Covers(f, p, t) == Ahead(f, p) \/ (p \notin DOMAIN t /\ AheadLocked(f, p))

CallListed(f, t, l) ==
  /\ f.phase # "visit" => f.rods \in DOMAIN t /\ t[f.rods] = Collection
  /\ f.names \subseteq l
  /\ f.seen \subseteq DOMAIN t

IsReported(p) == \E r \in BagToSet(reported) : r.rods = p

Listing == op # None /\ op.kind = "PROPFIND" /\ past.calm

ListFits ==
  Listing =>
    /\ \A r \in BagToSet(reported) : Listable(r.rods, op, tree, locked)
    /\ \A p : Listable(p, op, tree, locked) =>
         IsReported(p) \/ \E i \in 1 .. Len(stack) : Covers(stack[i], p, tree)
    /\ Walking /\ Top.phase = "visit" =>
         /\ SaysTrue(res) /\ Listable(res.rods, op, tree, locked)
    /\ \A i \in 1 .. Len(stack) : CallListed(stack[i], tree, locked)

\* All calls are for places in the resource of the request.
LEMMA InSource ==
  ASSUME Fits, Walking, NEW i \in 1 .. Len(stack)
  PROVE  IsPrefixOf(op.src.rods, stack[i].rods) /\ Len(op.src.rods) <= Len(stack[i].rods)
<1>1. /\ StackFits /\ stack[i] \in Calls /\ op.src.rods \in Seq(Name)
      /\ Len(stack) \in Nat /\ Len(stack) >= 1
  BY TopFits, TopCall DEF Fits, Requests, Resource, Path
<1>2. 1 \in 1 .. Len(stack) /\ stack[1] \in Calls /\ stack[1].rods = op.src.rods
  BY <1>1, TopCall DEF StackFits, Fits
<1>3. stack[i].rods \in Seq(Name)
  BY <1>1 DEF Calls, Path
<1>4. CASE i = 1
  BY <1>1, <1>2, <1>4, PrefixSelf, PrefixLen
<1>5. CASE i # 1
  <2>1. 1 < i
    BY <1>1, <1>5
  <2>2. PICK c \in stack[1].seen : IsPrefixOf(c, stack[i].rods)
    BY <2>1, <1>1, <1>2 DEF StackFits, NestFits
  <2>3. c \in Path /\ IsChild(stack[1].rods, c)
    BY <1>1, <1>2 DEF StackFits, LevelFits, CallFits, Calls
  <2>4. IsPrefixOf(stack[1].rods, c)
    BY <2>3, <1>1, <1>2, ChildMeans DEF Path
  <2>5. IsPrefixOf(op.src.rods, stack[i].rods)
    BY <2>2, <2>3, <2>4, <1>1, <1>2, <1>3, PrefixTransitive DEF Path
  <2> QED BY <2>5, <1>1, <1>3, PrefixLen
<1> QED BY <1>4, <1>5

\* What lies in something that is no collection is not listed.
LEMMA ListableAbove ==
  ASSUME Fits, Walking, NEW p, Listable(p, op, tree, locked),
         NEW c \in Path, IsPrefixOf(c, p), c # p, Len(op.src.rods) <= Len(c)
  PROVE  c \in DOMAIN tree /\ tree[c] = Collection
<1>1. /\ TreeFits(tree) /\ locked \subseteq Path /\ op.src.rods \in Seq(Name)
      /\ c \in Seq(Name)
  BY TypesFit, TopFits DEF Requests, Resource, Path
<1>2. p \in Path /\ p \in Seq(Name)
  BY <1>1 DEF Listable, TreeFits, Path
<1>3. CASE p \in DOMAIN tree
  BY <1>1, <1>2, <1>3, AboveIsCollection DEF TreeFits
<1>4. CASE p = op.src.rods
  <2>1. Len(c) < Len(p)
    BY <1>1, <1>2, BelowMember
  <2> QED BY <2>1, <1>1, <1>4
<1>5. CASE p # Empty /\ Front(p) \in DOMAIN tree /\ tree[Front(p)] = Collection
  <2>1. IsPrefixOf(c, Front(p))
    BY <1>1, <1>2, PrefixOfFront
  <2>2. CASE c = Front(p)
    BY <2>2, <1>5
  <2>3. CASE c # Front(p)
    BY <2>1, <2>3, <1>1, <1>5, AboveIsCollection DEF TreeFits
  <2> QED BY <2>2, <2>3
<1> QED BY <1>3, <1>4, <1>5 DEF Listable

\* A step of a PROPFIND that leaves it calm.
LEMMA ListKeeps ==
  ASSUME Fits, Walks, op.kind = "PROPFIND", Listing'
  PROVE  /\ Listing /\ tree' = tree /\ locked' = locked /\ op'.kind = op.kind
         /\ \A p : Listable(p, op', tree', locked') <=> Listable(p, op, tree, locked)
<1>1. Keeps /\ (VisitCopy \/ tree' = tree)
  BY WalksKeep
<1>2. tree' = tree
  BY <1>1 DEF VisitCopy, Visiting
<1> QED BY <1>1, <1>2 DEF Listing, Keeps, Listable

LEMMA ListTurns ==
  ASSUME Fits, Walks, op.kind = "PROPFIND", ListFits, Listing', NEW f, TurnsTo(f),
         f.phase # "visit", CallListed(f, tree, locked),
         \A r \in BagToSet(reported') : Listable(r.rods, op, tree, locked),
         BagToSet(reported) \subseteq BagToSet(reported'),
         \A p : Listable(p, op, tree, locked) /\ Covers(Top, p, tree) =>
           Covers(f, p, tree) \/ \E r \in BagToSet(reported') : r.rods = p
  PROVE  ListFits'
<1>1. /\ Listing /\ tree' = tree /\ locked' = locked
      /\ \A p : Listable(p, op', tree', locked') <=> Listable(p, op, tree, locked)
  BY ListKeeps
<1>2. /\ Len(stack) \in Nat /\ Len(stack) \in 1 .. Len(stack) /\ Top = stack[Len(stack)]
  BY TopFits DEF TurnsTo
<1>3. \A i \in 1 .. Len(stack') : CallListed(stack'[i], tree, locked)
  BY <1>1, <1>2 DEF TurnsTo, ListFits
<1>4. ASSUME NEW p, Listable(p, op, tree, locked)
      PROVE  \/ \E r \in BagToSet(reported') : r.rods = p
             \/ \E i \in 1 .. Len(stack') : Covers(stack'[i], p, tree)
  <2>1. CASE IsReported(p)
    BY <2>1 DEF IsReported
  <2>2. ASSUME NEW i \in 1 .. Len(stack), Covers(stack[i], p, tree)
        PROVE  \/ \E r \in BagToSet(reported') : r.rods = p
               \/ \E j \in 1 .. Len(stack') : Covers(stack'[j], p, tree)
    <3>1. CASE i = Len(stack)
      BY <3>1, <2>2, <1>2, <1>4 DEF TurnsTo
    <3>2. CASE i # Len(stack)
      BY <3>2, <2>2, <1>2 DEF TurnsTo
    <3> QED BY <3>1, <3>2
  <2> QED BY <1>1, <1>4, <2>1, <2>2 DEF ListFits
<1>5. Top'.phase # "visit"
  BY DEF TurnsTo
<1> QED BY <1>1, <1>3, <1>4, <1>5 DEF ListFits, IsReported

LEMMA ListGoesBack ==
  ASSUME Fits, Walks, op.kind = "PROPFIND", ListFits, Listing',
         NEW reply, GoesBack(reply),
         \A r \in BagToSet(reported') : Listable(r.rods, op, tree, locked),
         BagToSet(reported) \subseteq BagToSet(reported'),
         \A p : Listable(p, op, tree, locked) /\ Covers(Top, p, tree) =>
           \E r \in BagToSet(reported') : r.rods = p
  PROVE  ListFits'
<1>1. /\ Listing /\ tree' = tree /\ locked' = locked
      /\ \A p : Listable(p, op', tree', locked') <=> Listable(p, op, tree, locked)
  BY ListKeeps
<1>2. /\ Len(stack) \in Nat /\ Len(stack) \in 1 .. Len(stack) /\ Top = stack[Len(stack)]
  BY TopFits DEF GoesBack
<1>3. \A i \in 1 .. Len(stack') : CallListed(stack'[i], tree, locked)
  BY <1>1, <1>2 DEF GoesBack, ListFits
<1>4. ASSUME NEW p, Listable(p, op, tree, locked)
      PROVE  \/ \E r \in BagToSet(reported') : r.rods = p
             \/ \E i \in 1 .. Len(stack') : Covers(stack'[i], p, tree)
  <2>1. CASE IsReported(p)
    BY <2>1 DEF IsReported
  <2>2. ASSUME NEW i \in 1 .. Len(stack), Covers(stack[i], p, tree)
        PROVE  \/ \E r \in BagToSet(reported') : r.rods = p
               \/ \E j \in 1 .. Len(stack') : Covers(stack'[j], p, tree)
    <3>1. CASE i = Len(stack)
      BY <3>1, <2>2, <1>2, <1>4
    <3>2. CASE i # Len(stack)
      BY <3>2, <2>2, <1>2 DEF GoesBack
    <3> QED BY <3>1, <3>2
  <2> QED BY <1>1, <1>4, <2>1, <2>2 DEF ListFits
<1>5. Walking' => Top'.phase # "visit"
  BY DEF GoesBack
<1> QED BY <1>1, <1>3, <1>4, <1>5 DEF ListFits, IsReported

LEMMA ListVisit ==
  ASSUME Fits, ListFits, VisitPropfind, Listing'
  PROVE  ListFits'
<1>1. /\ Walking /\ op.kind = "PROPFIND" /\ Top.phase = "visit"
      /\ \/ EndsHere(Top.depth) /\ GoesBack("ok")
         \/ ~ EndsHere(Top.depth) /\ TurnsTo(Opened(Top))
      /\ BagToSet(reported') = BagToSet(reported) \cup {res}
  BY VisitPropfindFits
<1>2. Walks /\ Listing
  BY <1>1, ListKeeps DEF Walks
<1>3. /\ Top \in Calls /\ CallFits(Top) /\ res.rods = Top.rods /\ Top.rods \in Path
      /\ Len(stack) \in Nat /\ Len(stack) \in 1 .. Len(stack) /\ Top = stack[Len(stack)]
      /\ Top.depth = op.depth - (Len(stack) - 1)
      /\ Len(Top.rods) = (Len(stack) - 1) + Len(op.src.rods)
      /\ op \in Requests
  BY <1>1, TopFits DEF Calls
<1>4. /\ SaysTrue(res) /\ Listable(res.rods, op, tree, locked)
  BY <1>1, <1>2 DEF ListFits
<1>5. /\ \A r \in BagToSet(reported') : Listable(r.rods, op, tree, locked)
      /\ res \in BagToSet(reported') /\ BagToSet(reported) \subseteq BagToSet(reported')
  BY <1>1, <1>2, <1>4 DEF ListFits
<1>6. Top.left = {} /\ Top.names = {} /\ Top.seen = {}
  BY <1>1, <1>3 DEF CallFits
<1>7. \A p : Covers(Top, p, tree) => IsPrefixOf(Top.rods, p)
  BY <1>1, <1>6 DEF Covers, Ahead, AheadLocked
<1>8. CASE EndsHere(Top.depth) /\ GoesBack("ok")
  <2>1. ASSUME NEW p, Listable(p, op, tree, locked), IsPrefixOf(Top.rods, p), p # Top.rods
        PROVE  FALSE
    <3>1. Len(op.src.rods) <= Len(Top.rods)
      BY <1>1, <1>3, InSource
    <3>2. Top.rods \in DOMAIN tree /\ tree[Top.rods] = Collection
      BY <2>1, <3>1, <1>1, <1>3, ListableAbove
    <3>3. Top.depth = 0
      BY <3>2, <1>3, <1>4, <1>8 DEF EndsHere, SaysTrue, IsCollection, There
    <3>4. p \in Seq(Name) /\ Top.rods \in Seq(Name) /\ op.src.rods \in Seq(Name)
      BY <2>1, <1>3, TypesFit DEF Listable, TreeFits, Requests, Resource, Path
    <3>5. Len(Top.rods) < Len(p)
      BY <3>4, <2>1, BelowMember
    <3>6. Len(p) - Len(op.src.rods) <= op.depth
      BY <2>1 DEF Listable
    <3>7. op.depth \in Int
      BY <1>3, BoundAssumption DEF Requests, Depth
    <3> QED BY <3>3, <3>4, <3>5, <3>6, <3>7, <1>3
  <2>2. \A p : Listable(p, op, tree, locked) /\ Covers(Top, p, tree) =>
          \E r \in BagToSet(reported') : r.rods = p
    BY <2>1, <1>3, <1>5, <1>7
  <2> QED BY <2>2, <1>1, <1>2, <1>5, <1>8, ListGoesBack
<1>9. CASE ~ EndsHere(Top.depth) /\ TurnsTo(Opened(Top))
  <2>1. Top.depth # 0 /\ res.collection
    BY <1>9 DEF EndsHere
  <2>2. /\ Opened(Top).phase = "open" /\ Opened(Top).left = {} /\ Opened(Top).seen = {}
        /\ Opened(Top).names = {} /\ Opened(Top).rods = Top.rods
    BY <1>1, <1>3, <2>1, OpenedFits
  <2> HIDE DEF Opened
  <2>3. CallListed(Opened(Top), tree, locked)
    BY <2>1, <2>2, <1>3, <1>4 DEF CallListed, SaysTrue, IsCollection, There
  <2>4. \A p : Listable(p, op, tree, locked) /\ Covers(Top, p, tree) =>
          Covers(Opened(Top), p, tree) \/ \E r \in BagToSet(reported') : r.rods = p
    BY <2>2, <1>3, <1>5, <1>7 DEF Covers, Ahead
  <2> QED BY <2>2, <2>3, <2>4, <1>1, <1>2, <1>5, <1>9, ListTurns
<1> QED BY <1>1, <1>8, <1>9

LEMMA ListOpen ==
  ASSUME Fits, ListFits, Open, op.kind = "PROPFIND", Listing'
  PROVE  ListFits'
<1> DEFINE f == Listed(Top, Entries(res.rods))
<1>1. /\ Walking /\ Top.phase = "open" /\ IsCollection(res.rods) /\ TurnsTo(f)
      /\ f.phase = "members" /\ f.left = Entries(res.rods) /\ f.seen = {} /\ f.names = {}
      /\ f.rods = Top.rods /\ reported' = reported
  BY OpenFits
<1>2. Walks /\ Listing
  BY <1>1, ListKeeps DEF Walks
<1>3. /\ Top \in Calls /\ CallFits(Top) /\ res.rods = Top.rods /\ Top.rods \in Path
      /\ Len(stack) \in Nat /\ Len(stack) \in 1 .. Len(stack) /\ Top = stack[Len(stack)]
      /\ TreeFits(tree) /\ locked \subseteq Path
  BY <1>1, TopFits, TypesFit DEF Calls
<1>4. Top.left = {} /\ Top.names = {} /\ Len(op.src.rods) <= Len(Top.rods)
  BY <1>1, <1>3, InSource DEF CallFits
<1> HIDE DEF f
<1>5. CallListed(f, tree, locked)
  BY <1>1, <1>3 DEF CallListed, IsCollection, There
<1>6. ASSUME NEW p, Listable(p, op, tree, locked), Covers(Top, p, tree)
      PROVE  Covers(f, p, tree)
  <2>1. IsPrefixOf(Top.rods, p) /\ p # Top.rods
    BY <1>1, <1>4, <1>6 DEF Covers, Ahead, AheadLocked
  <2>2. p \in Path /\ p \in Seq(Name) /\ Top.rods \in Seq(Name) /\ op.src.rods \in Seq(Name)
    BY <1>1, <1>3, <1>6, TopFits DEF Listable, TreeFits, Path, Requests, Resource
  <2> DEFINE c == Append(Top.rods, p[Len(Top.rods) + 1])
  <2>3. p[Len(Top.rods) + 1] \in Name /\ IsPrefixOf(c, p)
    BY <2>1, <2>2, BelowMember
  <2>4. c \in Path /\ IsChild(Top.rods, c) /\ Last(c) = p[Len(Top.rods) + 1]
    BY <2>2, <2>3, AppendPrefix DEF IsChild, Path, Empty
  <2>5. c = Append(Top.rods, Last(c))
    BY <2>4
  <2> HIDE DEF c
  <2>6. CASE c \in DOMAIN tree
    <3>1. c \in Members(Top.rods)
      BY <2>4, <2>6, <1>3, ChildIsMember
    <3>2. <<Last(c), IsCollection(c)>> \in f.left
      BY <3>1, <1>1, <1>3 DEF Entries
    <3> QED BY <3>2, <2>3, <2>5, <1>1 DEF Covers, Ahead
  <2>7. CASE c \notin DOMAIN tree
    <3>1. Len(op.src.rods) <= Len(c)
      <4>1. Len(c) = Len(Top.rods) + 1
        BY <2>4, <1>3, ChildMeans
      <4> QED BY <4>1, <1>4, <2>2
    <3>2. c = p
      BY <3>1, <2>3, <2>4, <2>7, <1>1, <1>6, ListableAbove
    <3> QED BY <3>2, <2>4, <2>7, <1>1 DEF Covers, AheadLocked
  <2> QED BY <2>6, <2>7
<1>7. \A r \in BagToSet(reported') : Listable(r.rods, op, tree, locked)
  BY <1>1, <1>2 DEF ListFits
<1> QED BY <1>1, <1>2, <1>5, <1>6, <1>7, ListTurns

LEMMA ListMember ==
  ASSUME Fits, PastTrue, FlagsFit, ListFits, Walking, NEW entry \in Top.left,
         Member(entry), op.kind = "PROPFIND", Listing'
  PROVE  ListFits'
<1> DEFINE c == Append(Top.rods, entry[1])
           f == stack'[Len(stack)]
           g == stack'[Len(stack) + 1]
<1>1. /\ c \in Path /\ IsChild(Top.rods, c)
      /\ Top.phase = "members" /\ f.phase = "members" /\ f.rods = Top.rods
      /\ f.left = Top.left \ {entry} /\ f.seen = Top.seen \cup {c} /\ f.names = {}
      /\ Top' = g /\ g.phase = "visit" /\ g.rods = c /\ g.left = {} /\ g.names = {}
      /\ g.seen = {} /\ Top.names = {}
      /\ res'.rods = c /\ res'.exists /\ res'.collection = entry[2]
  BY MemberEffects
<1>2. reported' = reported
  BY MemberStepFits
<1>3. /\ Len(stack) \in Nat /\ Len(stack) \in 1 .. Len(stack) /\ Top = stack[Len(stack)]
      /\ Len(stack') = Len(stack) + 1
      /\ \A i \in 1 .. Len(stack) - 1 : stack'[i] = stack[i]
      /\ Top \in Calls /\ CallFits(Top) /\ Top.rods \in Path
      /\ Top.depth = op.depth - (Len(stack) - 1)
      /\ Len(Top.rods) = (Len(stack) - 1) + Len(op.src.rods)
      /\ op \in Requests
  BY TopFits, MemberStepFits DEF CallsFor, Calls
<1>4. Walks
  BY DEF Walks
<1>5. /\ Listing /\ tree' = tree /\ locked' = locked /\ op'.kind = op.kind
      /\ \A p : Listable(p, op', tree', locked') <=> Listable(p, op, tree, locked)
  BY <1>4, ListKeeps
<1>6. c \in DOMAIN tree /\ entry[2] = (tree[c] = Collection)
  <2>1. CallTrue(Top, tree, past)
    BY <1>3 DEF FlagsFit
  <2>2. <<c, entry[2]>> \in past.there
    BY <2>1 DEF CallTrue
  <2>3. past.there = TreeOf(tree)
    BY <1>5 DEF PastTrue, Listing
  <2> HIDE DEF c
  <2> QED BY <2>2, <2>3 DEF TreeOf
<1>7. Listable(c, op, tree, locked)
  <2>1. IsPrefixOf(op.src.rods, Top.rods)
    BY <1>3, InSource
  <2>2. IsPrefixOf(Top.rods, c) /\ Len(c) = Len(Top.rods) + 1
    BY <1>1, <1>3, ChildMeans
  <2>3. op.src.rods \in Seq(Name) /\ Top.rods \in Seq(Name) /\ c \in Seq(Name)
    BY <1>1, <1>3 DEF Requests, Resource, Path
  <2> HIDE DEF c
  <2>4. IsPrefixOf(op.src.rods, c)
    BY <2>1, <2>2, <2>3, PrefixTransitive
  <2>5. Len(c) - Len(op.src.rods) <= op.depth
    <3>1. Top.depth \in Nat /\ Top.depth # 0 /\ op.depth \in Int
      BY <1>1, <1>3, BoundAssumption DEF Calls, CallFits, Requests, Depth
    <3>2. Len(op.src.rods) \in Nat
      BY <2>3
    <3> QED BY <3>1, <3>2, <2>2, <1>3
  <2> QED BY <2>4, <2>5, <1>6 DEF Listable
<1> HIDE DEF c, f, g
<1>8. SaysTrue(res')
  BY <1>1, <1>6 DEF SaysTrue, IsCollection, There
<1>9. CallListed(Top, tree, locked)
  BY <1>3, <1>5 DEF ListFits
<1>10. CallListed(f, tree, locked) /\ CallListed(g, tree, locked)
  BY <1>1, <1>6, <1>9 DEF CallListed
<1>11. ASSUME NEW i \in 1 .. Len(stack') PROVE CallListed(stack'[i], tree, locked)
  <2>1. i \in 1 .. Len(stack) - 1 \/ i = Len(stack) \/ i = Len(stack) + 1
    BY <1>3
  <2>2. CASE i \in 1 .. Len(stack) - 1
    BY <2>2, <1>3, <1>5 DEF ListFits
  <2> QED BY <2>1, <2>2, <1>10 DEF f, g
<1>12. ASSUME NEW p, Covers(Top, p, tree)
       PROVE  Covers(f, p, tree) \/ Covers(g, p, tree)
  <2>1. CASE \E e \in Top.left : IsPrefixOf(Append(Top.rods, e[1]), p)
    <3> PICK e \in Top.left : IsPrefixOf(Append(Top.rods, e[1]), p)
      BY <2>1
    <3>1. CASE e = entry
      BY <3>1, <1>1 DEF Covers, Ahead, c
    <3>2. CASE e # entry
      BY <3>2, <1>1 DEF Covers, Ahead
    <3> QED BY <3>1, <3>2
  <2>2. CASE p \notin DOMAIN tree /\ IsChild(Top.rods, p)
    BY <2>2, <1>1 DEF Covers, AheadLocked
  <2> QED BY <2>1, <2>2, <1>1, <1>12 DEF Covers, Ahead, AheadLocked
<1>13. ASSUME NEW p, Listable(p, op, tree, locked)
       PROVE  \/ \E r \in BagToSet(reported') : r.rods = p
              \/ \E j \in 1 .. Len(stack') : Covers(stack'[j], p, tree)
  <2>1. CASE IsReported(p)
    BY <2>1, <1>2 DEF IsReported
  <2>2. ASSUME NEW i \in 1 .. Len(stack), Covers(stack[i], p, tree)
        PROVE  \E j \in 1 .. Len(stack') : Covers(stack'[j], p, tree)
    <3>1. CASE i = Len(stack)
      <4>1. Len(stack) \in 1 .. Len(stack') /\ Len(stack) + 1 \in 1 .. Len(stack')
        BY <1>3
      <4> QED BY <4>1, <3>1, <2>2, <1>3, <1>12 DEF f, g
    <3>2. CASE i # Len(stack)
      <4>1. i \in 1 .. Len(stack') /\ stack'[i] = stack[i]
        BY <3>2, <1>3
      <4> QED BY <4>1, <2>2
    <3> QED BY <3>1, <3>2
  <2> QED BY <1>5, <1>13, <2>1, <2>2 DEF ListFits
<1>14. \A r \in BagToSet(reported') : Listable(r.rods, op, tree, locked)
  BY <1>2, <1>5 DEF ListFits
<1>15. /\ res'.exists = (res'.rods \in DOMAIN tree')
       /\ res'.collection = (res'.rods \in DOMAIN tree' /\ tree'[res'.rods] = Collection)
  BY <1>5, <1>8 DEF SaysTrue, IsCollection, There
<1>16. Listable(res'.rods, op', tree', locked')
  BY <1>1, <1>5, <1>7
<1> QED BY <1>5, <1>11, <1>13, <1>14, <1>15, <1>16
        DEF ListFits, IsReported, SaysTrue, IsCollection, There

LEMMA ListEndMembers ==
  ASSUME Fits, ListFits, EndMembers, op.kind = "PROPFIND", Listing'
  PROVE  ListFits'
<1> DEFINE f == Phased(Top, "lockdb")
<1>1. /\ Walking /\ Top.phase = "members" /\ Top.left = {} /\ reported' = reported
      /\ TurnsTo(f) /\ f.phase = "lockdb" /\ f.seen = Top.seen
      /\ f.names = {} /\ f.rods = Top.rods
  BY EndMembersFits
<1>2. Walks
  BY DEF Walks
<1>3. Listing /\ Top \in Calls /\ CallFits(Top) /\ CallListed(Top, tree, locked)
  BY <1>1, <1>2, ListKeeps, TopFits DEF ListFits
<1>4. Top.names = {}
  BY <1>1, <1>3 DEF CallFits
<1> HIDE DEF f
<1>5. CallListed(f, tree, locked)
  BY <1>1, <1>3 DEF CallListed
<1>6. \A p : Covers(Top, p, tree) => Covers(f, p, tree)
  BY <1>1, <1>4 DEF Covers, Ahead, AheadLocked
<1>7. \A r \in BagToSet(reported') : Listable(r.rods, op, tree, locked)
  BY <1>1, <1>3 DEF ListFits
<1> QED BY <1>1, <1>2, <1>5, <1>6, <1>7, ListTurns

LEMMA ListLockDb ==
  ASSUME Fits, Root # Empty, ListFits, LockDb, Listing'
  PROVE  ListFits'
<1> DEFINE f == WithNames(Top, LockedEntries(res.rods))
<1>1. /\ Walking /\ Top.phase = "lockdb" /\ op.kind = "PROPFIND" /\ reported' = reported
      /\ TurnsTo(f) /\ f.phase = "locknull" /\ f.left = {} /\ f.seen = Top.seen
      /\ f.names = LockedEntries(res.rods) /\ f.rods = Top.rods
  BY LockDbFits
<1>2. Walks
  BY DEF Walks
<1>3. /\ Listing /\ Top \in Calls /\ CallFits(Top) /\ CallListed(Top, tree, locked)
      /\ res.rods = Top.rods /\ Top.rods \in Path /\ op # None
      /\ Len(stack) \in 1 .. Len(stack) /\ Top = stack[Len(stack)]
  BY <1>1, <1>2, ListKeeps, TopFits DEF ListFits, Calls
<1>4. Top.left = {} /\ Top.names = {}
  BY <1>1, <1>3 DEF CallFits
<1>5. Top.rods # Empty
  <2>1. IsPrefixOf(Root, op.src.rods) /\ Len(op.src.rods) <= Len(Top.rods)
    BY <1>1, <1>3, TypesFit, InSource DEF LookedUp
  <2>2. Root \in Seq(Name) /\ op.src.rods \in Seq(Name) /\ Top.rods \in Seq(Name)
    BY <1>1, <1>3, TopFits, NameAssumption DEF Requests, Resource, Path
  <2>3. Len(Root) <= Len(op.src.rods) /\ Len(Root) # 0
    BY <2>1, <2>2, PrefixLen DEF Empty
  <2>4. Len(Top.rods) # 0
    BY <2>1, <2>2, <2>3
  <2> QED BY <2>2, <2>4 DEF Empty
<1> HIDE DEF f
<1>6. CallListed(f, tree, locked)
  BY <1>1, <1>3 DEF CallListed, LockedEntries
<1>7. ASSUME NEW p, Listable(p, op, tree, locked), Covers(Top, p, tree)
      PROVE  Covers(f, p, tree)
  <2>1. p \notin DOMAIN tree /\ IsChild(Top.rods, p)
    BY <1>1, <1>4, <1>7 DEF Covers, Ahead, AheadLocked
  <2>2. p \in locked /\ p \in Path
    BY <2>1, <1>7, TypesFit DEF Listable
  <2>3. IsPrefixOf(Top.rods, p) /\ Len(p) = Len(Top.rods) + 1
    BY <2>1, <2>2, <1>3, ChildMeans
  <2> QED BY <2>1, <2>2, <2>3, <1>1, <1>3, <1>5 DEF LockedEntries, Covers, AheadLocked
<1>8. \A r \in BagToSet(reported') : Listable(r.rods, op, tree, locked)
  BY <1>1, <1>3 DEF ListFits
<1> QED BY <1>1, <1>2, <1>6, <1>7, <1>8, ListTurns

LEMMA ListLockNull ==
  ASSUME Fits, PastTrue, FlagsFit, ListFits, Walking, NEW path \in Top.names,
         LockNull(path), Listing'
  PROVE  ListFits'
<1> DEFINE f == WithNames(Top, Top.names \ {path})
           w == NullResource(path)
<1>1. /\ Top.phase = "locknull" /\ op.kind = "PROPFIND"
      /\ TurnsTo(f) /\ f.phase = "locknull" /\ f.left = {}
      /\ f.seen = Top.seen /\ f.names = Top.names \ {path} /\ f.rods = Top.rods
      /\ \/ path \in Top.seen /\ reported' = reported
         \/ /\ path \notin Top.seen
            /\ BagToSet(reported') = BagToSet(reported) \cup {w}
  BY LockNullFits
<1>2. w.rods = path /\ path \in Path /\ IsChild(Top.rods, path)
  BY NullFits
<1>3. Walks
  BY DEF Walks
<1>4. /\ Listing /\ Top \in Calls /\ CallFits(Top) /\ CallListed(Top, tree, locked)
      /\ Top.rods \in Path /\ op \in Requests /\ op # None
      /\ Len(stack) \in Nat /\ Len(stack) \in 1 .. Len(stack) /\ Top = stack[Len(stack)]
      /\ Top.depth = op.depth - (Len(stack) - 1)
      /\ Len(Top.rods) = (Len(stack) - 1) + Len(op.src.rods)
      /\ CallTrue(Top, tree, past)
  BY <1>1, <1>3, ListKeeps, TopFits DEF ListFits, Calls, FlagsFit
<1>5. Top.left = {}
  BY <1>1, <1>4 DEF CallFits
<1> HIDE DEF f, w
<1>6. path \notin Top.seen => path \notin DOMAIN tree
  <2>1. past.others = 0
    BY <1>4 DEF PastTrue, Listing
  <2> QED BY <2>1, <1>1, <1>2, <1>4, <1>5 DEF CallTrue
<1>7. Listable(path, op, tree, locked)
  <2>1. IsPrefixOf(op.src.rods, Top.rods)
    BY <1>4, InSource
  <2>2. IsPrefixOf(Top.rods, path) /\ Len(path) = Len(Top.rods) + 1
    BY <1>2, <1>4, ChildMeans
  <2>3. op.src.rods \in Seq(Name) /\ Top.rods \in Seq(Name) /\ path \in Seq(Name)
    BY <1>2, <1>4 DEF Requests, Resource, Path
  <2>4. IsPrefixOf(op.src.rods, path)
    BY <2>1, <2>2, <2>3, PrefixTransitive
  <2>5. Len(path) - Len(op.src.rods) <= op.depth
    <3>1. Top.depth \in Nat /\ Top.depth # 0 /\ op.depth \in Int
      BY <1>1, <1>4, BoundAssumption DEF Calls, CallFits, Requests, Depth
    <3>2. Len(op.src.rods) \in Nat
      BY <2>3
    <3> QED BY <3>1, <3>2, <2>2, <1>4
  <2>6. /\ path \in locked /\ path # Empty /\ Front(path) = Top.rods
        /\ Top.rods \in DOMAIN tree /\ tree[Top.rods] = Collection
    BY <1>1, <1>2, <1>4 DEF CallListed, IsChild
  <2> QED BY <2>4, <2>5, <2>6 DEF Listable
<1>8. CallListed(f, tree, locked)
  BY <1>1, <1>4 DEF CallListed
<1>9. /\ \A r \in BagToSet(reported') : Listable(r.rods, op, tree, locked)
      /\ BagToSet(reported) \subseteq BagToSet(reported')
  BY <1>1, <1>2, <1>4, <1>7 DEF ListFits
<1>10. ASSUME NEW p, Covers(Top, p, tree)
       PROVE  Covers(f, p, tree) \/ \E r \in BagToSet(reported') : r.rods = p
  <2>1. p \notin DOMAIN tree /\ p \in Top.names
    BY <1>1, <1>5, <1>10 DEF Covers, Ahead, AheadLocked
  <2>2. CASE p = path
    <3>1. path \notin Top.seen
      BY <2>1, <2>2, <1>4 DEF CallListed
    <3>2. w \in BagToSet(reported')
      BY <3>1, <1>1
    <3> QED BY <3>2, <2>2, <1>2
  <2>3. CASE p # path
    BY <2>1, <2>3, <1>1 DEF Covers, AheadLocked
  <2> QED BY <2>2, <2>3
<1> QED BY <1>1, <1>3, <1>8, <1>9, <1>10, ListTurns

LEMMA ListEndLockNull ==
  ASSUME Fits, ListFits, EndLockNull, Listing'
  PROVE  ListFits'
<1>1. /\ Walking /\ GoesBack("ok") /\ Top.phase = "locknull" /\ Top.names = {}
      /\ op.kind = "PROPFIND" /\ reported' = reported
  BY EndLockNullFits DEF GoesBack
<1>2. Walks
  BY DEF Walks
<1>3. Listing /\ CallFits(Top)
  BY <1>1, <1>2, ListKeeps, TopFits
<1>4. \A p : ~ Covers(Top, p, tree)
  BY <1>1, <1>3 DEF CallFits, Covers, Ahead, AheadLocked
<1>5. \A r \in BagToSet(reported') : Listable(r.rods, op, tree, locked)
  BY <1>1, <1>3 DEF ListFits
<1> QED BY <1>1, <1>2, <1>4, <1>5, ListGoesBack

LEMMA ListBegins ==
  ASSUME Fits, Request, Listing'
  PROVE  ListFits'
<1>1. Fits' /\ Arrives /\ BagToSet(reported') = {}
  BY RequestComes, NoReports DEF Arrives
<1>2. /\ op'.src.exists \/ op'.src.rods \in locked
      /\ SaysTrue(op'.src) /\ Len(stack') = 1
      /\ stack' = <<Frame(op'.src, op'.depth)>> /\ res' = op'.src
      /\ tree' = tree /\ locked' = locked /\ op' \in Requests
  BY <1>1 DEF Arrives, Listing
<1>3. stack'[1] = Frame(op'.src, op'.depth)
  BY <1>2
<1>4. /\ stack'[1].phase = "visit" /\ stack'[1].names = {} /\ stack'[1].seen = {}
      /\ stack'[1].rods = op'.src.rods
  BY <1>3 DEF Frame
<1>5. \A i \in 1 .. Len(stack') : CallListed(stack'[i], tree, locked)
  BY <1>2, <1>4 DEF CallListed
<1>6. \A p : Listable(p, op', tree, locked) => Covers(stack'[1], p, tree)
  BY <1>4 DEF Listable, Covers, Ahead
<1>7. Listable(res'.rods, op', tree, locked)
  <2>1. op'.src.rods \in Seq(Name) /\ op'.depth \in Nat
    BY <1>2, BoundAssumption DEF Requests, Resource, Path, Depth
  <2>2. /\ IsPrefixOf(op'.src.rods, op'.src.rods)
        /\ Len(op'.src.rods) - Len(op'.src.rods) <= op'.depth
    BY <2>1, PrefixSelf
  <2>3. op'.src.rods \in DOMAIN tree \cup locked
    BY <1>2 DEF SaysTrue, There
  <2> QED BY <2>2, <2>3, <1>2 DEF Listable
<1>8. /\ res'.exists = (res'.rods \in DOMAIN tree')
      /\ res'.collection = (res'.rods \in DOMAIN tree' /\ tree'[res'.rods] = Collection)
  BY <1>2 DEF SaysTrue, IsCollection, There
<1>9. 1 \in 1 .. Len(stack')
  BY <1>2
<1> QED BY <1>1, <1>2, <1>5, <1>6, <1>7, <1>8, <1>9
        DEF ListFits, SaysTrue, IsCollection, There

LEMMA ListStep ==
  Root # Empty /\ Fits /\ PastTrue /\ FlagsFit /\ ListFits /\ [Next]_vars => ListFits'
<1> SUFFICES ASSUME Root # Empty, Fits, PastTrue, FlagsFit, ListFits, [Next]_vars, Listing'
             PROVE  ListFits'
  BY DEF ListFits
<1>1. CASE UNCHANGED vars
  BY <1>1 DEF vars, ListFits, Listing, IsReported, Walking, Top, SaysTrue, There, IsCollection
<1>2. CASE Request
  BY <1>2, ListBegins
<1>3. CASE Answer
  BY <1>3 DEF Answer, Listing
<1>4. CASE Acts
  <2>1. Keeps /\ op.phase \notin {"walk", "done"}
    BY <1>4, ActsKeep, ActsFit
  <2> QED BY <2>1 DEF PastTrue, Keeps, Listing
<1>5. CASE Others
  BY <1>5, OthersFits DEF Meanwhile, Listing
<1>6. CASE Walks
  <2>1. op.kind = "PROPFIND"
    BY <1>6, WalksKeep DEF Keeps, Listing
  <2>2. ~ VisitCopy
    BY <2>1 DEF VisitCopy, Visiting
  <2>3. ~ Broken
    BY BrokenFits DEF Listing
  <2> QED BY <1>6, <2>1, <2>2, <2>3, ListVisit, ListOpen, ListMember, ListEndMembers,
             ListLockDb, ListLockNull, ListEndLockNull DEF Walks
<1> QED BY <1>1, <1>2, <1>3, <1>4, <1>5, <1>6, StepCases

LEMMA ListedAll ==
  ASSUME Fits, ListFits
  PROVE  ListsAll
<1> SUFFICES ASSUME Answered("PROPFIND"), past.calm
             PROVE  {r.rods : r \in BagToSet(reported)} =
                      {p \in DOMAIN tree : IsPrefixOf(op.src.rods, p) /\ DepthOf(p) <= op.depth}
                        \cup {p \in locked :
                                /\ IsPrefixOf(op.src.rods, p) /\ DepthOf(p) <= op.depth
                                /\ ~ There(p) /\ (p = op.src.rods \/ HasParent(p))}
  BY DEF ListsAll
<1>1. Listing /\ op.phase = "done"
  BY DEF Answered, Listing
<1>2. Len(stack) = 0
  BY <1>1, TypesFit DEF Walking, Listing
<1>3. \A i \in 1 .. Len(stack) : FALSE
  BY <1>2
<1>4. /\ \A r \in BagToSet(reported) : Listable(r.rods, op, tree, locked)
      /\ \A p : Listable(p, op, tree, locked) => \E r \in BagToSet(reported) : r.rods = p
  BY <1>1, <1>3 DEF ListFits, IsReported
<1>5. \A p : Listable(p, op, tree, locked) <=>
               p \in {q \in DOMAIN tree :
                        IsPrefixOf(op.src.rods, q) /\ DepthOf(q) <= op.depth}
                  \cup {q \in locked :
                          /\ IsPrefixOf(op.src.rods, q) /\ DepthOf(q) <= op.depth
                          /\ ~ There(q) /\ (q = op.src.rods \/ HasParent(q))}
  BY DEF Listable, DepthOf, There, HasParent, IsCollection
<1> QED BY <1>4, <1>5

\* A PROPFIND that nothing disturbed lists all that the tree and the lock
\* database have, down to its depth, and nothing else; if "/" is not what is
\* served, whose locked names are not found.
THEOREM ListsAllHolds == Spec => [](Root # Empty => ListsAll)
<1>1. Init => ListFits
  BY DEF Init, ListFits, Listing
<1>2. (Root # Empty => ListFits) /\ Fits /\ PastTrue /\ FlagsFit /\ [Next]_vars
        => (Root # Empty => ListFits)'
  BY ListStep
<1>3. Fits /\ (Root # Empty => ListFits) => (Root # Empty => ListsAll)
  BY ListedAll
<1> QED BY <1>1, <1>2, <1>3, StackSound, PastSound, FlagsSound, PTL DEF Spec

-----------------------------------------------------------------------------
(* COPY and MOVE: what they change, and what they leave.                   *)

Copying == op # None /\ op.kind \in {"COPY", "MOVE"}

\* What mod_dav has made sure of, when it looked up source and destination.
CopyAllowed ==
  Copying =>
    /\ op.src.rods # op.dst.rods
    /\ op.src.rods \in DOMAIN past.tree
    /\ op.src.collection = (past.tree[op.src.rods] = Collection)
    /\ op.depth \in {0, Infinity}
    /\ op.kind = "MOVE" => op.depth = Infinity
    /\ op.src.collection => ~ IsPrefixOf(op.dst.rods, op.src.rods)
    /\ op.src.collection /\ op.depth = Infinity =>
         ~ IsPrefixOf(op.src.rods, op.dst.rods)

\* Nothing is below a path that is not there.
LEMMA NothingBelow ==
  ASSUME TreeFits(tree), NEW path \in Path, path \notin DOMAIN tree
  PROVE  \A p \in DOMAIN tree : ~ IsPrefixOf(path, p)
BY AboveIsCollection DEF TreeFits

LEMMA NotRoot ==
  ASSUME Root # Empty, NEW p \in Path, IsPrefixOf(Root, p)
  PROVE  p # Empty
<1>1. Root \in Seq(Name) /\ p \in Seq(Name) /\ Root # <<>>
  BY NameAssumption DEF Path, Empty
<1>2. Len(Root) <= Len(p) /\ Len(Root) > 0
  BY <1>1, PrefixLen
<1> QED BY <1>1, <1>2 DEF Empty

LEMMA AllowedStep ==
  Root # Empty /\ Fits /\ CopyAllowed /\ [Next]_vars => CopyAllowed'
<1> SUFFICES ASSUME Root # Empty, Fits, CopyAllowed, [Next]_vars, Copying'
             PROVE  CopyAllowed'
  BY DEF CopyAllowed
<1>1. CASE UNCHANGED vars
  BY <1>1 DEF vars, CopyAllowed, Copying
<1>2. CASE Answer
  BY <1>2 DEF Answer, Copying
<1>3. CASE Request
  <2>1. Fits' /\ Arrives
    BY <1>3, RequestComes
  <2>2. /\ Allowed(op'.src, op'.dst, op'.depth, TRUE)
        /\ op'.depth \in {0, Infinity}
        /\ op'.kind = "MOVE" => op'.depth = Infinity
        /\ SaysTrue(op'.src) /\ SaysTrue(op'.dst) /\ op' \in Requests
        /\ past'.tree = tree
    BY <2>1, LookedHas DEF Arrives, Copying
  <2>3. LookedUp(op')
    <3>1. op' # None => LookedUp(op')
      BY <2>1 DEF Fits, RequestFits, LookedUp
    <3> QED BY <3>1 DEF Copying
  <2>4. op'.src.rods \in Path /\ op'.dst.rods \in Path
    BY <2>2 DEF Requests, Resource
  <2>5. op'.src.rods # Empty /\ op'.dst.rods # Empty
    BY <2>3, <2>4, NotRoot DEF LookedUp
  <2>6. op'.src.rods \in DOMAIN tree
    BY <2>2 DEF Allowed, SaysTrue, There
  <2>7. op'.src.collection = (tree[op'.src.rods] = Collection)
    BY <2>2, <2>6 DEF SaysTrue, IsCollection, There
  <2>8. op'.src.rods # op'.dst.rods
    BY <2>2 DEF Allowed, IsSame
  <2>9. /\ op'.src.collection => ~ IsPrefixOf(op'.dst.rods, op'.src.rods)
        /\ op'.src.collection /\ op'.depth = Infinity =>
             ~ IsPrefixOf(op'.src.rods, op'.dst.rods)
    BY <2>2, <2>5, <2>8 DEF Allowed, IsParent
  <2> QED BY <2>2, <2>6, <2>7, <2>8, <2>9 DEF CopyAllowed
<1>4. CASE Acts \/ Walks
  BY <1>4, ActsKeep, WalksKeep DEF Keeps, CopyAllowed, Copying
<1>5. CASE Others
  BY <1>5, OthersFits DEF Meanwhile, CopyAllowed, Copying
<1> QED BY <1>1, <1>2, <1>3, <1>4, <1>5, StepCases

\* What mod_dav has made sure of stays so.
THEOREM AllowedSound == Spec => [](Root # Empty => CopyAllowed)
<1>1. Init => CopyAllowed
  BY DEF Init, CopyAllowed, Copying
<1>2. Fits /\ (Root # Empty => CopyAllowed) /\ [Next]_vars
        => (Root # Empty => CopyAllowed)'
  BY AllowedStep
<1> QED BY <1>1, <1>2, StackSound, PTL DEF Spec

\* The part of a collection that is copied is neither above nor below the
\* destination.
LEMMA Apart ==
  ASSUME Fits, CopyAllowed, Copying, op.src.collection,
         NEW p \in Path, IsPrefixOf(op.src.rods, p),
         Len(p) - Len(op.src.rods) <= op.depth
  PROVE  ~ IsPrefixOf(op.dst.rods, p)
<1> SUFFICES ASSUME IsPrefixOf(op.dst.rods, p) PROVE FALSE
  OBVIOUS
<1>1. /\ op.src.rods \in Seq(Name) /\ op.dst.rods \in Seq(Name) /\ p \in Seq(Name)
      /\ op \in Requests
  BY TypesFit DEF Copying, Requests, Resource, Path
<1>2. /\ ~ IsPrefixOf(op.dst.rods, op.src.rods) /\ op.depth \in {0, Infinity}
      /\ op.depth = Infinity => ~ IsPrefixOf(op.src.rods, op.dst.rods)
  BY DEF CopyAllowed
<1>3. Len(op.src.rods) \in Nat /\ Len(op.dst.rods) \in Nat /\ Len(p) \in Nat
  BY <1>1
<1>4. Len(op.src.rods) < Len(op.dst.rods)
  <2>1. Len(op.dst.rods) <= Len(op.src.rods) => IsPrefixOf(op.dst.rods, op.src.rods)
    BY <1>1, PrefixComparable
  <2> QED BY <2>1, <1>2, <1>3
<1>5. IsPrefixOf(op.src.rods, op.dst.rods)
  BY <1>1, <1>3, <1>4, PrefixComparable
<1>6. Len(op.dst.rods) <= Len(p)
  BY <1>1, PrefixLen
<1> QED BY <1>2, <1>3, <1>4, <1>5, <1>6

\* The walk over a collection that is being copied never comes to the copy; if
\* "/" is not what is served, which the test for a parent takes for no parent.
THEOREM NeverCopiesItsCopyHolds == Spec => [](Root # Empty => NeverCopiesItsCopy)
<1>1. Fits /\ CopyAllowed => NeverCopiesItsCopy
  <2> SUFFICES ASSUME Fits, CopyAllowed, op # None, op.kind = "COPY", op.src.collection,
                      NEW i \in 1 .. Len(stack)
               PROVE  ~ IsPrefixOf(op.dst.rods, stack[i].rods)
    BY DEF NeverCopiesItsCopy
  <2>1. Walking
    BY DEF Walking
  <2>2. /\ stack[i] \in Calls /\ LevelFits(stack[i], i, op) /\ op \in Requests
        /\ Len(stack) \in Nat
    BY <2>1, TopFits, TopCall DEF Fits, StackFits
  <2>3. stack[i].rods \in Path /\ IsPrefixOf(op.src.rods, stack[i].rods)
    BY <2>1, <2>2, InSource DEF Calls
  <2>4. Len(stack[i].rods) - Len(op.src.rods) <= op.depth
    <3>1. /\ stack[i].depth = op.depth - (i - 1) /\ stack[i].depth \in Nat
          /\ Len(stack[i].rods) = (i - 1) + Len(op.src.rods)
          /\ op.src.rods \in Seq(Name) /\ op.depth \in Nat
      BY <2>2, BoundAssumption DEF LevelFits, Calls, Requests, Resource, Path, Depth
    <3>2. Len(op.src.rods) \in Nat
      BY <3>1
    <3> QED BY <3>1, <3>2, <2>2
  <2> QED BY <2>3, <2>4, Apart DEF Copying
<1> QED BY <1>1, StackSound, AllowedSound, PTL

\* What a copy is put into keeps the name that is not the source's.
LEMMA MirrorRebases ==
  ASSUME Root # Empty, Fits, op # None, NEW p \in Path, IsPrefixOf(op.src.rods, p)
  PROVE  /\ Mirror(p) = Rebase(p, op.src.rods, op.dst.rods)
         /\ IsPrefixOf(op.dst.rods, Mirror(p))
<1>1. /\ op.src.rods \in Path /\ op.dst.rods \in Path /\ IsPrefixOf(Root, op.src.rods)
  BY TypesFit DEF LookedUp, Requests, Resource
<1>2. op.src.rods # Empty
  BY <1>1, NotRoot
<1>3. Mirror(p) = Rebase(p, op.src.rods, op.dst.rods)
  BY <1>2 DEF Mirror, Rebase
<1> QED BY <1>1, <1>3, RebaseMeans DEF Path

\* Outside the destination all is as it was.
ElsewhereSame ==
  Copying /\ past.others = 0 /\ (op.kind = "MOVE" => op.phase # "done") =>
    \A p : ~ IsPrefixOf(op.dst.rods, p) =>
      /\ p \in DOMAIN tree <=> p \in DOMAIN past.tree
      /\ p \in DOMAIN tree => tree[p] = past.tree[p]

\* What a step for the request itself leaves as it is.
LeavesRest ==
  \A p \in DOMAIN tree \cup DOMAIN tree' :
    \/ p \in DOMAIN tree \cap DOMAIN tree' /\ tree'[p] = tree[p]
    \/ IsPrefixOf(op.dst.rods, p)
    \/ op.kind = "MOVE" /\ op.phase = "rename" /\ op'.phase = "done"
         /\ IsPrefixOf(op.src.rods, p)

\* The same of a step.
LEMMA RenameMoves ==
  ASSUME Fits, Rename
  PROVE  /\ \A p \in DOMAIN tree : ~ IsPrefixOf(op.src.rods, p) =>
              p \in DOMAIN tree' /\ tree'[p] = tree[p] /\ ~ IsPrefixOf(op.dst.rods, p)
         /\ \A q \in DOMAIN tree : IsPrefixOf(op.src.rods, q) =>
              /\ Rebase(q, op.src.rods, op.dst.rods) \in DOMAIN tree'
              /\ tree'[Rebase(q, op.src.rods, op.dst.rods)] = tree[q]
              /\ IsPrefixOf(op.dst.rods, Rebase(q, op.src.rods, op.dst.rods))
         /\ \A p \in DOMAIN tree' :
              \/ p \in DOMAIN tree /\ ~ IsPrefixOf(op.src.rods, p)
              \/ \E q \in DOMAIN tree : /\ IsPrefixOf(op.src.rods, q)
                                       /\ p = Rebase(q, op.src.rods, op.dst.rods)
<1>1. /\ tree' = Renamed(tree, op.src.rods, op.dst.rods)
      /\ op.src.rods \in Path /\ op.dst.rods \in Path /\ TreeFits(tree)
      /\ op.dst.rods \notin DOMAIN tree /\ op.dst.rods # Empty
      /\ Front(op.dst.rods) \in DOMAIN tree
      /\ tree[Front(op.dst.rods)] = Collection
      /\ ~ IsPrefixOf(op.src.rods, op.dst.rods)
  BY RenameFits
<1> QED BY <1>1, RenamedMeans

LEMMA StepLeavesRest ==
  ASSUME Root # Empty, Fits, Acts \/ Walks
  PROVE  LeavesRest
<1>1. CASE tree' = tree
  BY <1>1 DEF LeavesRest
<1>2. CASE Remove
  BY <1>2, RemoveFits DEF LeavesRest
<1>3. CASE Rename
  <2>1. op.kind = "MOVE" /\ op.phase = "rename" /\ op'.phase = "done"
    BY <1>3, RenameFits DEF Steps
  <2>2. ASSUME NEW p \in DOMAIN tree \cup DOMAIN tree'
        PROVE  \/ p \in DOMAIN tree \cap DOMAIN tree' /\ tree'[p] = tree[p]
               \/ IsPrefixOf(op.dst.rods, p)
               \/ IsPrefixOf(op.src.rods, p)
    BY <1>3, RenameMoves
  <2> QED BY <2>1, <2>2 DEF LeavesRest
<1>4. CASE GetParent
  BY <1>4, <1>1, GetParentFits
<1>5. CASE Create
  <2>1. op.dst.rods \in Path
    BY <1>5, CreateFits, TypesFit DEF Requests, Resource
  <2>2. IsPrefixOf(op.dst.rods, op.dst.rods)
    BY <2>1, PrefixSelf DEF Path
  <2> QED BY <2>2, <1>5, CreateFits DEF LeavesRest
<1>6. CASE Refused
  BY <1>6, <1>1, RefusedFits
<1>7. CASE VisitCopy
  <2>1. /\ Walking /\ DOMAIN tree' = DOMAIN tree \cup {Mirror(res.rods)}
        /\ \A p \in DOMAIN tree : p # Mirror(res.rods) => tree'[p] = tree[p]
    BY <1>7, VisitCopyFits
  <2>2. /\ res.rods = Top.rods /\ Top = stack[Len(stack)]
        /\ Len(stack) \in 1 .. Len(stack) /\ res.rods \in Path /\ op # None
    BY <2>1, TopFits DEF Calls
  <2>3. IsPrefixOf(op.src.rods, res.rods)
    BY <2>1, <2>2, InSource
  <2>4. IsPrefixOf(op.dst.rods, Mirror(res.rods))
    BY <2>2, <2>3, MirrorRebases
  <2> QED BY <2>1, <2>4 DEF LeavesRest
<1>8. CASE Walks
  BY <1>8, <1>1, <1>7, WalksKeep
<1> QED BY <1>2, <1>3, <1>4, <1>5, <1>6, <1>8 DEF Acts

LEMMA ElsewhereStep ==
  Root # Empty /\ Fits /\ ElsewhereSame /\ [Next]_vars => ElsewhereSame'
<1> SUFFICES ASSUME Root # Empty, Fits, ElsewhereSame, [Next]_vars,
                    Copying', past'.others = 0, op'.kind = "MOVE" => op'.phase # "done",
                    NEW p, ~ IsPrefixOf(op'.dst.rods, p)
             PROVE  /\ p \in DOMAIN tree' <=> p \in DOMAIN past'.tree
                    /\ p \in DOMAIN tree' => tree'[p] = past'.tree[p]
  BY DEF ElsewhereSame
<1>1. CASE UNCHANGED vars
  BY <1>1 DEF vars, ElsewhereSame, Copying
<1>2. CASE Answer
  BY <1>2 DEF Answer, Copying
<1>3. CASE Request
  BY <1>3, RequestComes, LookedHas DEF Arrives
<1>4. CASE Acts \/ Walks
  <2>1. Keeps /\ LeavesRest
    BY <1>4, ActsKeep, WalksKeep, StepLeavesRest
  <2>2. Copying /\ past.others = 0 /\ op'.dst = op.dst /\ past'.tree = past.tree
    BY <2>1 DEF Keeps, Copying
  <2>3. op.kind = "MOVE" => op.phase # "done"
    BY <1>4, ActsFit, WalksKeep
  <2>4. /\ p \in DOMAIN tree <=> p \in DOMAIN past.tree
        /\ p \in DOMAIN tree => tree[p] = past.tree[p]
    BY <2>2, <2>3 DEF ElsewhereSame
  <2>5. ~ (op.kind = "MOVE" /\ op'.phase = "done")
    BY <2>1 DEF Keeps
  <2>6. /\ p \in DOMAIN tree <=> p \in DOMAIN tree'
        /\ p \in DOMAIN tree => tree'[p] = tree[p]
    BY <2>1, <2>2, <2>5 DEF LeavesRest
  <2> QED BY <2>2, <2>4, <2>6
<1>5. CASE Others
  <2>1. past.others \in Nat
    BY TypesFit DEF Pasts
  <2> QED BY <2>1, <1>5, OthersFits DEF Meanwhile
<1> QED BY <1>1, <1>2, <1>3, <1>4, <1>5, StepCases

\* Outside the destination a COPY, and a MOVE before it renames, leaves all.
THEOREM ElsewhereSound == Spec => [](Root # Empty => ElsewhereSame)
<1>1. Init => ElsewhereSame
  BY DEF Init, ElsewhereSame, Copying
<1>2. Fits /\ (Root # Empty => ElsewhereSame) /\ [Next]_vars
        => (Root # Empty => ElsewhereSame)'
  BY ElsewhereStep
<1> QED BY <1>1, <1>2, StackSound, PTL DEF Spec

\* Copying a collection leaves it as it is, also where the destination that is
\* removed before it lies above or below it, and also if the copy fails.
THEOREM SourceSurvivesHolds == Spec => [](Root # Empty => SourceSurvives)
<1>1. Fits /\ CopyAllowed /\ ElsewhereSame => SourceSurvives
  <2> SUFFICES ASSUME Fits, CopyAllowed, ElsewhereSame, op # None, op.kind = "COPY",
                      op.src.collection, past.others = 0, NEW p \in DOMAIN past.tree,
                      IsPrefixOf(op.src.rods, p), DepthOf(p) <= op.depth
               PROVE  There(p) /\ tree[p] = past.tree[p]
    BY DEF SourceSurvives
  <2>1. Copying /\ p \in Path
    BY TypesFit, TreeAssumption DEF Copying
  <2>2. ~ IsPrefixOf(op.dst.rods, p)
    BY <2>1, Apart DEF DepthOf
  <2> QED BY <2>1, <2>2 DEF ElsewhereSame, There
<1> QED BY <1>1, StackSound, AllowedSound, ElsewhereSound, PTL

\* A request changes nothing but the destination and what lies below it (the
\* source too, if it is a MOVE), also where a call of it fails or where others
\* change what it has looked up.
THEOREM CopyConfinedHolds == ASSUME Root # Empty PROVE Spec => CopyConfined
<1>1. Fits /\ [Next]_vars =>
        [op # None /\ op.phase # "done" /\ past'.others = past.others =>
           \A p \in DOMAIN tree \cup DOMAIN tree' :
             \/ p \in DOMAIN tree \cap DOMAIN tree' /\ tree'[p] = tree[p]
             \/ IsPrefixOf(op.dst.rods, p)
             \/ op.kind = "MOVE" /\ IsPrefixOf(op.src.rods, p)]_vars
  <2> SUFFICES ASSUME Fits, Next, op # None, op.phase # "done",
                      past'.others = past.others
               PROVE  \A p \in DOMAIN tree \cup DOMAIN tree' :
                        \/ p \in DOMAIN tree \cap DOMAIN tree' /\ tree'[p] = tree[p]
                        \/ IsPrefixOf(op.dst.rods, p)
                        \/ op.kind = "MOVE" /\ IsPrefixOf(op.src.rods, p)
    OBVIOUS
  <2>1. ~ Request
    BY RequestComes DEF Arrives
  <2>2. ~ Answer
    BY DEF Answer
  <2>3. ~ Others
    <3>1. past.others \in Nat
      BY TypesFit DEF Pasts
    <3> QED BY <3>1, OthersFits DEF Meanwhile
  <2>4. LeavesRest
    BY <2>1, <2>2, <2>3, StepCases, StepLeavesRest
  <2> QED BY <2>4 DEF LeavesRest
<1> QED BY <1>1, StackSound, PTL DEF Spec, CopyConfined

-----------------------------------------------------------------------------
(* COPY and MOVE: the destination becomes what the source was.             *)

\* What COPY or MOVE o is to copy of tree t.
OfSource(p, o, t) ==
  p \in DOMAIN t /\ IsPrefixOf(o.src.rods, p) /\ Len(p) - Len(o.src.rods) <= o.depth

Place(p, o) == Rebase(p, o.src.rods, o.dst.rods)

\* What the walk will still come to.
Pending(p) == \E i \in 1 .. Len(stack) : Ahead(stack[i], p)

PendingOutside(p) == \E i \in 1 .. Len(stack) - 1 : Ahead(stack[i], p)

\* What call f has found is in tree t.
CallCopies(f, t) ==
  /\ f.phase # "visit" => f.rods \in DOMAIN t /\ t[f.rods] = Collection
  /\ \A e \in f.left : <<Append(f.rods, e[1]), e[2]>> \in TreeOf(t)

Cleared == \A q \in DOMAIN tree : ~ IsPrefixOf(op.dst.rods, q)

HasCopied ==
  /\ \A p : OfSource(p, op, past.tree) /\ ~ Pending(p) =>
       Place(p, op) \in DOMAIN tree /\ tree[Place(p, op)] = past.tree[p]
  /\ \A q \in DOMAIN tree : IsPrefixOf(op.dst.rods, q) =>
       \E p : OfSource(p, op, past.tree) /\ ~ Pending(p) /\ q = Place(p, op)

WalkKnows ==
  /\ Walking /\ Top.phase = "visit" =>
       <<res.rods, res.collection>> \in TreeOf(past.tree)
  /\ \A i \in 1 .. Len(stack) : CallCopies(stack[i], past.tree)

CopyFits ==
  Copying /\ past.calm =>
    /\ op.phase \in {"parent", "rename"} => Cleared
    /\ op.phase \in {"walk", "done"} => HasCopied
    /\ WalkKnows

LEMMA PendingTop ==
  ASSUME Fits, Walking, NEW p
  PROVE  Pending(p) <=> PendingOutside(p) \/ Ahead(Top, p)
<1>1. Len(stack) \in Nat /\ Len(stack) >= 1 /\ Top = stack[Len(stack)]
  BY TopFits
<1> QED BY <1>1 DEF Pending, PendingOutside

LEMMA PendingTurns ==
  ASSUME Fits, NEW f, TurnsTo(f), NEW p
  PROVE  Pending(p)' <=> PendingOutside(p) \/ Ahead(f, p)
<1>1. Len(stack) \in Nat /\ Len(stack) >= 1 /\ Walking
  BY TopFits DEF TurnsTo
<1> QED BY <1>1 DEF Pending, PendingOutside, TurnsTo

LEMMA PendingGoesBack ==
  ASSUME Fits, NEW reply, GoesBack(reply), NEW p
  PROVE  Pending(p)' <=> PendingOutside(p)
<1>1. Len(stack) \in Nat /\ Len(stack) >= 1 /\ Walking
  BY TopFits DEF GoesBack
<1> QED BY <1>1 DEF Pending, PendingOutside, GoesBack

\* The outer calls come to nothing that the innermost one is about.
LEMMA OutsideAvoids ==
  ASSUME Fits, Walking, NEW p \in Path, IsPrefixOf(Top.rods, p)
  PROVE  ~ PendingOutside(p)
<1> SUFFICES ASSUME NEW i \in 1 .. Len(stack) - 1, Ahead(stack[i], p) PROVE FALSE
  BY DEF PendingOutside
<1>1. Avoids(stack[i], p)
  BY OuterAvoid
<1>2. Len(stack) \in Nat /\ StackFits
  BY TopFits DEF Fits
<1>3. i \in 1 .. Len(stack) /\ Len(stack) \in 1 .. Len(stack) /\ i < Len(stack)
  BY <1>2
<1>4. stack[i].phase = "members"
  BY <1>2, <1>3 DEF StackFits, NestFits
<1> QED BY <1>1, <1>4 DEF Avoids, Ahead

LEMMA CopyKeeps ==
  ASSUME Fits, Walks, op.kind = "COPY", past'.calm
  PROVE  /\ Copying /\ past.calm /\ past' = past /\ op'.src = op.src /\ op'.dst = op.dst
         /\ op'.phase \in {"walk", "done"} /\ op.phase = "walk" /\ op \in Requests
         /\ op'.depth = op.depth
         /\ \A p : OfSource(p, op', past'.tree) <=> OfSource(p, op, past.tree)
         /\ \A p : Place(p, op') = Place(p, op)
<1>1. /\ Keeps /\ op.phase = "walk" /\ op'.phase \in {"walk", "done"} /\ op # None
  BY WalksKeep, WalksFit
<1>2. op \in Requests
  BY <1>1, TypesFit
<1> QED BY <1>1, <1>2 DEF Keeps, Copying, OfSource, Place

\* A step that copies nothing, and leaves as much to copy.
LEMMA CopySame ==
  ASSUME Fits, Walks, op.kind = "COPY", past'.calm, CopyFits, tree' = tree,
         \A p : OfSource(p, op, past.tree) => (Pending(p)' <=> Pending(p)),
         WalkKnows'
  PROVE  CopyFits'
<1>1. /\ Copying /\ past.calm /\ past' = past /\ op'.src = op.src /\ op'.dst = op.dst
      /\ op'.phase \in {"walk", "done"} /\ op.phase = "walk"
      /\ \A p : OfSource(p, op', past'.tree) <=> OfSource(p, op, past.tree)
      /\ \A p : Place(p, op') = Place(p, op)
  BY CopyKeeps
<1>2. HasCopied
  BY <1>1 DEF CopyFits
<1>3. HasCopied'
  BY <1>1, <1>2 DEF HasCopied
<1> QED BY <1>1, <1>3 DEF CopyFits

\* What is copied, and the collections on the way to it.
LEMMA SourceMeans ==
  ASSUME Fits, CopyAllowed, Copying, NEW p, OfSource(p, op, past.tree)
  PROVE  /\ p \in Path /\ op.src.rods \in Path /\ op.dst.rods \in Path
         /\ TreeFits(past.tree) /\ Len(p) \in Nat /\ Len(op.src.rods) \in Nat
         /\ op.depth \in Nat
         /\ p # op.src.rods => op.src.collection
         /\ past.tree[p] = Collection => op.src.collection
<1>1. /\ past.tree \in Trees /\ op \in Requests
  BY TypesFit DEF Copying
<1>2. TreeFits(past.tree) /\ op.src.rods \in Path /\ op.dst.rods \in Path
  BY <1>1, TreeAssumption DEF TreeFits, Requests, Resource
<1>3. p \in Path /\ p \in DOMAIN past.tree /\ IsPrefixOf(op.src.rods, p)
  BY <1>2 DEF OfSource, TreeFits
<1>4. p # op.src.rods => past.tree[op.src.rods] = Collection
  BY <1>2, <1>3, AboveIsCollection DEF TreeFits
<1>5. op.src.collection = (past.tree[op.src.rods] = Collection)
  BY DEF CopyAllowed
<1>6. op.depth \in Nat
  BY <1>1, BoundAssumption DEF Requests, Depth
<1>7. Len(p) \in Nat /\ Len(op.src.rods) \in Nat
  BY <1>2, <1>3 DEF Path
<1> QED BY <1>2, <1>3, <1>4, <1>5, <1>6, <1>7

\* What a call has come to is to be copied.
LEMMA ComesToSource ==
  ASSUME Fits, Walking, op.kind = "COPY", NEW i \in 1 .. Len(stack),
         stack[i].rods \in DOMAIN past.tree
  PROVE  OfSource(stack[i].rods, op, past.tree)
<1>1. /\ stack[i] \in Calls /\ LevelFits(stack[i], i, op) /\ op \in Requests
      /\ Len(stack) \in Nat
  BY TopFits, TopCall DEF Fits, StackFits
<1>2. IsPrefixOf(op.src.rods, stack[i].rods)
  BY InSource
<1>3. /\ stack[i].depth = op.depth - (i - 1) /\ stack[i].depth \in Nat
      /\ Len(stack[i].rods) = (i - 1) + Len(op.src.rods)
      /\ op.src.rods \in Seq(Name) /\ op.depth \in Nat
  BY <1>1, BoundAssumption DEF LevelFits, Calls, Requests, Resource, Path, Depth
<1>4. Len(op.src.rods) \in Nat
  BY <1>3
<1>5. Len(stack[i].rods) - Len(op.src.rods) <= op.depth
  BY <1>1, <1>3, <1>4
<1> QED BY <1>2, <1>5 DEF OfSource

\* Each visit takes one thing off what is to be copied.
LEMMA VisitPending ==
  ASSUME Fits, CopyAllowed, CopyFits, past.calm, VisitCopy
  PROVE  /\ OfSource(res.rods, op, past.tree)
         /\ res.collection = (past.tree[res.rods] = Collection)
         /\ Pending(res.rods) /\ \A p : p = res.rods => ~ Pending(p)'
         /\ \A p : OfSource(p, op, past.tree) =>
              (Pending(p) <=> Pending(p)' \/ p = res.rods)
<1>1. /\ Walking /\ op.kind = "COPY" /\ Top.phase = "visit"
      /\ \/ EndsHere(Top.depth) /\ GoesBack("ok")
         \/ ~ EndsHere(Top.depth) /\ TurnsTo(Opened(Top))
  BY VisitCopyFits
<1>2. /\ Top \in Calls /\ CallFits(Top) /\ res.rods = Top.rods /\ Top.rods \in Path
      /\ Top = stack[Len(stack)] /\ Len(stack) \in 1 .. Len(stack) /\ Len(stack) \in Nat
      /\ Top.depth = op.depth - (Len(stack) - 1)
      /\ Len(Top.rods) = (Len(stack) - 1) + Len(op.src.rods)
      /\ Copying
  BY <1>1, TopFits DEF Calls, Copying
<1>3. <<res.rods, res.collection>> \in TreeOf(past.tree)
  BY <1>1, <1>2 DEF CopyFits, WalkKnows
<1>4. /\ res.rods \in DOMAIN past.tree
      /\ res.collection = (past.tree[res.rods] = Collection)
  BY <1>3 DEF TreeOf
<1>5. OfSource(res.rods, op, past.tree)
  BY <1>1, <1>2, <1>4, ComesToSource
<1>6. Top.left = {} /\ (Top.phase # "open") /\ Top.depth \in Nat
  BY <1>1, <1>2 DEF CallFits, Calls
<1>7. \A p : Ahead(Top, p) <=> IsPrefixOf(Top.rods, p)
  BY <1>1, <1>6 DEF Ahead
<1>8. IsPrefixOf(Top.rods, Top.rods) /\ Ahead(Top, Top.rods)
  BY <1>2, <1>7, PrefixSelf DEF Path
<1>9. Pending(res.rods) /\ ~ PendingOutside(res.rods)
  BY <1>1, <1>2, <1>8, PendingTop, OutsideAvoids
<1>10. CASE EndsHere(Top.depth) /\ GoesBack("ok")
  <2>1. \A p : Pending(p)' <=> PendingOutside(p)
    BY <1>10, PendingGoesBack
  <2>2. ASSUME NEW p, OfSource(p, op, past.tree), IsPrefixOf(Top.rods, p), p # Top.rods
        PROVE  FALSE
    <3>1. /\ p \in Path /\ TreeFits(past.tree) /\ Len(p) \in Nat
          /\ Len(op.src.rods) \in Nat /\ op.depth \in Nat
      BY <2>2, <1>2, SourceMeans
    <3>2. past.tree[Top.rods] = Collection
      BY <2>2, <3>1, <1>2, AboveIsCollection DEF TreeFits, OfSource
    <3>3. Top.depth = 0
      BY <3>2, <1>2, <1>4, <1>10 DEF EndsHere
    <3>4. Len(Top.rods) < Len(p)
      BY <2>2, <3>1, <1>2, BelowMember DEF Path
    <3>5. Len(p) - Len(op.src.rods) <= op.depth
      BY <2>2 DEF OfSource
    <3> QED BY <3>1, <3>3, <3>4, <3>5, <1>2
  <2>3. \A p : OfSource(p, op, past.tree) =>
          (Pending(p) <=> PendingOutside(p) \/ p = Top.rods)
    BY <2>2, <1>1, <1>7, <1>8, PendingTop
  <2> QED BY <2>1, <2>3, <1>2, <1>4, <1>5, <1>9
<1>11. CASE ~ EndsHere(Top.depth) /\ TurnsTo(Opened(Top))
  <2>1. Top.depth # 0
    BY <1>11 DEF EndsHere
  <2>2. /\ Opened(Top).phase = "open" /\ Opened(Top).left = {}
        /\ Opened(Top).rods = Top.rods
    BY <1>1, <1>2, <2>1, OpenedFits
  <2> HIDE DEF Opened
  <2>3. \A p : Ahead(Opened(Top), p) <=> IsPrefixOf(Top.rods, p) /\ p # Top.rods
    BY <2>2 DEF Ahead
  <2>4. \A p : Pending(p)' <=> PendingOutside(p) \/ Ahead(Opened(Top), p)
    BY <1>11, PendingTurns
  <2>5. \A p : Pending(p) <=> PendingOutside(p) \/ Ahead(Top, p)
    BY <1>1, PendingTop
  <2>6. \A p : Pending(p) <=> Pending(p)' \/ p = Top.rods
    BY <2>3, <2>4, <2>5, <1>7, <1>8
  <2>7. \A p : p = res.rods => ~ Pending(p)'
    BY <2>3, <2>4, <1>2, <1>9
  <2> QED BY <2>6, <2>7, <1>2, <1>4, <1>5, <1>9
<1> QED BY <1>1, <1>10, <1>11

\* What is copied is what was looked up.
LEMMA VisitCopies ==
  ASSUME Root # Empty, Fits, CopyAllowed, ElsewhereSame, PastTrue, CopyFits, past.calm,
         VisitCopy
  PROVE  /\ Mirror(res.rods) = Place(res.rods, op)
         /\ IsPrefixOf(op.dst.rods, Place(res.rods, op))
         /\ DOMAIN tree' = DOMAIN tree \cup {Place(res.rods, op)}
         /\ \A p \in DOMAIN tree : p # Place(res.rods, op) => tree'[p] = tree[p]
         /\ tree'[Place(res.rods, op)] = past.tree[res.rods]
<1>1. /\ Walking /\ op.kind = "COPY" /\ Top.phase = "visit"
      /\ DOMAIN tree' = DOMAIN tree \cup {Mirror(res.rods)}
      /\ \A p \in DOMAIN tree : p # Mirror(res.rods) => tree'[p] = tree[p]
      /\ \/ res.collection /\ tree'[Mirror(res.rods)] = Collection
         \/ /\ ~ res.collection /\ res.rods \in DOMAIN tree
            /\ tree'[Mirror(res.rods)] = tree[res.rods]
  BY VisitCopyFits
<1>2. /\ OfSource(res.rods, op, past.tree)
      /\ res.collection = (past.tree[res.rods] = Collection)
      /\ Pending(res.rods)
  BY VisitPending
<1>3. Copying /\ op # None /\ op.phase = "walk"
  BY <1>1, TopFits DEF Copying
<1>4. /\ res.rods \in Path /\ op.src.rods \in Path
      /\ res.rods # op.src.rods => op.src.collection
  BY <1>2, <1>3, SourceMeans
<1>5. /\ Mirror(res.rods) = Place(res.rods, op)
      /\ IsPrefixOf(op.dst.rods, Place(res.rods, op))
  BY <1>2, <1>3, <1>4, MirrorRebases DEF OfSource, Place
<1>6. ASSUME ~ res.collection, res.rods \in DOMAIN tree
      PROVE  tree[res.rods] = past.tree[res.rods]
  <2>1. ~ IsPrefixOf(op.dst.rods, res.rods)
    <3>1. CASE op.src.collection
      BY <3>1, <1>2, <1>3, <1>4, Apart DEF OfSource
    <3>2. CASE ~ op.src.collection
      <4> SUFFICES ASSUME IsPrefixOf(op.dst.rods, res.rods) PROVE FALSE
        OBVIOUS
      <4>1. PICK p : OfSource(p, op, past.tree) /\ ~ Pending(p)
        BY <1>3, <1>6 DEF CopyFits, HasCopied
      <4>2. p = op.src.rods /\ res.rods = op.src.rods
        BY <3>2, <4>1, <1>3, <1>4, SourceMeans
      <4> QED BY <4>1, <4>2, <1>2
    <3> QED BY <3>1, <3>2
  <2>2. past.others = 0
    BY <1>3 DEF PastTrue
  <2> QED BY <2>1, <2>2, <1>1, <1>3, <1>6 DEF ElsewhereSame
<1>7. tree'[Mirror(res.rods)] = past.tree[res.rods]
  BY <1>1, <1>2, <1>6
<1> QED BY <1>1, <1>5, <1>7

LEMMA CopyVisit ==
  ASSUME Root # Empty, Fits, CopyAllowed, ElsewhereSame, PastTrue, CopyFits, VisitCopy,
         past'.calm
  PROVE  CopyFits'
<1> DEFINE m == res.rods
           to == Place(m, op)
<1>1. /\ Walking /\ op.kind = "COPY" /\ Top.phase = "visit"
      /\ \/ EndsHere(Top.depth) /\ GoesBack("ok")
         \/ ~ EndsHere(Top.depth) /\ TurnsTo(Opened(Top))
  BY VisitCopyFits
<1>2. Walks
  BY DEF Walks
<1>3. /\ Copying /\ past.calm /\ past' = past /\ op'.src = op.src /\ op'.dst = op.dst
      /\ op'.phase \in {"walk", "done"} /\ op.phase = "walk"
      /\ \A p : OfSource(p, op', past'.tree) <=> OfSource(p, op, past.tree)
      /\ \A p : Place(p, op') = Place(p, op)
  BY <1>1, <1>2, CopyKeeps
<1>4. /\ OfSource(m, op, past.tree) /\ res.collection = (past.tree[m] = Collection)
      /\ Pending(m) /\ \A p : p = m => ~ Pending(p)'
      /\ \A p : OfSource(p, op, past.tree) => (Pending(p) <=> Pending(p)' \/ p = m)
  BY <1>3, VisitPending
<1>5. /\ IsPrefixOf(op.dst.rods, to) /\ DOMAIN tree' = DOMAIN tree \cup {to}
      /\ \A p \in DOMAIN tree : p # to => tree'[p] = tree[p]
      /\ tree'[to] = past.tree[m]
  BY <1>3, VisitCopies
<1>6. HasCopied /\ WalkKnows
  BY <1>3 DEF CopyFits
<1>7. \A p : OfSource(p, op, past.tree) /\ Place(p, op) = to => p = m
  <2> SUFFICES ASSUME NEW p, OfSource(p, op, past.tree), Place(p, op) = to PROVE p = m
    OBVIOUS
  <2>1. /\ p \in Seq(Name) /\ m \in Seq(Name)
        /\ op.src.rods \in Seq(Name) /\ op.dst.rods \in Seq(Name)
    BY <1>3, <1>4, SourceMeans DEF Path
  <2> QED BY <2>1, <1>4, RebaseInjective DEF Place, OfSource
<1> HIDE DEF m, to
<1>8. ASSUME NEW p, OfSource(p, op, past.tree), ~ Pending(p)'
      PROVE  Place(p, op) \in DOMAIN tree' /\ tree'[Place(p, op)] = past.tree[p]
  <2>1. CASE p = m
    BY <2>1, <1>5 DEF to
  <2>2. CASE p # m
    <3>1. Place(p, op) \in DOMAIN tree /\ tree[Place(p, op)] = past.tree[p]
      BY <2>2, <1>4, <1>6, <1>8 DEF HasCopied
    <3>2. Place(p, op) # to
      BY <2>2, <1>7, <1>8
    <3> QED BY <3>1, <3>2, <1>5
  <2> QED BY <2>1, <2>2
<1>9. ASSUME NEW q \in DOMAIN tree', IsPrefixOf(op.dst.rods, q)
      PROVE  \E p : OfSource(p, op, past.tree) /\ ~ Pending(p)' /\ q = Place(p, op)
  <2>1. CASE q = to
    BY <2>1, <1>4 DEF to
  <2>2. CASE q # to
    <3>1. PICK p : OfSource(p, op, past.tree) /\ ~ Pending(p) /\ q = Place(p, op)
      BY <2>2, <1>5, <1>6, <1>9 DEF HasCopied
    <3>2. ~ Pending(p)'
      BY <3>1, <1>4
    <3> QED BY <3>1, <3>2
  <2> QED BY <2>1, <2>2
<1>10. HasCopied'
  BY <1>3, <1>8, <1>9 DEF HasCopied
<1>11. WalkKnows'
  <2>1. CASE EndsHere(Top.depth) /\ GoesBack("ok")
    <3>1. Len(stack) \in Nat
      BY <1>1, TopFits
    <3> QED BY <2>1, <3>1, <1>3, <1>6 DEF WalkKnows, GoesBack
  <2>2. CASE ~ EndsHere(Top.depth) /\ TurnsTo(Opened(Top))
    <3>1. Top.depth # 0 /\ res.collection
      BY <2>2 DEF EndsHere
    <3>2. Top \in Calls /\ CallFits(Top) /\ res.rods = Top.rods /\ Len(stack) \in Nat
      BY <1>1, TopFits
    <3>3. /\ Opened(Top).phase = "open" /\ Opened(Top).left = {}
          /\ Opened(Top).rods = Top.rods
      BY <1>1, <3>1, <3>2, OpenedFits
    <3> HIDE DEF Opened
    <3>4. CallCopies(Opened(Top), past.tree)
      BY <3>1, <3>2, <3>3, <1>4 DEF CallCopies, OfSource, m
    <3>5. \A i \in 1 .. Len(stack') : CallCopies(stack'[i], past.tree)
      BY <2>2, <3>2, <3>4, <1>6 DEF TurnsTo, WalkKnows
    <3>6. Top'.phase # "visit"
      BY <2>2, <3>3 DEF TurnsTo
    <3> QED BY <3>5, <3>6, <1>3 DEF WalkKnows
  <2> QED BY <2>1, <2>2, <1>1
<1> QED BY <1>3, <1>10, <1>11 DEF CopyFits

LEMMA CopyOpen ==
  ASSUME Fits, CopyAllowed, ElsewhereSame, PastTrue, CopyFits, Open, op.kind = "COPY",
         past'.calm
  PROVE  CopyFits'
<1> DEFINE f == Listed(Top, Entries(res.rods))
<1>1. /\ Walking /\ Top.phase = "open" /\ TurnsTo(f)
      /\ f.phase = "members" /\ f.left = Entries(res.rods) /\ f.rods = Top.rods
      /\ tree' = tree /\ past' = past
  BY OpenFits
<1>2. Walks
  BY DEF Walks
<1>3. /\ Copying /\ past.calm /\ op.phase = "walk" /\ past.others = 0 /\ op \in Requests
  BY <1>2, CopyKeeps DEF PastTrue, Copying
<1>4. /\ Top \in Calls /\ CallFits(Top) /\ res.rods = Top.rods /\ Top.rods \in Path
      /\ Len(stack) \in Nat /\ Len(stack) \in 1 .. Len(stack) /\ Top = stack[Len(stack)]
      /\ TreeFits(tree) /\ Top.depth = op.depth - (Len(stack) - 1)
      /\ Len(Top.rods) = (Len(stack) - 1) + Len(op.src.rods)
  BY <1>1, TopFits, TypesFit DEF Calls
<1>5. /\ Top.left = {} /\ Top.depth \in Nat /\ Top.depth # 0
      /\ WalkKnows /\ CallCopies(Top, past.tree)
  BY <1>1, <1>3, <1>4 DEF CallFits, Calls, CopyFits, WalkKnows
<1>6. Top.rods \in DOMAIN past.tree /\ past.tree[Top.rods] = Collection
  BY <1>1, <1>5 DEF CallCopies
<1>7. OfSource(Top.rods, op, past.tree)
  BY <1>1, <1>3, <1>4, <1>6, ComesToSource
<1>8. /\ op.src.collection /\ TreeFits(past.tree) /\ op.depth \in Nat
      /\ Len(op.src.rods) \in Nat /\ op.src.rods \in Path /\ op.dst.rods \in Path
  BY <1>3, <1>6, <1>7, SourceMeans
<1> HIDE DEF f
\* The members are those of the source.
<1>9. ASSUME NEW c \in Path, IsChild(Top.rods, c)
      PROVE  /\ c \in DOMAIN tree <=> c \in DOMAIN past.tree
             /\ c \in DOMAIN tree => tree[c] = past.tree[c]
  <2>1. IsPrefixOf(Top.rods, c) /\ Len(c) = Len(Top.rods) + 1
    BY <1>4, <1>9, ChildMeans
  <2>2. IsPrefixOf(op.src.rods, c)
    BY <2>1, <1>4, <1>7, <1>8, <1>9, PrefixTransitive DEF OfSource, Path
  <2>3. Len(c) - Len(op.src.rods) <= op.depth
    BY <2>1, <1>4, <1>5, <1>8
  <2>4. ~ IsPrefixOf(op.dst.rods, c)
    BY <2>2, <2>3, <1>3, <1>8, <1>9, Apart
  <2>5. op.kind = "MOVE" => op.phase # "done"
    OBVIOUS
  <2> QED BY <2>4, <2>5, <1>3 DEF ElsewhereSame
<1>10. \A p : Ahead(Top, p) <=> IsPrefixOf(Top.rods, p) /\ p # Top.rods
  BY <1>1, <1>5 DEF Ahead
<1>11. ASSUME NEW e \in f.left
       PROVE  /\ Append(Top.rods, e[1]) \in Path
              /\ IsChild(Top.rods, Append(Top.rods, e[1]))
              /\ <<Append(Top.rods, e[1]), e[2]>> \in TreeOf(past.tree)
  <2>1. PICK c \in Members(Top.rods) : e = <<Last(c), IsCollection(c)>>
    BY <1>1, <1>4, <1>11 DEF Entries
  <2>2. /\ c \in DOMAIN tree /\ c \in Path /\ c = Append(Top.rods, Last(c))
        /\ IsChild(Top.rods, c)
    BY <1>4, MemberNamed
  <2>3. IsCollection(c) = (tree[c] = Collection)
    BY <2>2 DEF IsCollection, There
  <2>4. c \in DOMAIN past.tree /\ tree[c] = past.tree[c]
    BY <2>2, <1>9
  <2>5. <<c, past.tree[c] = Collection>> \in TreeOf(past.tree)
    BY <2>4 DEF TreeOf
  <2>6. Append(Top.rods, e[1]) = c /\ e[2] = (past.tree[c] = Collection)
    BY <2>1, <2>2, <2>3, <2>4
  <2> QED BY <2>2, <2>5, <2>6
<1>12. CallCopies(f, past.tree)
  BY <1>1, <1>6, <1>11 DEF CallCopies
<1>13. \A i \in 1 .. Len(stack') : CallCopies(stack'[i], past.tree)
  BY <1>1, <1>4, <1>5, <1>12 DEF TurnsTo, WalkKnows
<1>14. Top'.phase # "visit"
  BY <1>1 DEF TurnsTo
<1>15. WalkKnows'
  BY <1>1, <1>13, <1>14 DEF WalkKnows
<1>16. ASSUME NEW p, OfSource(p, op, past.tree), IsPrefixOf(Top.rods, p), p # Top.rods
       PROVE  Ahead(f, p)
  <2>1. p \in Path /\ p \in Seq(Name) /\ Top.rods \in Seq(Name) /\ p \in DOMAIN past.tree
    BY <1>3, <1>4, <1>16, SourceMeans DEF Path, OfSource
  <2> DEFINE c == Append(Top.rods, p[Len(Top.rods) + 1])
  <2>2. p[Len(Top.rods) + 1] \in Name /\ IsPrefixOf(c, p)
    BY <2>1, <1>16, BelowMember
  <2>3. c \in Path /\ IsChild(Top.rods, c) /\ Last(c) = p[Len(Top.rods) + 1]
    BY <2>1, <2>2, AppendPrefix DEF IsChild, Path, Empty
  <2>4. c = Append(Top.rods, Last(c))
    BY <2>3
  <2> HIDE DEF c
  <2>5. c \in DOMAIN past.tree
    BY <2>1, <2>2, <2>3, <1>8, AboveIsCollection DEF TreeFits
  <2>6. c \in DOMAIN tree
    BY <2>3, <2>5, <1>9
  <2>7. c \in Members(Top.rods)
    BY <2>3, <2>6, <1>4, ChildIsMember
  <2>8. <<Last(c), IsCollection(c)>> \in f.left
    BY <2>7, <1>1, <1>4 DEF Entries
  <2> QED BY <2>2, <2>4, <2>8, <1>1 DEF Ahead
<1>17. ASSUME NEW p, OfSource(p, op, past.tree), Ahead(f, p)
       PROVE  IsPrefixOf(Top.rods, p) /\ p # Top.rods
  <2>1. PICK e \in f.left : IsPrefixOf(Append(Top.rods, e[1]), p)
    BY <1>1, <1>17 DEF Ahead
  <2> DEFINE c == Append(Top.rods, e[1])
  <2>2. c \in Path /\ IsPrefixOf(Top.rods, c) /\ Len(c) = Len(Top.rods) + 1 /\ p \in Path
    BY <1>3, <1>4, <1>11, <1>17, ChildMeans, SourceMeans
  <2> HIDE DEF c
  <2>3. IsPrefixOf(c, p)
    BY <2>1 DEF c
  <2>4. IsPrefixOf(Top.rods, p)
    BY <2>2, <2>3, <1>4, PrefixTransitive DEF Path
  <2>5. Len(c) <= Len(p)
    BY <2>2, <2>3, PrefixLen DEF Path
  <2>6. Len(Top.rods) \in Nat
    BY <1>4 DEF Path
  <2> QED BY <2>2, <2>4, <2>5, <2>6
<1>18. \A p : OfSource(p, op, past.tree) => (Pending(p)' <=> Pending(p))
  BY <1>1, <1>10, <1>16, <1>17, PendingTurns, PendingTop
<1> QED BY <1>1, <1>2, <1>15, <1>18, CopySame

LEMMA CopyMember ==
  ASSUME Fits, CopyFits, Walking, NEW entry \in Top.left, Member(entry),
         op.kind = "COPY", past'.calm
  PROVE  CopyFits'
<1> DEFINE c == Append(Top.rods, entry[1])
           f == stack'[Len(stack)]
           g == stack'[Len(stack) + 1]
<1>1. /\ Top.phase = "members" /\ f.phase = "members" /\ f.rods = Top.rods
      /\ f.left = Top.left \ {entry}
      /\ Top' = g /\ g.phase = "visit" /\ g.rods = c /\ g.left = {}
      /\ res'.rods = c /\ res'.collection = entry[2]
  BY MemberEffects
<1>2. tree' = tree /\ past' = past
  BY MemberStepFits
<1>3. /\ Len(stack) \in Nat /\ Len(stack) \in 1 .. Len(stack) /\ Top = stack[Len(stack)]
      /\ Len(stack') = Len(stack) + 1
      /\ \A i \in 1 .. Len(stack) - 1 : stack'[i] = stack[i]
  BY TopFits, MemberStepFits DEF CallsFor
<1>4. Walks
  BY DEF Walks
<1>5. Copying /\ past.calm
  BY <1>4, CopyKeeps
<1>6. CallCopies(Top, past.tree) /\ WalkKnows
  BY <1>3, <1>5 DEF CopyFits, WalkKnows
<1>7. <<c, entry[2]>> \in TreeOf(past.tree)
  BY <1>6 DEF CallCopies
<1> HIDE DEF c, f, g
<1>8. CallCopies(f, past.tree) /\ CallCopies(g, past.tree)
  BY <1>1, <1>6 DEF CallCopies
<1>9. ASSUME NEW i \in 1 .. Len(stack') PROVE CallCopies(stack'[i], past.tree)
  <2>1. i \in 1 .. Len(stack) - 1 \/ i = Len(stack) \/ i = Len(stack) + 1
    BY <1>3
  <2>2. CASE i \in 1 .. Len(stack) - 1
    BY <2>2, <1>3, <1>6 DEF WalkKnows
  <2> QED BY <2>1, <2>2, <1>8 DEF f, g
<1>10. WalkKnows'
  BY <1>1, <1>2, <1>7, <1>9 DEF WalkKnows
<1>11. \A p : Ahead(Top, p) <=> Ahead(f, p) \/ Ahead(g, p)
  <2> SUFFICES ASSUME NEW p PROVE Ahead(Top, p) <=> Ahead(f, p) \/ Ahead(g, p)
    OBVIOUS
  <2>1. Ahead(Top, p) <=> \E e \in Top.left : IsPrefixOf(Append(Top.rods, e[1]), p)
    BY <1>1 DEF Ahead
  <2>2. Ahead(f, p) <=>
          \E e \in Top.left \ {entry} : IsPrefixOf(Append(Top.rods, e[1]), p)
    BY <1>1 DEF Ahead
  <2>3. Ahead(g, p) <=> IsPrefixOf(Append(Top.rods, entry[1]), p)
    BY <1>1 DEF Ahead, c
  <2> QED BY <2>1, <2>2, <2>3
<1>12. ASSUME NEW p
       PROVE  Pending(p)' <=> PendingOutside(p) \/ Ahead(f, p) \/ Ahead(g, p)
  <2>1. Pending(p)' <=> \E i \in 1 .. Len(stack') : Ahead(stack'[i], p)
    BY DEF Pending
  <2>2. 1 .. Len(stack') = (1 .. Len(stack) - 1) \cup {Len(stack), Len(stack) + 1}
    BY <1>3
  <2> QED BY <2>1, <2>2, <1>3 DEF PendingOutside, f, g
<1>13. \A p : OfSource(p, op, past.tree) => (Pending(p)' <=> Pending(p))
  BY <1>11, <1>12, PendingTop
<1> QED BY <1>2, <1>4, <1>10, <1>13, CopySame

LEMMA CopyEndMembers ==
  ASSUME Fits, CopyFits, EndMembers, op.kind = "COPY", past'.calm
  PROVE  CopyFits'
<1>1. /\ Walking /\ Top.phase = "members" /\ Top.left = {} /\ GoesBack("ok")
      /\ tree' = tree /\ past' = past
  BY EndMembersFits
<1>2. Walks
  BY DEF Walks
<1>3. Copying /\ past.calm /\ WalkKnows
  BY <1>2, CopyKeeps DEF CopyFits
<1>4. \A p : Pending(p)' <=> Pending(p)
  BY <1>1, PendingGoesBack, PendingTop DEF Ahead
<1>5. WalkKnows'
  <2>1. Len(stack) \in Nat
    BY <1>1, TopFits
  <2> QED BY <2>1, <1>1, <1>3 DEF WalkKnows, GoesBack
<1> QED BY <1>1, <1>2, <1>4, <1>5, CopySame

\* No call is under way.
LEMMA NothingPending ==
  ASSUME stack = <<>>
  PROVE  WalkKnows /\ \A p : ~ Pending(p)
<1>1. Len(stack) = 0 /\ ~ Walking
  BY DEF Walking
<1>2. \A i \in 1 .. Len(stack) : FALSE
  BY <1>1
<1> QED BY <1>1, <1>2 DEF WalkKnows, Pending

LEMMA NothingPendingNext ==
  ASSUME stack' = <<>>
  PROVE  WalkKnows' /\ \A p : ~ Pending(p)'
<1>1. Len(stack') = 0 /\ ~ Walking'
  BY DEF Walking
<1>2. \A i \in 1 .. Len(stack') : FALSE
  BY <1>1
<1> QED BY <1>1, <1>2 DEF WalkKnows, Pending

LEMMA CopyBegins ==
  ASSUME Fits, Request, Copying'
  PROVE  CopyFits'
<1>1. /\ Arrives /\ op'.kind \in {"COPY", "MOVE"} /\ op' \in Requests
      /\ TreeFits(tree) /\ tree' = tree
  BY RequestComes, TypesFit DEF Copying, Arrives
<1>2. /\ stack' = <<>>
      /\ op'.phase = (IF op'.dst.exists THEN "remove"
                      ELSE IF op'.kind = "COPY" THEN "parent" ELSE "rename")
      /\ SaysTrue(op'.dst)
  BY <1>1 DEF Arrives
<1>3. op'.dst.rods \in Path
  BY <1>1 DEF Requests, Resource
<1>4. op'.phase \notin {"walk", "done"}
  BY <1>2
<1>5. op'.phase \in {"parent", "rename"} => op'.dst.rods \notin DOMAIN tree
  BY <1>2 DEF SaysTrue, There
<1>6. op'.phase \in {"parent", "rename"} => Cleared'
  BY <1>1, <1>3, <1>5, NothingBelow DEF Cleared
<1> QED BY <1>2, <1>4, <1>6, NothingPendingNext DEF CopyFits

LEMMA CopyRemoves ==
  ASSUME Fits, Remove, Copying'
  PROVE  CopyFits'
<1>1. /\ Steps(IF op.kind = "DELETE" THEN "done"
               ELSE IF op.kind = "COPY" THEN "parent" ELSE "rename")
      /\ DOMAIN tree' = {p \in DOMAIN tree : ~ IsPrefixOf(op.dst.rods, p)}
  BY RemoveFits
<1>2. op.kind \in {"COPY", "MOVE"} /\ op'.dst = op.dst
  BY <1>1 DEF Steps, Copying
<1>3. op'.phase \in {"parent", "rename"} /\ stack' = <<>>
  BY <1>1, <1>2 DEF Steps
<1>4. Cleared'
  BY <1>1, <1>2 DEF Cleared
<1> QED BY <1>3, <1>4, NothingPendingNext DEF CopyFits

LEMMA CopyGetsParent ==
  ASSUME Fits, CopyAllowed, CopyFits, GetParent, Copying', past'.calm
  PROVE  CopyFits'
<1> DEFINE f == Frame(op.src, op.depth)
<1>1. /\ op # None /\ op.phase = "parent" /\ op.kind \in {"COPY", "MKCOL"}
      /\ tree' = tree /\ past' = past
      /\ Steps(IF op.kind = "COPY" THEN "walk" ELSE "create")
      /\ op.kind = "COPY" => /\ stack' = <<f>> /\ Len(stack') = 1 /\ res' = op.src
                             /\ Walking' /\ Top' = f
  BY GetParentFits
<1>2. op.kind = "COPY"
  BY <1>1 DEF Copying, Steps
<1>3. /\ op'.phase = "walk" /\ op'.src = op.src /\ op'.dst = op.dst /\ op'.depth = op.depth
  BY <1>1, <1>2 DEF Steps
<1>4. f.phase = "visit" /\ f.rods = op.src.rods /\ f.left = {}
  BY DEF Frame
<1> HIDE DEF f
<1>5. Copying /\ Cleared
  BY <1>1, <1>2 DEF Copying, CopyFits
<1>6. stack'[1] = f /\ Len(stack') = 1
  BY <1>1, <1>2
<1>7. 1 \in 1 .. Len(stack') /\ \A i \in 1 .. Len(stack') : stack'[i] = f
  BY <1>6
<1>8. \A p : Pending(p)' <=> IsPrefixOf(op.src.rods, p)
  BY <1>4, <1>7 DEF Pending, Ahead
<1>9. /\ op.src.rods \in DOMAIN past.tree
      /\ op.src.collection = (past.tree[op.src.rods] = Collection)
  BY <1>5 DEF CopyAllowed
<1>10. <<op.src.rods, op.src.collection>> \in TreeOf(past.tree)
  BY <1>9 DEF TreeOf
<1>11. WalkKnows'
  BY <1>1, <1>2, <1>4, <1>7, <1>10 DEF WalkKnows, CallCopies
<1>12. HasCopied'
  BY <1>1, <1>3, <1>5, <1>8 DEF HasCopied, OfSource, Cleared
<1> QED BY <1>3, <1>11, <1>12 DEF CopyFits

LEMMA CopyRenames ==
  ASSUME Fits, CopyAllowed, ElsewhereSame, PastTrue, CopyFits, Rename, past'.calm
  PROVE  CopyFits'
<1>1. /\ op # None /\ op.phase = "rename" /\ op.kind = "MOVE"
      /\ past' = past /\ Steps("done") /\ op.src.rods \in Path /\ TreeFits(tree)
  BY RenameFits
<1>2. op.src.rods \in DOMAIN tree
  BY DEF Rename, There
<1>3. /\ op'.phase = "done" /\ op'.src = op.src /\ op'.dst = op.dst
      /\ op'.depth = op.depth /\ stack' = <<>>
  BY <1>1 DEF Steps
<1>4. /\ Copying /\ past.calm /\ Cleared /\ past.others = 0 /\ past.tree \in Trees
      /\ TreeFits(past.tree)
  <2>1. past.tree \in Trees
    BY <1>1, TypesFit
  <2> QED BY <2>1, <1>1, TreeAssumption DEF Copying, CopyFits, PastTrue, TreeFits
<1>5. op.depth = Infinity /\ op.src.collection = (past.tree[op.src.rods] = Collection)
  BY <1>1, <1>4 DEF CopyAllowed
\* The source is still what it was.
<1>6. \A p \in DOMAIN tree : p \in DOMAIN past.tree /\ tree[p] = past.tree[p]
  BY <1>1, <1>4 DEF ElsewhereSame, Cleared
<1>7. ASSUME NEW p, OfSource(p, op, past.tree)
      PROVE  p \in DOMAIN tree
  <2>1. /\ p \in Path /\ op.src.rods \in Path /\ op.dst.rods \in Path
        /\ p # op.src.rods => op.src.collection
    BY <1>4, <1>7, SourceMeans
  <2>2. CASE op.src.collection
    <3>1. ~ IsPrefixOf(op.dst.rods, p)
      BY <2>1, <2>2, <1>4, <1>7, Apart DEF OfSource
    <3> QED BY <3>1, <1>1, <1>4, <1>7 DEF ElsewhereSame, OfSource
  <2>3. CASE ~ op.src.collection
    BY <2>1, <2>3, <1>2
  <2> QED BY <2>2, <2>3
<1>8. ASSUME NEW p \in DOMAIN tree, IsPrefixOf(op.src.rods, p)
      PROVE  OfSource(p, op, past.tree)
  <2>1. p \in DOMAIN past.tree
    BY <1>6
  <2>2. p \in Path /\ Len(p) <= Infinity
    BY <2>1, <1>4, TreeAssumption
  <2>3. Len(p) \in Nat /\ Len(op.src.rods) \in Nat /\ Infinity \in Nat
    BY <2>2, <1>1, BoundAssumption DEF Path
  <2>4. Len(p) - Len(op.src.rods) <= Infinity
    BY <2>2, <2>3
  <2> QED BY <2>1, <2>4, <1>5, <1>8 DEF OfSource
<1>9. ASSUME NEW p, OfSource(p, op, past.tree)
      PROVE  Place(p, op) \in DOMAIN tree' /\ tree'[Place(p, op)] = past.tree[p]
  <2>1. p \in DOMAIN tree /\ tree[p] = past.tree[p] /\ IsPrefixOf(op.src.rods, p)
    BY <1>6, <1>7, <1>9 DEF OfSource
  <2> QED BY <2>1, RenameMoves DEF Place
<1>10. ASSUME NEW q \in DOMAIN tree', IsPrefixOf(op.dst.rods, q)
       PROVE  \E p : OfSource(p, op, past.tree) /\ q = Place(p, op)
  <2>1. q \notin DOMAIN tree
    BY <1>4, <1>10 DEF Cleared
  <2>2. PICK p \in DOMAIN tree : /\ IsPrefixOf(op.src.rods, p)
                                 /\ q = Rebase(p, op.src.rods, op.dst.rods)
    BY <2>1, RenameMoves
  <2> QED BY <2>2, <1>8 DEF Place
<1>11. \A p : ~ Pending(p)'
  BY <1>3, NothingPendingNext
<1>12. HasCopied'
  BY <1>1, <1>3, <1>9, <1>10, <1>11 DEF HasCopied, OfSource, Place
<1> QED BY <1>3, <1>12, NothingPendingNext DEF CopyFits

LEMMA CopyStep ==
  /\ Root # Empty /\ Fits /\ PastTrue /\ CopyAllowed /\ ElsewhereSame /\ CopyFits
  /\ [Next]_vars
  => CopyFits'
<1> SUFFICES ASSUME Root # Empty, Fits, PastTrue, CopyAllowed, ElsewhereSame, CopyFits,
                    [Next]_vars, Copying', past'.calm
             PROVE  CopyFits'
  BY DEF CopyFits
<1>1. CASE UNCHANGED vars
  BY <1>1 DEF vars, CopyFits, Copying, Cleared, HasCopied, Pending, WalkKnows, Walking,
              Top
<1>2. CASE Request
  BY <1>2, CopyBegins
<1>3. CASE Answer
  BY <1>3 DEF Answer, Copying
<1>4. CASE Acts
  <2>1. ~ Refused
    BY RefusedFits
  <2>2. CASE Create
    BY <2>2, CreateFits DEF Steps, Copying
  <2> QED BY <1>4, <2>1, <2>2, CopyRemoves, CopyRenames, CopyGetsParent DEF Acts
<1>5. CASE Others
  BY <1>5, OthersFits DEF Meanwhile
<1>6. CASE Walks
  <2>1. op.kind = "COPY"
    <3>1. Keeps /\ Walking
      BY <1>6, WalksKeep, WalksFit
    <3>2. op.kind \in {"PROPFIND", "COPY"}
      BY <3>1, TopFits
    <3> QED BY <3>1, <3>2 DEF Keeps, Copying
  <2>2. ~ VisitPropfind
    BY <2>1 DEF VisitPropfind, Visiting
  <2>3. ~ LockDb /\ ~ EndLockNull /\ ~ (Walking /\ \E path \in Top.names : LockNull(path))
    <3>1. Walking => Top.phase \notin {"lockdb", "locknull"}
      BY <2>1, TopFits
    <3> QED BY <3>1 DEF LockDb, EndLockNull, LockNull
  <2>4. ~ Broken
    BY BrokenFits
  <2> QED BY <1>6, <2>1, <2>2, <2>3, <2>4, CopyVisit, CopyOpen, CopyMember,
             CopyEndMembers DEF Walks
<1> QED BY <1>1, <1>2, <1>3, <1>4, <1>5, <1>6, StepCases

LEMMA CopiedWhole ==
  ASSUME Fits, CopyFits
  PROVE  CopyFaithful
<1> SUFFICES ASSUME Answered("COPY") \/ Answered("MOVE"), past.calm PROVE Whole
  BY DEF CopyFaithful
<1>1. Copying /\ op.phase = "done"
  BY DEF Answered, Copying
<1>2. stack = <<>>
  BY <1>1, TypesFit DEF Walking, Copying
<1>3. HasCopied /\ \A p : ~ Pending(p)
  BY <1>1, <1>2, NothingPending DEF CopyFits
<1> DEFINE source == {p \in DOMAIN past.tree :
                        IsPrefixOf(op.src.rods, p) /\ DepthOf(p) <= op.depth}
<1>4. \A p : p \in source <=> OfSource(p, op, past.tree)
  BY DEF OfSource, DepthOf
<1>5. \A p : Target(p) = Place(p, op)
  BY DEF Target, Place, Rebase
<1> HIDE DEF source
<1>6. /\ \A p \in source : /\ Target(p) \in DOMAIN tree
                           /\ tree[Target(p)] = past.tree[p]
      /\ \A q \in DOMAIN tree : IsPrefixOf(op.dst.rods, q) =>
           \E p \in source : q = Target(p)
  BY <1>3, <1>4, <1>5 DEF HasCopied
<1>7. \A p \in source : IsPrefixOf(op.dst.rods, Target(p))
  <2> SUFFICES ASSUME NEW p \in source PROVE IsPrefixOf(op.dst.rods, Target(p))
    OBVIOUS
  <2>1. OfSource(p, op, past.tree) /\ past.tree \in Trees /\ op \in Requests
    BY <1>1, <1>4, TypesFit DEF Copying
  <2>2. /\ p \in Seq(Name) /\ op.src.rods \in Seq(Name) /\ op.dst.rods \in Seq(Name)
        /\ IsPrefixOf(op.src.rods, p)
    BY <2>1, TreeAssumption DEF OfSource, Requests, Resource, Path
  <2> QED BY <2>2, <1>5, RebaseMeans DEF Place
<1>8. Below(op.dst.rods) = {Target(p) : p \in source}
  BY <1>6, <1>7 DEF Below
<1> QED BY <1>6, <1>8 DEF Whole, source

\* A COPY or MOVE that nothing disturbed makes the destination what the source
\* was when it was looked up, also where the destination was replaced; if "/" is
\* not what is served, whose members would be copied to names glued together.
THEOREM CopyFaithfulHolds == Spec => [](Root # Empty => CopyFaithful)
<1>1. Init => CopyFits
  BY DEF Init, CopyFits, Copying
<1>2. /\ (Root # Empty => CopyFits) /\ Fits /\ PastTrue /\ (Root # Empty => CopyAllowed)
      /\ (Root # Empty => ElsewhereSame) /\ [Next]_vars
      => (Root # Empty => CopyFits)'
  BY CopyStep
<1>3. Fits /\ (Root # Empty => CopyFits) => (Root # Empty => CopyFaithful)
  BY CopiedWhole
<1> QED BY <1>1, <1>2, <1>3, StackSound, PastSound, AllowedSound, ElsewhereSound, PTL
        DEF Spec

=============================================================================
