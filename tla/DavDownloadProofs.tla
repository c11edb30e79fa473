-------------------------- MODULE DavDownloadProofs --------------------------
(***************************************************************************)
(* Theorems about DavDownload: for objects of any length, headers of any   *)
(* number of ranges, any limits, buffer size and number of replacements,   *)
(* the merged ranges are the bytes that were asked for, they lie in the    *)
(* object as it was looked up, what is sent stands in its place, and an    *)
(* answer that ends well has what was asked for and nothing else.          *)
(***************************************************************************)
EXTENDS DavDownload, TLAPS

Least == INSTANCE PickingProofs

-----------------------------------------------------------------------------
(* What is known of a request.                                             *)

\* The range from s to e lies in an object of length n; it is empty only if
\* the object is.
InObject(n, s, e) == 0 <= s /\ e < n /\ s <= e + 1 /\ (n > 0 => s <= e)

TableFits(n, x) == \A i \in 1 .. Len(x) : InObject(n, x[i].start, x[i].end)

ScanFits(n, s) == TableFits(n, s.indexes) /\ (s.in_merge => InObject(n, s.ostart, s.oend))

\* What was sent of a range stands in its place.
PartOK(p) ==
  /\ 0 <= p.start /\ p.start <= p.end + 1
  /\ Len(p.data) <= p.end - p.start + 1
  /\ \A k \in 1 .. Len(p.data) : p.data[k][2] = p.start + k - 1

HeaderInv ==
  /\ request.phase = "found" => scan = NewScan /\ wanted = {}
  /\ request.phase \in {"found", "scan"} => ~ reply.ranged /\ reply.parts = <<>>
  /\ reply.ranged => scan.indexes # <<>>
  /\ request.phase = "scan" \/ reply.ranged =>
       ScanFits(request.length, scan) /\ Covered(scan) = wanted

PartsInv ==
  /\ \A i \in 1 .. Len(reply.parts) : PartOK(reply.parts[i])
  /\ request.phase = "seek" => Current < Len(ToSend)
  /\ request.phase = "read" => Current > 0

IInv == TypeOK /\ HeaderInv /\ PartsInv

-----------------------------------------------------------------------------
(* Ranges.                                                                 *)

\* One more range in the table.
LEMMA TableAppend ==
  ASSUME NEW x \in Seq(Range), NEW r \in Range
  PROVE  /\ Append(x, r) \in Seq(Range)
         /\ Append(x, r) # <<>>
         /\ Table(Append(x, r)) = Table(x) \cup Bytes(r)
         /\ \A n \in Nat : TableFits(n, x) /\ InObject(n, r.start, r.end) =>
                             TableFits(n, Append(x, r))
<1> DEFINE y == Append(x, r)
<1>1. /\ y \in Seq(Range) /\ Len(y) = Len(x) + 1 /\ Len(x) \in Nat
      /\ \A i \in 1 .. Len(x) : y[i] = x[i]
      /\ y[Len(x) + 1] = r
  OBVIOUS
<1>2. 1 .. Len(y) = 1 .. Len(x) \cup {Len(x) + 1}
  BY <1>1
<1> HIDE DEF y
<1>3. Table(y) = Table(x) \cup Bytes(r)
  BY <1>1, <1>2 DEF Table
<1>4. \A n \in Nat : TableFits(n, x) /\ InObject(n, r.start, r.end) => TableFits(n, y)
  BY <1>1, <1>2 DEF TableFits
<1>5. y # <<>>
  BY <1>1
<1> QED
  BY <1>1, <1>3, <1>4, <1>5 DEF y

\* An empty table asks for nothing.
LEMMA TableEmpty ==
  /\ <<>> \in Seq(Range)
  /\ Table(<<>>) = {}
  /\ \A n \in Nat : TableFits(n, <<>>)
  BY DEF Table, TableFits

\* A range that starts in the object, cut off at its end, lies in it.
LEMMA ClippedFits ==
  ASSUME request.length \in Nat, NEW start \in Int, NEW end \in Int,
         First(start) < request.length, start <= end,
         start >= 0 \/ end = request.length - 1
  PROVE  /\ Clipped(start, end) \in Range
         /\ InObject(request.length, Clipped(start, end).start, Clipped(start, end).end)
  BY DEF Clipped, First, Range, InObject

\* Two ranges that overlap or are next to each other, joined.
LEMMA JoinBytes ==
  ASSUME NEW a \in Int, NEW b \in Int, NEW c \in Int, NEW d \in Int,
         d >= a - 1, c <= b + 1, a <= b + 1, c <= d + 1
  PROVE  (IF c < a THEN c ELSE a) .. (IF d > b THEN d ELSE b) = (a .. b) \cup (c .. d)
  OBVIOUS

\* What the scan stands for once its table is complete.
LEMMA PushCovers ==
  ASSUME NEW s \in Scan, NEW n \in Nat, ScanFits(n, s),
         InObject(n, s.ostart, s.oend)
  PROVE  /\ Push(s) \in Scan
         /\ Push(s).indexes # <<>>
         /\ Table(Push(s).indexes) = Table(s.indexes) \cup (s.ostart .. s.oend)
         /\ TableFits(n, Push(s).indexes)
<1> DEFINE r == [start |-> s.ostart, end |-> s.oend]
<1>1. r \in Range /\ Bytes(r) = s.ostart .. s.oend /\ s.indexes \in Seq(Range)
  BY DEF Range, Bytes, Scan
<1>2. r.start = s.ostart /\ r.end = s.oend
  OBVIOUS
<1>3. Push(s).indexes = Append(s.indexes, r)
  BY DEF Push, Scan
<1> HIDE DEF r
<1>4. Push(s) \in Scan
  <2>1. Append(s.indexes, r) \in Seq(Range)
    BY <1>1
  <2>2. ASSUME NEW x \in Seq(Range), NEW k \in Int
        PROVE  [s EXCEPT !.indexes = x, !.sum_lengths = k] \in Scan
    BY DEF Scan
  <2>3. s.sum_lengths + (s.oend - s.ostart + 1) \in Int
    BY DEF Scan
  <2>4. Push(s) = [s EXCEPT !.indexes = Append(s.indexes, r),
                            !.sum_lengths = s.sum_lengths + (s.oend - s.ostart + 1)]
    BY DEF Push, r
  <2> QED
    BY <2>1, <2>2, <2>3, <2>4, Zenon
<1> QED
  BY <1>1, <1>2, <1>3, <1>4, TableAppend DEF ScanFits

\* The complete table asks for what the scan stands for.
LEMMA ClosedCovers ==
  ASSUME NEW s \in Scan, NEW n \in Nat, ScanFits(n, s)
  PROVE  /\ Closed(s) \in Scan
         /\ Table(Closed(s).indexes) = Covered(s)
         /\ TableFits(n, Closed(s).indexes)
<1>1. Covered(s) = Table(s.indexes) \cup (IF s.in_merge THEN s.ostart .. s.oend ELSE {})
  BY DEF Covered
<1>2. CASE s.in_merge
  <2>1. Closed(s) = Push(s)
    BY <1>2 DEF Closed
  <2>2. InObject(n, s.ostart, s.oend)
    BY <1>2 DEF ScanFits
  <2> QED
    BY <1>1, <1>2, <2>1, <2>2, PushCovers
<1>3. CASE ~ s.in_merge
  BY <1>1, <1>3 DEF Closed, ScanFits
<1> QED
  BY <1>2, <1>3

\* A scan that has read nothing asks for nothing.
LEMMA NewScanFacts ==
  /\ NewScan \in Scan /\ NewScan.indexes = <<>> /\ ~ NewScan.in_merge
  /\ Covered(NewScan) = {}
  /\ \A n \in Nat : ScanFits(n, NewScan)
<1>1. NewScan.indexes = <<>> /\ ~ NewScan.in_merge
  BY DEF NewScan
<1>2. NewScan \in Scan
  BY TableEmpty DEF NewScan, Scan
<1>3. Covered(NewScan) = {}
  BY <1>1, TableEmpty DEF Covered
<1>4. ASSUME NEW n \in Nat PROVE ScanFits(n, NewScan)
  <2> HIDE DEF NewScan
  <2>1. TableFits(n, NewScan.indexes)
    BY <1>1, TableEmpty
  <2> QED
    BY <1>1, <2>1 DEF ScanFits
<1> QED
  BY <1>1, <1>2, <1>3, <1>4

\* A range that lies in the object is taken up by the scan, and nothing else.
LEMMA ScanTakes ==
  ASSUME NEW s \in Scan, NEW n \in Nat, ScanFits(n, s),
         NEW r \in Range, InObject(n, r.start, r.end)
  PROVE  LET s2 == IF ~ s.in_merge
                   THEN [s EXCEPT !.in_merge = TRUE, !.ostart = r.start, !.oend = r.end]
                   ELSE IF Touches(s, r) THEN Joined(s, r)
                   ELSE [Push(s) EXCEPT !.ostart = r.start, !.oend = r.end]
         IN  s2 \in Scan /\ ScanFits(n, s2) /\ Covered(s2) = Covered(s) \cup Bytes(r)
<1>1. \A x : Covered(x) = Table(x.indexes) \cup (IF x.in_merge THEN x.ostart .. x.oend ELSE {})
  BY DEF Covered
<1>2. r.start \in Int /\ r.end \in Int /\ Bytes(r) = r.start .. r.end
  BY DEF Range, Bytes
<1>3. s.ostart \in Int /\ s.oend \in Int /\ s.in_merge \in BOOLEAN
  BY DEF Scan
<1>4. CASE ~ s.in_merge
  <2> DEFINE s2 == [s EXCEPT !.in_merge = TRUE, !.ostart = r.start, !.oend = r.end]
  <2>1. /\ s2 \in Scan /\ s2.indexes = s.indexes /\ s2.in_merge
        /\ s2.ostart = r.start /\ s2.oend = r.end
    BY <1>2 DEF Scan
  <2> HIDE DEF s2
  <2>2. ScanFits(n, s2) /\ Covered(s2) = Covered(s) \cup Bytes(r)
    BY <1>1, <1>2, <1>4, <2>1 DEF ScanFits
  <2> QED
    BY <1>4, <2>1, <2>2 DEF s2
<1>5. CASE s.in_merge /\ Touches(s, r)
  <2> DEFINE s2 == Joined(s, r)
             lo == IF r.start < s.ostart THEN r.start ELSE s.ostart
             hi == IF r.end > s.oend THEN r.end ELSE s.oend
  <2>0. lo \in Int /\ hi \in Int /\ s.overlaps + 1 \in Nat /\ s.reversals + 1 \in Nat
    BY <1>2, <1>3 DEF Scan
  <2>1. /\ s2 \in Scan /\ s2.indexes = s.indexes /\ s2.in_merge
        /\ s2.ostart = lo /\ s2.oend = hi
    <3>1. s2 = [s EXCEPT !.ostart = lo, !.oend = hi,
                         !.reversals = IF r.start < s.ostart THEN s.reversals + 1
                                       ELSE s.reversals,
                         !.overlaps = s.overlaps + 1]
      BY DEF Joined
    <3> HIDE DEF s2, lo, hi
    <3> QED
      BY <2>0, <3>1, <1>5 DEF Scan
  <2>2. InObject(n, s.ostart, s.oend)
    BY <1>5 DEF ScanFits
  <2>3. InObject(n, lo, hi)
    BY <1>2, <1>3, <2>2 DEF InObject
  <2>4. lo .. hi = (s.ostart .. s.oend) \cup (r.start .. r.end)
    BY <1>2, <1>3, <1>5, <2>2, JoinBytes DEF InObject, Touches
  <2> HIDE DEF s2, lo, hi
  <2>5. ScanFits(n, s2) /\ Covered(s2) = Covered(s) \cup Bytes(r)
    BY <1>1, <1>2, <1>5, <2>1, <2>3, <2>4 DEF ScanFits
  <2> QED
    BY <1>5, <2>1, <2>5 DEF s2
<1>6. CASE s.in_merge /\ ~ Touches(s, r)
  <2> DEFINE p == Push(s)
             s2 == [p EXCEPT !.ostart = r.start, !.oend = r.end]
  <2>1. InObject(n, s.ostart, s.oend)
    BY <1>6 DEF ScanFits
  <2>2. /\ p \in Scan /\ TableFits(n, p.indexes)
        /\ Table(p.indexes) = Table(s.indexes) \cup (s.ostart .. s.oend)
    BY <2>1, PushCovers
  <2>3. p.in_merge
    BY <1>6 DEF Push, Scan
  <2> HIDE DEF p
  <2>4. /\ s2 \in Scan /\ s2.indexes = p.indexes /\ s2.in_merge
        /\ s2.ostart = r.start /\ s2.oend = r.end
    BY <1>2, <2>2, <2>3 DEF Scan
  <2> HIDE DEF s2
  <2>5. ScanFits(n, s2) /\ Covered(s2) = Covered(s) \cup Bytes(r)
    BY <1>1, <1>2, <1>6, <2>2, <2>4 DEF ScanFits
  <2> QED
    BY <1>6, <2>4, <2>5 DEF s2, p
<1> QED
  BY <1>3, <1>4, <1>5, <1>6

-----------------------------------------------------------------------------
(* The header.                                                             *)

RequestType == [phase : {"idle", "found", "scan", "seek", "read", "close",
                         "done", "failed"},
                length : Lengths, version : 0 .. MaxVersions,
                limits : Limits, specs : 0 .. MaxSpecs, open : BOOLEAN]

ObjectType == [there : BOOLEAN, version : 0 .. MaxVersions, length : Lengths]

ReplyType == [status : {200, 206, 416}, ranged : BOOLEAN,
              content_length : Lengths \cup {-1}, parts : Seq(Part)]

\* The type invariant, by variable.
LEMMA Types ==
  TypeOK <=> /\ object \in ObjectType /\ request \in RequestType
             /\ scan \in Scan /\ wanted \subseteq Nat /\ reply \in ReplyType
  BY DEF TypeOK, RequestType, ObjectType, ReplyType

\* The same of the next state.
LEMMA TypesAfter ==
  TypeOK' <=> /\ object' \in ObjectType /\ request' \in RequestType
              /\ scan' \in Scan /\ wanted' \subseteq Nat /\ reply' \in ReplyType
  BY DEF TypeOK, RequestType, ObjectType, ReplyType

\* The length that a request works with is a length.
LEMMA LengthNat == ASSUME TypeOK PROVE request.length \in Nat
  BY LengthAssumption, Types DEF RequestType

\* The answer, as it is decided.
ReplyOf(r, status, ranged, length) ==
  [r EXCEPT !.status = status, !.ranged = ranged, !.content_length = length]

\* It is well formed, and nothing has been sent of it.
LEMMA ReplyWith ==
  ASSUME NEW r \in ReplyType, NEW status \in {200, 206, 416}, NEW ranged \in BOOLEAN,
         NEW length \in Lengths \cup {-1}
  PROVE  LET q == ReplyOf(r, status, ranged, length)
         IN  q \in ReplyType /\ q.ranged = ranged /\ q.parts = r.parts
<1>1. ASSUME NEW x \in {200, 206, 416}, NEW y \in ReplyType
      PROVE  /\ [y EXCEPT !.status = x] \in ReplyType
             /\ [y EXCEPT !.status = x].parts = y.parts
  BY DEF ReplyType
<1>2. ASSUME NEW x \in BOOLEAN, NEW y \in ReplyType
      PROVE  /\ [y EXCEPT !.ranged = x] \in ReplyType
             /\ [y EXCEPT !.ranged = x].parts = y.parts
             /\ [y EXCEPT !.ranged = x].ranged = x
  BY DEF ReplyType
<1>3. ASSUME NEW x \in Lengths \cup {-1}, NEW y \in ReplyType
      PROVE  /\ [y EXCEPT !.content_length = x] \in ReplyType
             /\ [y EXCEPT !.content_length = x].parts = y.parts
             /\ [y EXCEPT !.content_length = x].ranged = y.ranged
  BY DEF ReplyType
<1> DEFINE q1 == [r EXCEPT !.status = status]
           q2 == [q1 EXCEPT !.ranged = ranged]
           q3 == [q2 EXCEPT !.content_length = length]
<1>4. q1 \in ReplyType /\ q1.parts = r.parts
  BY <1>1
<1> HIDE DEF q1
<1>5. q2 \in ReplyType /\ q2.parts = r.parts /\ q2.ranged = ranged
  BY <1>2, <1>4
<1> HIDE DEF q2
<1>6. q3 \in ReplyType /\ q3.parts = r.parts /\ q3.ranged = ranged
  BY <1>3, <1>5
<1> QED
  BY <1>6 DEF q1, q2, q3, ReplyOf

\* The scan with a range that is open, and with another table.
Opened(s, start, end) ==
  [s EXCEPT !.in_merge = TRUE, !.ostart = start, !.oend = end]

Retabled(s, x, k) == [s EXCEPT !.indexes = x, !.sum_lengths = k]

\* What "0-" makes of the scan: a single range that is open.
LEMMA ScanWith ==
  ASSUME NEW s \in Scan, NEW x \in Seq(Range), NEW e \in Int
  PROVE  LET t == Opened(Retabled(s, x, 0), 0, e)
         IN  /\ t \in Scan /\ t.indexes = x /\ t.in_merge
             /\ t.ostart = 0 /\ t.oend = e
<1>1. ASSUME NEW k \in Int
      PROVE  Retabled(s, x, k) \in Scan /\ Retabled(s, x, k).indexes = x
  BY DEF Scan, Retabled
<1>2. ASSUME NEW u \in Scan, NEW k \in Int
      PROVE  LET v == Opened(u, k, e)
             IN  /\ v \in Scan /\ v.indexes = u.indexes /\ v.in_merge
                 /\ v.ostart = k /\ v.oend = e
  BY DEF Scan, Opened
<1> DEFINE u == Retabled(s, x, 0)
<1>3. 0 \in Int /\ u \in Scan /\ u.indexes = x
  BY <1>1
<1> HIDE DEF u
<1>4. /\ Opened(u, 0, e) \in Scan /\ Opened(u, 0, e).indexes = u.indexes
      /\ Opened(u, 0, e).in_merge
      /\ Opened(u, 0, e).ostart = 0 /\ Opened(u, 0, e).oend = e
  BY <1>2, <1>3
<1> QED
  BY <1>3, <1>4 DEF u

\* A new request: nothing has been asked for or sent yet.
LEMMA GetKeeps == ASSUME IInv, NEW limits \in Limits, Get(limits) PROVE IInv'
<1>1. /\ object' = object /\ scan' = NewScan /\ wanted' = {}
      /\ request'.phase = "found" /\ reply'.parts = <<>> /\ ~ reply'.ranged
  BY DEF Get
<1>2. TypeOK'
  <2>1. request' \in RequestType
    BY BoundAssumption, Types DEF IInv, Get, RequestType, ObjectType
  <2>2. reply' \in ReplyType
    BY Types DEF IInv, Get, ReplyType, ObjectType
  <2> QED
    BY <1>1, <2>1, <2>2, NewScanFacts, Types, TypesAfter DEF IInv
<1>3. HeaderInv'
  BY <1>1 DEF HeaderInv
<1>4. PartsInv'
  BY <1>1 DEF PartsInv
<1> QED
  BY <1>2, <1>3, <1>4 DEF IInv

\* A range that is read while the header is: the answer is not begun.
LEMMA ReadingKeeps ==
  ASSUME IInv, request.phase = "scan", Reading, Count,
         UNCHANGED <<object, reply>>, scan' \in Scan, wanted' \subseteq Nat,
         ScanFits(request.length, scan'), Covered(scan') = wanted'
  PROVE  IInv'
<1>1. /\ request' \in RequestType /\ request'.phase = "scan"
      /\ request'.length = request.length
  BY BoundAssumption, Types DEF IInv, Reading, Count, RequestType
<1>2. TypeOK'
  BY <1>1, Types, TypesAfter DEF IInv
<1>3. ~ reply'.ranged /\ reply'.parts = <<>>
  BY DEF IInv, HeaderInv
<1>4. Covered(scan)' = wanted'
  BY DEF Covered
<1>5. HeaderInv'
  BY <1>1, <1>3, <1>4 DEF HeaderInv
<1>6. PartsInv'
  BY <1>1, <1>3 DEF PartsInv
<1> QED
  BY <1>2, <1>5, <1>6 DEF IInv

\* A range of the header, well formed, is taken up or is past the object.
LEMMA OneRangeKeeps ==
  ASSUME IInv, NEW start \in Int, NEW end \in Int, start <= end,
         start >= 0 \/ end = request.length - 1, OneRange(start, end)
  PROVE  IInv'
<1>1. /\ request.length \in Nat /\ scan \in Scan /\ wanted \subseteq Nat
      /\ request.phase = "scan"
  BY LengthNat, Types DEF IInv, OneRange, Unsatisfiable, Satisfiable, Reading
<1>2. ScanFits(request.length, scan) /\ Covered(scan) = wanted
  BY <1>1 DEF IInv, HeaderInv
<1>3. CASE Unsatisfiable(start)
  <2> DEFINE s2 == [scan EXCEPT !.unsatisfiable = TRUE]
  <2>1. /\ s2 \in Scan /\ s2.indexes = scan.indexes /\ s2.in_merge = scan.in_merge
        /\ s2.ostart = scan.ostart /\ s2.oend = scan.oend
    BY <1>1 DEF Scan
  <2>2. scan' = s2 /\ Reading /\ Count /\ UNCHANGED <<object, wanted, reply>>
    BY <1>3 DEF Unsatisfiable
  <2> HIDE DEF s2
  <2>3. ScanFits(request.length, s2) /\ Covered(s2) = wanted
    BY <1>2, <2>1 DEF ScanFits, Covered
  <2> QED
    BY <1>1, <2>1, <2>2, <2>3, ReadingKeeps
<1>4. CASE Satisfiable(start, end)
  <2> DEFINE r == Clipped(start, end)
  <2>1. First(start) < request.length /\ Reading /\ Count /\ UNCHANGED <<object, reply>>
    BY <1>4 DEF Satisfiable
  <2>2. r \in Range /\ InObject(request.length, r.start, r.end)
    BY <1>1, <2>1, ClippedFits
  <2>3. scan' = IF ~ scan.in_merge
                THEN [scan EXCEPT !.in_merge = TRUE, !.ostart = r.start, !.oend = r.end]
                ELSE IF Touches(scan, r) THEN Joined(scan, r)
                ELSE [Push(scan) EXCEPT !.ostart = r.start, !.oend = r.end]
    BY <1>4 DEF Satisfiable
  <2>4. wanted' = wanted \cup Bytes(r)
    BY <1>4 DEF Satisfiable
  <2> HIDE DEF r
  <2>5. /\ scan' \in Scan /\ ScanFits(request.length, scan')
        /\ Covered(scan') = Covered(scan) \cup Bytes(r)
    BY <1>1, <1>2, <2>2, <2>3, ScanTakes
  <2>6. Bytes(r) \subseteq Nat
    BY <2>2 DEF Range, Bytes, InObject
  <2> QED
    BY <1>1, <1>2, <2>1, <2>4, <2>5, <2>6, ReadingKeeps
<1> QED
  BY <1>3, <1>4 DEF OneRange

\* What is decided at the end of the header, of a table that lies in the object.
LEMMA DecideKeeps ==
  ASSUME IInv, NEW s \in Scan, NEW asked \in SUBSET Nat, request.phase = "scan",
         TableFits(request.length, s.indexes), Table(s.indexes) = asked,
         Decide(s, asked), object' = object
  PROVE  IInv'
<1>1. /\ request \in RequestType /\ request.length \in Nat /\ reply \in ReplyType
      /\ ~ reply.ranged /\ reply.parts = <<>>
  BY LengthNat, Types DEF IInv, HeaderInv
<1>2. CASE /\ reply' = [reply EXCEPT !.status = 416] /\ Go("close")
           /\ scan' = NewScan /\ wanted' = {}
  <2>1. /\ request' \in RequestType /\ request'.phase = "close"
        /\ reply' \in ReplyType /\ ~ reply'.ranged /\ reply'.parts = <<>>
    BY <1>1, <1>2 DEF Go, RequestType, ReplyType
  <2>2. TypeOK'
    BY <1>2, <2>1, NewScanFacts, Types, TypesAfter DEF IInv
  <2>3. HeaderInv' /\ PartsInv'
    BY <2>1 DEF HeaderInv, PartsInv
  <2> QED
    BY <2>2, <2>3 DEF IInv
<1>3. ASSUME NEW ranged \in BOOLEAN, ranged => s.indexes # <<>>,
             reply' = [reply EXCEPT !.status = IF TooMuch(s) THEN @ ELSE 206,
                                    !.ranged = ranged,
                                    !.content_length = IF ranged THEN -1 ELSE @],
             scan' = IF ranged THEN [NewScan EXCEPT !.indexes = s.indexes] ELSE NewScan,
             wanted' = IF ranged THEN asked ELSE Everything,
             Go("seek")
      PROVE  IInv'
  <2>1. /\ request' \in RequestType /\ request'.phase = "seek"
        /\ request'.length = request.length
    BY <1>1, <1>3 DEF Go, RequestType
  <2>2. reply' \in ReplyType /\ reply'.ranged = ranged /\ reply'.parts = <<>>
    <3> DEFINE status == IF TooMuch(s) THEN reply.status ELSE 206
               length == IF ranged THEN -1 ELSE reply.content_length
    <3>1. reply' = ReplyOf(reply, status, ranged, length)
      BY <1>3 DEF ReplyOf
    <3>2. status \in {200, 206, 416}
      BY <1>1 DEF ReplyType
    <3>3. length \in Lengths \cup {-1}
      BY <1>1 DEF ReplyType
    <3> HIDE DEF status, length
    <3> QED
      BY <1>1, <3>1, <3>2, <3>3, ReplyWith
  <2>3. Everything \subseteq Nat
    BY <1>1 DEF Everything
  <2>4. s.indexes \in Seq(Range)
    BY DEF Scan
  <2> DEFINE t == [NewScan EXCEPT !.indexes = s.indexes]
  <2>5. t \in Scan /\ t.indexes = s.indexes /\ ~ t.in_merge
    <3>1. NewScan \in Scan /\ ~ NewScan.in_merge
      BY NewScanFacts
    <3>2. ASSUME NEW x \in Seq(Range)
          PROVE  /\ [NewScan EXCEPT !.indexes = x] \in Scan
                 /\ [NewScan EXCEPT !.indexes = x].indexes = x
                 /\ ~ [NewScan EXCEPT !.indexes = x].in_merge
      BY <3>1 DEF Scan
    <3> QED
      BY <2>4, <3>2, Zenon
  <2> HIDE DEF t
  <2>6. ScanFits(request.length, t) /\ Covered(t) = asked
    BY <2>5 DEF ScanFits, Covered
  <2>7. scan' \in Scan /\ (ranged => scan' = t)
    BY <1>3, <2>5, NewScanFacts DEF t
  <2>8. TypeOK'
    BY <1>3, <2>1, <2>2, <2>3, <2>7, Types, TypesAfter DEF IInv
  <2>9. HeaderInv'
    <3>1. CASE ranged
      <4>1. scan' = t /\ wanted' = asked /\ t.indexes # <<>>
        BY <1>3, <2>5, <2>7, <3>1
      <4>2. Covered(scan)' = wanted'
        BY <2>6, <4>1 DEF Covered
      <4> QED
        BY <2>1, <2>6, <4>1, <4>2 DEF HeaderInv
    <3>2. CASE ~ ranged
      BY <2>1, <2>2, <3>2 DEF HeaderInv
    <3> QED
      BY <3>1, <3>2
  <2>10. PartsInv'
    <3>1. Current' = 0
      BY <2>2 DEF Current
    <3>2. Len(ToSend') > 0
      <4>1. CASE ranged
        <5>1. ToSend' = s.indexes
          BY <2>2, <2>5, <2>7, <4>1 DEF ToSend
        <5> QED
          BY <1>3, <2>4, <4>1, <5>1
      <4>2. CASE ~ ranged
        <5>1. Len(ToSend') = 1
          BY <2>2, <4>2 DEF ToSend
        <5> QED
          BY <5>1
      <4> QED
        BY <4>1, <4>2
    <3> QED
      BY <2>1, <2>2, <3>1, <3>2 DEF PartsInv
  <2> QED
    BY <2>8, <2>9, <2>10 DEF IInv
<1>4. CASE ~ (/\ reply' = [reply EXCEPT !.status = 416] /\ Go("close")
              /\ scan' = NewScan /\ wanted' = {})
  <2> DEFINE ranged == ~ TooMuch(s) /\ s.indexes # <<>> /\ ~ OverLimit(s)
  <2>1. /\ reply' = [reply EXCEPT !.status = IF TooMuch(s) THEN @ ELSE 206,
                                  !.ranged = ranged,
                                  !.content_length = IF ranged THEN -1 ELSE @]
        /\ scan' = IF ranged THEN [NewScan EXCEPT !.indexes = s.indexes] ELSE NewScan
        /\ wanted' = IF ranged THEN asked ELSE Everything
        /\ Go("seek")
    BY <1>4 DEF Decide
  <2>2. ranged \in BOOLEAN /\ (ranged => s.indexes # <<>>)
    OBVIOUS
  <2> HIDE DEF ranged
  <2> QED
    BY <1>3, <2>1, <2>2
<1> QED
  BY <1>2, <1>4

\* Reading the header, whatever its ranges are, keeps the invariant.
LEMMA ReadHeaderKeeps == ASSUME IInv, ReadHeader PROVE IInv'
<1>1. /\ request.length \in Nat /\ scan \in Scan /\ request \in RequestType
      /\ reply \in ReplyType /\ wanted \subseteq Nat
  BY LengthNat, Types DEF IInv
<1>2. ASSUME NEW a \in Number, NEW b \in Number, FromTo(a, b) PROVE IInv'
  <2>1. a \in Int /\ b \in Int /\ a >= 0
    BY LengthAssumption
  <2> QED
    BY <1>2, <2>1, OneRangeKeeps DEF FromTo
<1>3. ASSUME NEW n \in Number, From(n) PROVE IInv'
  <2>1. n \in Int /\ n > 0
    BY <1>3, LengthAssumption DEF From
  <2>2. CASE n <= request.length - 1
    BY <1>1, <1>3, <2>1, <2>2, OneRangeKeeps DEF From
  <2>3. CASE n > request.length - 1
    <3>1. OneRange(n, n)
      BY <1>1, <1>3, <2>1, <2>3 DEF From, First, OneRange, Satisfiable, Unsatisfiable
    <3> QED
      BY <2>1, <3>1, OneRangeKeeps
  <2> QED
    BY <1>1, <2>1, <2>2, <2>3
<1>4. ASSUME NEW n \in Number, Suffix(n) PROVE IInv'
  <2>1. n \in Int /\ n > 0
    BY <1>4, LengthAssumption DEF Suffix
  <2>2. /\ request.length - n \in Int /\ request.length - 1 \in Int
        /\ request.length - n <= request.length - 1
    BY <1>1, <2>1
  <2> QED
    BY <1>4, <2>2, OneRangeKeeps DEF Suffix
<1>5. CASE FromZero
  <2> DEFINE s0 == [scan EXCEPT !.indexes = <<>>, !.sum_lengths = 0,
                                !.in_merge = TRUE, !.ostart = 0,
                                !.oend = request.length - 1]
  <2>1. /\ s0 \in Scan /\ s0.indexes = <<>> /\ s0.in_merge
        /\ s0.ostart = 0 /\ s0.oend = request.length - 1
    <3>1. request.length - 1 \in Int /\ <<>> \in Seq(Range)
      BY <1>1, TableEmpty
    <3>2. s0 = Opened(Retabled(scan, <<>>, 0), 0, request.length - 1)
      BY DEF Opened, Retabled
    <3> HIDE DEF s0
    <3> QED
      BY <1>1, <3>1, <3>2, ScanWith
  <2>2. Decide(Closed(s0), Everything) /\ object' = object /\ request.phase = "scan"
    BY <1>5 DEF FromZero, Reading
  <2> HIDE DEF s0
  <2>3. ScanFits(request.length, s0)
    BY <1>1, <2>1, TableEmpty DEF ScanFits, InObject
  <2>4. Covered(s0) = Everything
    BY <2>1, TableEmpty DEF Covered, Everything
  <2>5. /\ Closed(s0) \in Scan /\ Table(Closed(s0).indexes) = Everything
        /\ TableFits(request.length, Closed(s0).indexes)
    BY <1>1, <2>1, <2>3, <2>4, ClosedCovers
  <2>6. Everything \in SUBSET Nat
    BY <1>1 DEF Everything
  <2> QED
    BY <2>2, <2>5, <2>6, DecideKeeps
<1>6. CASE EndOfHeader
  <2>1. Decide(Closed(scan), wanted) /\ object' = object /\ request.phase = "scan"
    BY <1>6 DEF EndOfHeader
  <2>2. ScanFits(request.length, scan) /\ Covered(scan) = wanted
    BY <2>1 DEF IInv, HeaderInv
  <2>3. /\ Closed(scan) \in Scan /\ Table(Closed(scan).indexes) = wanted
        /\ TableFits(request.length, Closed(scan).indexes)
    BY <1>1, <2>2, ClosedCovers
  <2> QED
    BY <1>1, <2>1, <2>3, DecideKeeps
<1>7. CASE Ignored
  <2>1. /\ request' \in RequestType /\ request'.phase = "seek" /\ scan' = NewScan
        /\ object' = object /\ reply' = reply /\ wanted' = Everything
    BY <1>1, <1>7 DEF Ignored, Go, RequestType
  <2>2. ~ reply'.ranged /\ reply'.parts = <<>>
    BY <1>7, <2>1 DEF Ignored, IInv, HeaderInv
  <2>3. Everything \subseteq Nat
    BY <1>1 DEF Everything
  <2>4. TypeOK'
    BY <2>1, <2>3, NewScanFacts, Types, TypesAfter DEF IInv
  <2>5. HeaderInv'
    BY <2>1, <2>2 DEF HeaderInv
  <2>6. Current' = 0 /\ Len(ToSend') = 1
    BY <2>2 DEF Current, ToSend
  <2>7. PartsInv'
    BY <2>1, <2>2, <2>6 DEF PartsInv
  <2> QED
    BY <2>4, <2>5, <2>7 DEF IInv
<1> QED
  BY <1>2, <1>3, <1>4, <1>5, <1>6, <1>7 DEF ReadHeader

-----------------------------------------------------------------------------
(* The answer.                                                             *)

\* A step of the request that leaves alone what was asked and sent.
LEMMA PhaseKeeps ==
  ASSUME IInv, UNCHANGED <<object, scan, wanted, reply>>, request' \in RequestType,
         request'.length = request.length,
         request'.phase \notin {"found", "read"},
         request'.phase = "scan" => request.phase = "found",
         request'.phase = "seek" => Current < Len(ToSend)
  PROVE  IInv'
<1>1. TypeOK'
  BY Types, TypesAfter DEF IInv
<1>2. request.length \in Nat
  BY LengthNat DEF IInv
<1>3. HeaderInv'
  <2>1. CASE request'.phase = "scan"
    <3>1. scan' = NewScan /\ wanted' = {} /\ ~ reply'.ranged /\ reply'.parts = <<>>
      BY <2>1 DEF IInv, HeaderInv
    <3>2. ScanFits(request'.length, scan') /\ Covered(scan) = {}
      BY <1>2, <3>1, NewScanFacts
    <3>3. Covered(scan)' = {}
      BY <3>2 DEF Covered
    <3> QED
      BY <2>1, <3>1, <3>2, <3>3 DEF HeaderInv
  <2>2. CASE request'.phase # "scan"
    <3>1. Covered(scan)' = Covered(scan)
      BY DEF Covered
    <3>2. request'.phase \notin {"found", "scan"}
      BY <2>2
    <3> QED
      BY <3>1, <3>2 DEF IInv, HeaderInv
  <2> QED
    BY <2>1, <2>2
<1>4. PartsInv'
  BY DEF IInv, PartsInv, Current, ToSend
<1> QED
  BY <1>1, <1>3, <1>4 DEF IInv

\* Other clients do not touch the request.
LEMMA OthersKeep == ASSUME IInv, Others PROVE IInv'
<1>1. object' \in ObjectType /\ UNCHANGED <<request, scan, wanted, reply>>
  <2>1. object \in ObjectType
    BY Types DEF IInv
  <2>2. ASSUME NEW length \in Lengths, Replace(length)
        PROVE  object' \in ObjectType /\ UNCHANGED <<request, scan, wanted, reply>>
    BY <2>1, <2>2, BoundAssumption DEF Replace, ObjectType
  <2>3. CASE Remove
    BY <2>1, <2>3 DEF Remove, ObjectType
  <2> QED
    BY <2>2, <2>3 DEF Others
<1>2. TypeOK'
  BY <1>1, Types, TypesAfter DEF IInv
<1>3. HeaderInv' /\ PartsInv'
  BY <1>1 DEF IInv, HeaderInv, PartsInv, Covered, Current, ToSend
<1> QED
  BY <1>2, <1>3 DEF IInv

\* The ranges to send lie in the object.
LEMMA ToSendFits ==
  ASSUME IInv, NEW i \in 1 .. Len(ToSend)
  PROVE  ToSend \in Seq(Range) /\ InObject(request.length, ToSend[i].start, ToSend[i].end)
<1>1. request.length \in Nat /\ scan \in Scan
  BY LengthNat, Types DEF IInv
<1>2. CASE reply.ranged
  <2>1. ToSend = scan.indexes /\ ScanFits(request.length, scan)
    BY <1>2 DEF ToSend, IInv, HeaderInv
  <2> QED
    BY <1>1, <2>1 DEF ScanFits, TableFits, Scan
<1>3. CASE ~ reply.ranged
  <2> DEFINE r == [start |-> 0, end |-> request.length - 1]
  <2>1. ToSend = <<r>>
    BY <1>3 DEF ToSend
  <2>2. r \in Range /\ r.start = 0 /\ r.end = request.length - 1
    BY <1>1 DEF Range
  <2> HIDE DEF r
  <2>3. i = 1 /\ ToSend \in Seq(Range) /\ ToSend[i] = r
    BY <2>1, <2>2
  <2> QED
    BY <1>1, <2>2, <2>3 DEF InObject
<1> QED
  BY <1>2, <1>3

\* A range begins with nothing sent of it.
LEMMA SeekKeeps == ASSUME IInv, Seek PROVE IInv'
<1> DEFINE r == ToSend[Current + 1]
           part == [start |-> r.start, end |-> r.end, data |-> <<>>]
<1>1. /\ request \in RequestType /\ reply \in ReplyType /\ reply.parts \in Seq(Part)
      /\ request.phase = "seek" /\ Current \in Nat /\ Current < Len(ToSend)
  BY Types DEF IInv, PartsInv, Seek, ReplyType, Current
<1>2. /\ request' \in RequestType /\ request'.phase = "read"
      /\ request'.length = request.length
  BY <1>1 DEF Seek, Go, RequestType
<1>3. reply' = [reply EXCEPT !.parts = Append(reply.parts, part)]
      /\ UNCHANGED <<object, scan, wanted>>
  BY DEF Seek
<1>4. Current + 1 \in 1 .. Len(ToSend)
  <2>1. Len(ToSend) \in Nat
    <3>1. scan \in Scan
      BY Types DEF IInv
    <3> QED
      BY <3>1 DEF ToSend, Scan
  <2> QED
    BY <1>1, <2>1
<1>5. r \in Range /\ InObject(request.length, r.start, r.end)
  BY <1>4, ToSendFits
<1> HIDE DEF r
<1>6. part \in Part /\ part.start = r.start /\ part.end = r.end /\ part.data = <<>>
  BY <1>5 DEF Part, Range
<1> HIDE DEF part
<1>7. PartOK(part)
  <2>1. Len(part.data) = 0
    BY <1>6
  <2> QED
    BY <1>5, <1>6, <2>1 DEF PartOK, InObject, Range
<1>8. /\ reply' \in ReplyType /\ reply'.ranged = reply.ranged
      /\ reply'.parts = Append(reply.parts, part)
  <2>1. Append(reply.parts, part) \in Seq(Part)
    BY <1>1, <1>6
  <2> QED
    BY <1>1, <1>3, <2>1 DEF ReplyType
<1>9. TypeOK'
  BY <1>2, <1>3, <1>8, Types, TypesAfter DEF IInv
<1>10. HeaderInv'
  <2>1. Covered(scan)' = Covered(scan)
    BY <1>3 DEF Covered
  <2> QED
    BY <1>2, <1>3, <1>8, <2>1 DEF IInv, HeaderInv
<1>11. PartsInv'
  <2>1. /\ Len(reply'.parts) = Current + 1 /\ reply'.parts[Current + 1] = part
        /\ \A i \in 1 .. Current : reply'.parts[i] = reply.parts[i]
    BY <1>1, <1>8, <1>6 DEF Current
  <2>2. \A i \in 1 .. Current + 1 : i \in 1 .. Current \/ i = Current + 1
    BY <1>1
  <2>3. \A i \in 1 .. Current : PartOK(reply.parts[i])
    BY DEF IInv, PartsInv, Current
  <2>4. \A i \in 1 .. Len(reply'.parts) : PartOK(reply'.parts[i])
    BY <1>7, <2>1, <2>2, <2>3
  <2>5. Current' > 0
    BY <1>1, <2>1 DEF Current
  <2> QED
    BY <1>2, <2>4, <2>5 DEF PartsInv
<1> QED
  BY <1>9, <1>10, <1>11 DEF IInv

\* The bytes of a part, with more appended.
LEMMA Appended ==
  ASSUME NEW a \in Seq(Byte), NEW b \in Seq(Byte)
  PROVE  /\ a \o b \in Seq(Byte) /\ Len(a \o b) = Len(a) + Len(b)
         /\ \A k \in 1 .. Len(a) : (a \o b)[k] = a[k]
         /\ \A k \in Len(a) + 1 .. Len(a) + Len(b) : (a \o b)[k] = b[k - Len(a)]
  OBVIOUS

\* n more bytes of a part, from where the handle is.
LEMMA PartGrows ==
  ASSUME NEW p \in Part, PartOK(p), NEW v \in Nat, NEW n \in Nat,
         n <= (p.end - p.start + 1) - Len(p.data)
  PROVE  LET more == [i \in 1 .. n |-> <<v, p.start + Len(p.data) + i - 1>>]
             q == [p EXCEPT !.data = @ \o more]
         IN  q \in Part /\ PartOK(q)
<1> DEFINE more == [i \in 1 .. n |-> <<v, p.start + Len(p.data) + i - 1>>]
           data == p.data \o more
           q == [p EXCEPT !.data = data]
<1>1. p.start \in Nat /\ p.end \in Int /\ p.data \in Seq(Byte) /\ Len(p.data) \in Nat
  BY DEF Part, PartOK
<1>2. \A i \in 1 .. n : p.start + Len(p.data) + i - 1 \in Nat
  BY <1>1
<1>3. more \in Seq(Byte) /\ Len(more) = n
      /\ \A i \in 1 .. n : more[i][2] = p.start + Len(p.data) + i - 1
  BY <1>2 DEF Byte
<1> HIDE DEF more
<1>4. /\ data \in Seq(Byte) /\ Len(data) = Len(p.data) + n
      /\ \A k \in 1 .. Len(p.data) : data[k] = p.data[k]
      /\ \A k \in Len(p.data) + 1 .. Len(p.data) + n : data[k] = more[k - Len(p.data)]
  BY <1>1, <1>3, Appended
<1> HIDE DEF data
<1>5. q \in Part /\ q.start = p.start /\ q.end = p.end /\ q.data = data
  BY <1>1, <1>4 DEF Part
<1>6. ASSUME NEW k \in 1 .. Len(data) PROVE data[k][2] = p.start + k - 1
  <2>1. CASE k \in 1 .. Len(p.data)
    BY <1>4, <2>1 DEF PartOK
  <2>2. CASE k \in Len(p.data) + 1 .. Len(p.data) + n
    <3>1. k - Len(p.data) \in 1 .. n
      BY <1>1, <2>2
    <3>2. data[k][2] = p.start + Len(p.data) + (k - Len(p.data)) - 1
      BY <1>3, <1>4, <2>2, <3>1
    <3> QED
      BY <1>1, <3>2
  <2> QED
    BY <1>1, <1>4, <2>1, <2>2
<1> HIDE DEF q
<1>7. PartOK(q)
  BY <1>1, <1>4, <1>5, <1>6 DEF PartOK
<1> QED
  BY <1>5, <1>7 DEF q, data, more

\* What is read is put where it belongs.
LEMMA ReadKeeps == ASSUME IInv, NEW n \in 1 .. RxBuffer, Read(n) PROVE IInv'
<1>1. /\ request \in RequestType /\ reply \in ReplyType /\ object \in ObjectType
      /\ reply.parts \in Seq(Part) /\ request.phase = "read"
      /\ Current \in 1 .. Len(reply.parts) /\ n \in Nat /\ object.version \in Nat
  BY Types, BufferAssumption, BoundAssumption
     DEF IInv, PartsInv, Read, ReplyType, ObjectType, Current
<1>2. Sending \in Part /\ PartOK(Sending)
  BY <1>1 DEF Sending, IInv, PartsInv
<1> DEFINE more == [i \in 1 .. n |-> <<object.version, Sending.start + Len(Sending.data) + i - 1>>]
           q == [Sending EXCEPT !.data = Sending.data \o more]
<1>3. n <= (Sending.end - Sending.start + 1) - Len(Sending.data)
  <2>1. n <= Asked - Total
    BY DEF Read
  <2> QED
    BY <2>1 DEF Asked, Total
<1>4. q \in Part /\ PartOK(q)
  BY <1>1, <1>2, <1>3, PartGrows
<1>5. reply' = [reply EXCEPT !.parts = [reply.parts EXCEPT ![Current] = q]]
  <2>1. reply' = [reply EXCEPT !.parts[Current].data = @ \o more]
    BY DEF Read, Offset, Total
  <2> HIDE DEF more
  <2> QED
    BY <1>1, <2>1 DEF Sending
<1>6. UNCHANGED <<object, request, scan, wanted>>
  BY DEF Read
<1> HIDE DEF q, more
<1> DEFINE parts == [reply.parts EXCEPT ![Current] = q]
<1>7. /\ parts \in Seq(Part) /\ Len(parts) = Len(reply.parts)
      /\ \A i \in 1 .. Len(parts) : parts[i] = IF i = Current THEN q ELSE reply.parts[i]
  BY <1>1, <1>4
<1> HIDE DEF parts
<1>8. reply' \in ReplyType /\ reply'.ranged = reply.ranged /\ reply'.parts = parts
  BY <1>1, <1>5, <1>7 DEF ReplyType, parts
<1>9. TypeOK'
  BY <1>6, <1>8, Types, TypesAfter DEF IInv
<1>10. HeaderInv'
  <2>1. Covered(scan)' = Covered(scan)
    BY <1>6 DEF Covered
  <2> QED
    BY <1>1, <1>6, <1>8, <2>1 DEF IInv, HeaderInv
<1>11. PartsInv'
  <2>1. \A i \in 1 .. Len(reply'.parts) : PartOK(reply'.parts[i])
    BY <1>4, <1>7, <1>8 DEF IInv, PartsInv
  <2>2. Current' > 0
    BY <1>1, <1>7, <1>8 DEF Current
  <2> QED
    BY <1>1, <1>6, <2>1, <2>2 DEF PartsInv
<1> QED
  BY <1>9, <1>10, <1>11 DEF IInv

-----------------------------------------------------------------------------
(* What follows.                                                           *)

\* A server that starts has no request.
LEMMA InitKeeps == ASSUME Init PROVE IInv
<1>1. request.phase = "idle" /\ ~ reply.ranged /\ reply.parts = <<>>
  BY DEF Init
<1>2. object \in ObjectType /\ scan \in Scan /\ wanted \subseteq Nat
  <2>1. object \in [there : {TRUE}, version : {0}, length : Lengths]
    BY DEF Init
  <2>2. 0 \in 0 .. MaxVersions
    BY BoundAssumption
  <2> QED
    BY <2>1, <2>2, NewScanFacts DEF Init, ObjectType
<1>3. request \in RequestType
  <2>1. (CHOOSE l \in Limits : TRUE) \in Limits
    BY LimitAssumption
  <2> QED
    BY <1>2, <2>1, BoundAssumption DEF Init, RequestType, ObjectType
<1>4. reply \in ReplyType
  BY DEF Init, ReplyType
<1>5. HeaderInv /\ PartsInv
  BY <1>1 DEF HeaderInv, PartsInv
<1> QED
  BY <1>2, <1>3, <1>4, <1>5, Types DEF IInv

\* Every step keeps what is known.
LEMMA StepKeeps == ASSUME IInv, [Next]_vars PROVE IInv'
<1>1. request \in RequestType /\ reply \in ReplyType
  BY Types DEF IInv
<1>2. ASSUME NEW limits \in Limits, Get(limits) PROVE IInv'
  BY <1>2, GetKeeps
<1>3. CASE Open
  <2>1. request' \in RequestType /\ request'.length = request.length /\ request'.phase = "scan"
    BY <1>1, <1>3 DEF Open, RequestType
  <2> QED
    BY <1>3, <2>1, PhaseKeeps DEF Open
<1>4. CASE OpenFails \/ SendFails
  <2>1. request' \in RequestType /\ request'.length = request.length /\ request'.phase = "failed"
    BY <1>1, <1>4 DEF OpenFails, SendFails, Go, RequestType
  <2> QED
    BY <1>4, <2>1, PhaseKeeps DEF OpenFails, SendFails
<1>5. CASE EndRange
  <2>1. /\ request' \in RequestType /\ request'.length = request.length
        /\ request'.phase = IF Current < Len(ToSend) THEN "seek" ELSE "close"
    BY <1>1, <1>5 DEF EndRange, Go, RequestType
  <2> QED
    BY <1>5, <2>1, PhaseKeeps DEF EndRange
<1>6. CASE Close
  <2>1. request' \in RequestType /\ request'.length = request.length /\ request'.phase = "done"
    BY <1>1, <1>6 DEF Close, RequestType
  <2> QED
    BY <1>6, <2>1, PhaseKeeps DEF Close
<1>7. CASE Answered
  <2>1. request' \in RequestType /\ request'.length = request.length /\ request'.phase = "idle"
    BY <1>1, <1>7 DEF Answered, Go, RequestType
  <2> QED
    BY <1>7, <2>1, PhaseKeeps DEF Answered
<1>8. CASE ReadHeader
  BY <1>8, ReadHeaderKeeps
<1>9. CASE Seek
  BY <1>9, SeekKeeps
<1>10. ASSUME NEW n \in 1 .. RxBuffer, Read(n) PROVE IInv'
  BY <1>10, ReadKeeps
<1>11. CASE Others
  BY <1>11, OthersKeep
<1>12. CASE UNCHANGED vars
  BY <1>12 DEF vars, IInv, TypeOK, HeaderInv, PartsInv, Covered, Current, ToSend
<1> QED
  BY <1>2, <1>3, <1>4, <1>5, <1>6, <1>7, <1>8, <1>9, <1>10, <1>11, <1>12
     DEF Next, Worker

\* Of every request: what is known of its header and of what was sent.
THEOREM Invariance == Spec => []IInv
  BY InitKeeps, StepKeeps, PTL DEF Spec

\* The type invariant.
THEOREM DownloadTypes == Spec => []TypeOK
<1>1. IInv => TypeOK
  BY DEF IInv
<1> QED
  BY <1>1, Invariance, PTL

\* The merged ranges ask for the bytes that the header asks for.
THEOREM MergesExactly == Spec => []MergeKeepsBytes
<1>1. IInv => MergeKeepsBytes
  BY DEF IInv, HeaderInv, MergeKeepsBytes
<1> QED
  BY <1>1, Invariance, PTL

\* An empty object has no range but "0-".
EmptyInv ==
  request.length = 0 =>
    /\ request.phase = "scan" => scan.indexes = <<>> /\ ~ scan.in_merge
    /\ reply.ranged => Len(scan.indexes) = 1

\* A table of one range at most gives an answer of one.
LEMMA DecideOne ==
  ASSUME IInv, NEW s \in Scan, NEW asked, request.phase = "scan",
         s.indexes = <<>> \/ Len(s.indexes) = 1, Decide(s, asked)
  PROVE  EmptyInv'
<1>1. request \in RequestType /\ reply \in ReplyType /\ ~ reply.ranged
  BY Types DEF IInv, HeaderInv
<1>2. request'.phase # "scan"
  BY <1>1 DEF Decide, Go, RequestType
<1>3. CASE reply' = [reply EXCEPT !.status = 416]
  BY <1>1, <1>2, <1>3 DEF EmptyInv, ReplyType
<1>4. CASE reply' # [reply EXCEPT !.status = 416]
  <2> DEFINE ranged == ~ TooMuch(s) /\ s.indexes # <<>> /\ ~ OverLimit(s)
  <2>1. /\ reply' = [reply EXCEPT !.status = IF TooMuch(s) THEN @ ELSE 206,
                                  !.ranged = ranged,
                                  !.content_length = IF ranged THEN -1 ELSE @]
        /\ scan' = IF ranged THEN [NewScan EXCEPT !.indexes = s.indexes] ELSE NewScan
    BY <1>4 DEF Decide
  <2>2. ranged => s.indexes # <<>>
    OBVIOUS
  <2> HIDE DEF ranged
  <2>3. reply'.ranged = ranged
    BY <1>1, <2>1 DEF ReplyType
  <2>4. ranged => scan'.indexes = s.indexes
    BY <2>1 DEF NewScan
  <2> QED
    BY <1>2, <2>2, <2>3, <2>4 DEF EmptyInv
<1> QED
  BY <1>3, <1>4

LEMMA ReadHeaderEmpty == ASSUME IInv, EmptyInv, ReadHeader PROVE EmptyInv'
<1>1. /\ request \in RequestType /\ request.length \in Nat /\ scan \in Scan
      /\ reply \in ReplyType
  BY LengthNat, Types DEF IInv
<1>2. ASSUME NEW start \in Int, NEW end, OneRange(start, end) PROVE EmptyInv'
  <2>1. /\ request.phase = "scan" /\ request'.length = request.length
        /\ reply' = reply /\ ~ reply.ranged
    BY <1>1, <1>2 DEF OneRange, Unsatisfiable, Satisfiable, Reading, Count,
                      RequestType, IInv, HeaderInv
  <2>2. CASE Unsatisfiable(start)
    <3>1. scan' = [scan EXCEPT !.unsatisfiable = TRUE]
      BY <2>2 DEF Unsatisfiable
    <3>2. scan'.indexes = scan.indexes /\ scan'.in_merge = scan.in_merge
      BY <1>1, <3>1 DEF Scan
    <3> QED
      BY <2>1, <3>2 DEF EmptyInv
  <2>3. CASE Satisfiable(start, end)
    <3>1. request.length # 0
      BY <1>1, <2>3 DEF Satisfiable, First
    <3> QED
      BY <2>1, <3>1 DEF EmptyInv
  <2> QED
    BY <1>2, <2>2, <2>3 DEF OneRange
<1>3. CASE \/ \E a, b \in Number : FromTo(a, b)
           \/ \E n \in Number : From(n) \/ Suffix(n)
  <2>1. PICK start \in Int, end \in Int : OneRange(start, end)
    <3>1. \A n \in Number : n \in Int /\ request.length - n \in Int
      BY <1>1, LengthAssumption
    <3>2. request.length - 1 \in Int
      BY <1>1
    <3> QED
      BY <1>3, <3>1, <3>2 DEF FromTo, From, Suffix
  <2> QED
    BY <1>2, <2>1
<1>4. CASE FromZero
  <2> DEFINE s0 == [scan EXCEPT !.indexes = <<>>, !.sum_lengths = 0,
                                !.in_merge = TRUE, !.ostart = 0,
                                !.oend = request.length - 1]
  <2>1. s0 \in Scan /\ s0.indexes = <<>> /\ s0.in_merge
    <3>1. request.length - 1 \in Int /\ <<>> \in Seq(Range)
      BY <1>1, TableEmpty
    <3>2. s0 = Opened(Retabled(scan, <<>>, 0), 0, request.length - 1)
      BY DEF Opened, Retabled
    <3> HIDE DEF s0
    <3> QED
      BY <1>1, <3>1, <3>2, ScanWith
  <2>2. Decide(Closed(s0), Everything) /\ request.phase = "scan"
    BY <1>4 DEF FromZero, Reading
  <2> HIDE DEF s0
  <2>3. ScanFits(request.length, s0)
    <3>1. s0.ostart = 0 /\ s0.oend = request.length - 1
      BY <1>1 DEF s0, Scan
    <3> QED
      BY <1>1, <2>1, <3>1, TableEmpty DEF ScanFits, InObject
  <2>4. Closed(s0) \in Scan
    BY <1>1, <2>1, <2>3, ClosedCovers
  <2>5. Len(Closed(s0).indexes) = 1
    <3> DEFINE r == [start |-> s0.ostart, end |-> s0.oend]
    <3>1. Closed(s0).indexes = Append(s0.indexes, r)
      BY <2>1 DEF Closed, Push, Scan
    <3> HIDE DEF r
    <3> QED
      BY <2>1, <3>1
  <2> QED
    BY <2>2, <2>4, <2>5, DecideOne
<1>5. CASE EndOfHeader
  <2>1. Decide(Closed(scan), wanted) /\ request.phase = "scan"
    BY <1>5 DEF EndOfHeader
  <2>2. CASE request.length = 0
    <3>1. Closed(scan) = scan /\ scan.indexes = <<>>
      BY <2>1, <2>2 DEF EmptyInv, Closed
    <3> QED
      BY <1>1, <2>1, <3>1, DecideOne
  <2>3. CASE request.length # 0
    <3>1. request'.length = request.length
      BY <1>1, <2>1 DEF Decide, Go, RequestType
    <3> QED
      BY <2>3, <3>1 DEF EmptyInv
  <2> QED
    BY <2>2, <2>3
<1>6. CASE Ignored
  <2>1. request'.phase = "seek" /\ reply' = reply /\ ~ reply.ranged
    BY <1>1, <1>6 DEF Ignored, Go, RequestType, IInv, HeaderInv
  <2> QED
    BY <2>1 DEF EmptyInv
<1> QED
  BY <1>3, <1>4, <1>5, <1>6 DEF ReadHeader

\* Of an empty object no range is taken up but "0-": whatever the header asks
\* for, its start is clipped to 0, which is not below the length
\* (ap_set_byterange).
THEOREM EmptyInvariance == Spec => [](IInv /\ EmptyInv)
<1>1. Init => IInv /\ EmptyInv
  BY InitKeeps DEF Init, EmptyInv
<1>2. IInv /\ EmptyInv /\ [Next]_vars => (IInv /\ EmptyInv)'
  <2> SUFFICES ASSUME IInv, EmptyInv, [Next]_vars PROVE IInv' /\ EmptyInv'
    OBVIOUS
  <2>1. IInv' /\ request \in RequestType /\ reply \in ReplyType
    BY StepKeeps, Types DEF IInv
  <2>2. ASSUME NEW limits \in Limits, Get(limits) PROVE EmptyInv'
    BY <2>2 DEF Get, EmptyInv
  <2>3. CASE Open \/ OpenFails \/ SendFails \/ EndRange \/ Close \/ Answered
    <3>1. /\ request'.length = request.length /\ UNCHANGED <<scan, reply>>
          /\ request'.phase = "scan" => request.phase = "found"
      BY <2>1, <2>3 DEF Open, OpenFails, SendFails, EndRange, Close, Answered, Go,
                        RequestType
    <3>2. request.phase = "found" => scan.indexes = <<>> /\ ~ scan.in_merge
      BY DEF IInv, HeaderInv, NewScan
    <3> QED
      BY <2>1, <3>1, <3>2 DEF EmptyInv
  <2>4. CASE ReadHeader
    BY <2>1, <2>4, ReadHeaderEmpty
  <2>5. CASE Seek \/ \E n \in 1 .. RxBuffer : Read(n)
    <3>1. scan' = scan /\ reply'.ranged = reply.ranged
      BY <2>1, <2>5 DEF Seek, Read, ReplyType
    <3>2. request'.length = request.length /\ request'.phase = "read"
      BY <2>1, <2>5 DEF Seek, Read, Go, RequestType
    <3> QED
      BY <2>1, <3>1, <3>2 DEF EmptyInv
  <2>6. CASE Others \/ UNCHANGED vars
    BY <2>1, <2>6 DEF Others, Replace, Remove, vars, EmptyInv
  <2> QED
    BY <2>1, <2>2, <2>3, <2>4, <2>5, <2>6 DEF Next, Worker
<1> QED
  BY <1>1, <1>2, PTL DEF Spec

\* The ranges that are sent lie in the object as it was looked up, and an empty
\* object has only the one of "0-".
THEOREM RangesLieInObject == Spec => []RangesInObject
<1>1. IInv /\ EmptyInv => RangesInObject
  <2> SUFFICES ASSUME IInv, EmptyInv, reply.ranged PROVE RangesInObject
    BY DEF RangesInObject
  <2>1. /\ TableFits(request.length, scan.indexes) /\ request.length \in Nat
        /\ scan.indexes \in Seq(Range)
    BY LengthNat, Types DEF IInv, HeaderInv, ScanFits, Scan
  <2>2. CASE request.length # 0
    BY <2>1, <2>2 DEF RangesInObject, TableFits, InObject
  <2>3. CASE request.length = 0
    <3>1. Len(scan.indexes) = 1
      BY <2>3 DEF EmptyInv
    <3>2. scan.indexes[1] \in Range /\ InObject(0, scan.indexes[1].start, scan.indexes[1].end)
      BY <2>1, <2>3, <3>1 DEF TableFits
    <3>3. scan.indexes[1] = [start |-> 0, end |-> -1]
      BY <3>2 DEF Range, InObject
    <3>4. scan.indexes = <<scan.indexes[1]>>
      BY <2>1, <3>1
    <3> QED
      BY <2>3, <3>3, <3>4 DEF RangesInObject
  <2> QED
    BY <2>2, <2>3
<1> QED
  BY <1>1, EmptyInvariance, PTL

\* What is sent stands in its place.
THEOREM SendsInPlace == Spec => []SentInPlace
<1>1. IInv => SentInPlace
  BY DEF IInv, PartsInv, PartOK, SentInPlace
<1> QED
  BY <1>1, Invariance, PTL

-----------------------------------------------------------------------------
(* The answer as a whole.                                                  *)

\* The length that a request works with is the object's until it is replaced.
FreshInv ==
  /\ request.version <= object.version
  /\ object.version = request.version => object.length = request.length

AnswerInv ==
  /\ request.phase \in {"found", "scan", "seek", "read"} => reply.status # 416
  /\ request.phase \in {"found", "scan"} => reply.content_length = request.length
  /\ request.phase = "done" => ~ request.open

Sends == request.phase \in {"seek", "read", "close", "done"} /\ reply.status # 416

Own(p) == \A k \in 1 .. Len(p.data) : p.data[k][1] = request.version

Full(p) == Len(p.data) = p.end - p.start + 1

\* What is sent is what was asked for, range by range, and as long as nobody
\* has replaced the object each range before the one being read is complete.
PlanInv ==
  /\ wanted = Table(ToSend)
  /\ reply.content_length = IF reply.ranged THEN -1 ELSE request.length
  /\ Current <= Len(ToSend)
  /\ request.phase \in {"close", "done"} => Current = Len(ToSend)
  /\ \A i \in 1 .. Current : /\ reply.parts[i].start = ToSend[i].start
                             /\ reply.parts[i].end = ToSend[i].end
  /\ object.version = request.version =>
       \A i \in 1 .. Current :
         /\ Own(reply.parts[i])
         /\ i < Current \/ request.phase # "read" => Full(reply.parts[i])

SInv == IInv /\ FreshInv /\ AnswerInv /\ (Sends => PlanInv)

\* All of an object, as one range.
LEMMA WholeObject ==
  ASSUME NEW n \in Nat
  PROVE  LET x == <<[start |-> 0, end |-> n - 1]>>
         IN  Table(x) = 0 .. n - 1 /\ Len(x) = 1
<1> DEFINE r == [start |-> 0, end |-> n - 1]
           x == <<r>>
<1>1. Bytes(r) = 0 .. n - 1
  BY DEF Bytes
<1> HIDE DEF r
<1>2. Len(x) = 1 /\ x[1] = r /\ 1 .. Len(x) = {1}
  OBVIOUS
<1> HIDE DEF x
<1>3. Table(x) = 0 .. n - 1
  BY <1>1, <1>2 DEF Table
<1> QED
  BY <1>2, <1>3 DEF x, r

\* The decision about the header makes a plan.
LEMMA DecidePlans ==
  ASSUME SInv, IInv', NEW s \in Scan, NEW asked, request.phase = "scan",
         Table(s.indexes) = asked, Decide(s, asked), object' = object
  PROVE  SInv'
<1>1. /\ request \in RequestType /\ reply \in ReplyType /\ request.length \in Nat
      /\ reply.parts = <<>> /\ reply.status # 416
      /\ reply.content_length = request.length
  BY Types, LengthNat DEF SInv, IInv, HeaderInv, AnswerInv
<1>2. /\ request' = [request EXCEPT !.phase = request'.phase]
      /\ request'.phase \in {"close", "seek"}
  BY <1>1 DEF Decide, Go, RequestType
<1>3. /\ request'.version = request.version /\ request'.length = request.length
      /\ request'.phase \in {"close", "seek"}
  BY <1>1, <1>2 DEF RequestType
<1>4. FreshInv'
  BY <1>3 DEF SInv, FreshInv
<1>5. CASE reply' = [reply EXCEPT !.status = 416] /\ Go("close")
  <2>1. request'.phase = "close" /\ reply'.status = 416
    BY <1>1, <1>5 DEF Go, RequestType, ReplyType
  <2> QED
    BY <1>4, <2>1 DEF SInv, AnswerInv, Sends
<1>6. CASE ~ (reply' = [reply EXCEPT !.status = 416] /\ Go("close"))
  <2> DEFINE ranged == ~ TooMuch(s) /\ s.indexes # <<>> /\ ~ OverLimit(s)
             status == IF TooMuch(s) THEN reply.status ELSE 206
             length == IF ranged THEN -1 ELSE reply.content_length
  <2>1. /\ reply' = ReplyOf(reply, status, ranged, length)
        /\ scan' = IF ranged THEN [NewScan EXCEPT !.indexes = s.indexes] ELSE NewScan
        /\ wanted' = IF ranged THEN asked ELSE Everything
        /\ Go("seek")
    BY <1>6 DEF Decide, ReplyOf
  <2>2. ranged \in BOOLEAN /\ status # 416
    BY <1>1
  <2> HIDE DEF ranged, status
  <2>3. /\ reply'.status = status /\ reply'.ranged = ranged
        /\ reply'.content_length = length /\ reply'.parts = <<>>
    BY <1>1, <2>1 DEF ReplyOf, ReplyType
  <2>4. request'.phase = "seek"
    BY <1>1, <2>1 DEF Go, RequestType
  <2>5. wanted' = Table(ToSend)' /\ Len(ToSend)' \in Nat
    <3>1. CASE ranged
      <4>1. scan'.indexes = s.indexes
        BY <2>1, <3>1 DEF NewScan
      <4>2. ToSend' = s.indexes
        BY <2>3, <3>1, <4>1 DEF ToSend
      <4>3. Table(ToSend)' = Table(s.indexes)
        BY <4>2 DEF Table
      <4> QED
        BY <2>1, <3>1, <4>2, <4>3 DEF Scan
    <3>2. CASE ~ ranged
      <4> DEFINE x == <<[start |-> 0, end |-> request.length - 1]>>
      <4>1. ToSend' = x
        BY <1>3, <2>3, <3>2 DEF ToSend
      <4>2. Table(x) = Everything /\ Len(x) = 1
        BY <1>1, WholeObject DEF Everything
      <4> HIDE DEF x
      <4>3. Table(ToSend)' = Table(x)
        BY <4>1 DEF Table
      <4> QED
        BY <2>1, <3>2, <4>1, <4>2, <4>3
    <3> QED
      BY <2>2, <3>1, <3>2
  <2>6. reply'.content_length = IF reply'.ranged THEN -1 ELSE request'.length
    BY <1>1, <1>3, <2>3
  <2>7. Current' = 0
    BY <2>3 DEF Current
  <2>8. PlanInv'
    BY <2>4, <2>5, <2>6, <2>7 DEF PlanInv
  <2>9. AnswerInv'
    BY <2>2, <2>3, <2>4 DEF AnswerInv
  <2> QED
    BY <1>4, <2>8, <2>9 DEF SInv
<1> QED
  BY <1>5, <1>6

\* A step of the header that reads on, or leaves it.
LEMMA ReadHeaderServes == ASSUME SInv, IInv', ReadHeader PROVE SInv'
<1>1. /\ request \in RequestType /\ reply \in ReplyType /\ scan \in Scan
      /\ request.length \in Nat /\ IInv
  BY Types, LengthNat DEF SInv, IInv
<1>2. ASSUME NEW start, NEW end, OneRange(start, end) PROVE SInv'
  <2>1. /\ request.phase = "scan" /\ Count /\ object' = object /\ reply' = reply
    BY <1>2 DEF OneRange, Unsatisfiable, Satisfiable, Reading
  <2>2. /\ request'.phase = "scan" /\ request'.length = request.length
        /\ request'.version = request.version
    BY <1>1, <2>1 DEF Count, RequestType
  <2> QED
    BY <2>1, <2>2 DEF SInv, FreshInv, AnswerInv, Sends
<1>3. CASE FromZero
  <2> DEFINE s0 == [scan EXCEPT !.indexes = <<>>, !.sum_lengths = 0,
                                !.in_merge = TRUE, !.ostart = 0,
                                !.oend = request.length - 1]
  <2>1. /\ s0 \in Scan /\ s0.indexes = <<>> /\ s0.in_merge
        /\ s0.ostart = 0 /\ s0.oend = request.length - 1
    <3>1. request.length - 1 \in Int /\ <<>> \in Seq(Range)
      BY <1>1, TableEmpty
    <3>2. s0 = Opened(Retabled(scan, <<>>, 0), 0, request.length - 1)
      BY DEF Opened, Retabled
    <3> HIDE DEF s0
    <3> QED
      BY <1>1, <3>1, <3>2, ScanWith
  <2>2. Decide(Closed(s0), Everything) /\ object' = object /\ request.phase = "scan"
    BY <1>3 DEF FromZero, Reading
  <2> HIDE DEF s0
  <2>3. ScanFits(request.length, s0)
    BY <1>1, <2>1, TableEmpty DEF ScanFits, InObject
  <2>4. Covered(s0) = Everything
    BY <2>1, TableEmpty DEF Covered, Everything
  <2>5. Closed(s0) \in Scan /\ Table(Closed(s0).indexes) = Everything
    BY <1>1, <2>1, <2>3, <2>4, ClosedCovers
  <2> QED
    BY <2>2, <2>5, DecidePlans
<1>4. CASE EndOfHeader
  <2>1. Decide(Closed(scan), wanted) /\ object' = object /\ request.phase = "scan"
    BY <1>4 DEF EndOfHeader
  <2>2. ScanFits(request.length, scan) /\ Covered(scan) = wanted
    BY <1>1, <2>1 DEF IInv, HeaderInv
  <2>3. Closed(scan) \in Scan /\ Table(Closed(scan).indexes) = wanted
    BY <1>1, <2>2, ClosedCovers
  <2> QED
    BY <2>1, <2>3, DecidePlans
<1>5. CASE Ignored
  <2> DEFINE x == <<[start |-> 0, end |-> request.length - 1]>>
  <2>1. /\ request.phase = "scan" /\ object' = object /\ reply' = reply
        /\ wanted' = Everything
    BY <1>5 DEF Ignored
  <2>2. /\ request'.phase = "seek" /\ request'.length = request.length
        /\ request'.version = request.version
    BY <1>1, <1>5 DEF Ignored, Go, RequestType
  <2>3. /\ ~ reply.ranged /\ reply.parts = <<>> /\ reply.status # 416
        /\ reply.content_length = request.length
    BY <2>1 DEF SInv, IInv, HeaderInv, AnswerInv
  <2>4. ToSend' = x
    BY <2>1, <2>2, <2>3 DEF ToSend
  <2>5. Table(x) = Everything /\ Len(x) = 1
    BY <1>1, WholeObject DEF Everything
  <2> HIDE DEF x
  <2>6. Table(ToSend)' = Table(x) /\ Current' = 0
    BY <2>1, <2>3, <2>4 DEF Table, Current
  <2>7. PlanInv'
    BY <2>1, <2>2, <2>3, <2>4, <2>5, <2>6 DEF PlanInv
  <2>8. FreshInv' /\ AnswerInv'
    BY <2>1, <2>2, <2>3 DEF SInv, FreshInv, AnswerInv
  <2> QED
    BY <2>7, <2>8 DEF SInv
<1> QED
  BY <1>2, <1>3, <1>4, <1>5 DEF ReadHeader, FromTo, From, Suffix

\* A step that is not about what is sent.
LEMMA SilentServes ==
  ASSUME SInv, IInv', UNCHANGED <<object, scan, wanted, reply>>,
         request'.version = request.version, request'.length = request.length,
         \/ request'.phase \in {"failed", "idle"}
         \/ request.phase = "found" /\ request'.phase = "scan"
  PROVE  SInv'
  BY DEF SInv, FreshInv, AnswerInv, Sends

\* Another client's step leaves the answer as it is, or stale.
LEMMA OthersServe == ASSUME SInv, IInv', Others PROVE SInv'
<1>1. /\ UNCHANGED <<request, scan, wanted, reply>>
      /\ request.version \in Nat /\ object.version \in Nat
  BY Types DEF SInv, IInv, Others, Replace, Remove, RequestType, ObjectType
<1>2. \/ object'.version = object.version /\ object'.length = object.length
      \/ object'.version = object.version + 1
  BY Types DEF SInv, IInv, Others, Replace, Remove, ObjectType
<1>3. FreshInv' /\ (object'.version = request.version => object.version = request.version)
  BY <1>1, <1>2 DEF SInv, FreshInv
<1>4. AnswerInv'
  BY <1>1 DEF SInv, AnswerInv
<1>5. CASE Sends'
  <2>1. PlanInv
    BY <1>1, <1>5 DEF SInv, Sends
  <2>2. PlanInv'
    BY <1>1, <1>3, <2>1 DEF PlanInv, Table, ToSend, Current, Own, Full
  <2> QED
    BY <1>3, <1>4, <2>2 DEF SInv
<1> QED
  BY <1>3, <1>4, <1>5 DEF SInv

\* A range that begins follows the plan; those before it are complete.
LEMMA SeekServes == ASSUME SInv, IInv', Seek PROVE SInv'
<1> DEFINE r == ToSend[Current + 1]
           part == [start |-> r.start, end |-> r.end, data |-> <<>>]
<1>1. /\ request \in RequestType /\ reply \in ReplyType /\ reply.parts \in Seq(Part)
      /\ request.phase = "seek" /\ Current \in Nat /\ Current < Len(ToSend)
      /\ reply.status # 416 /\ Sends /\ PlanInv
  BY Types DEF SInv, IInv, PartsInv, AnswerInv, Sends, Seek, ReplyType, Current
<1>2. /\ request'.phase = "read" /\ request'.length = request.length
      /\ request'.version = request.version
  BY <1>1 DEF Seek, Go, RequestType
<1>3. reply' = [reply EXCEPT !.parts = Append(reply.parts, part)]
      /\ UNCHANGED <<object, scan, wanted>>
  BY DEF Seek
<1>4. r \in Range
  <2>1. scan \in Scan
    BY Types DEF SInv, IInv
  <2>2. Len(ToSend) \in Nat
    BY <2>1 DEF ToSend, Scan
  <2>3. Current + 1 \in 1 .. Len(ToSend)
    BY <1>1, <2>2
  <2> QED
    BY <2>3, ToSendFits DEF SInv
<1>5. part \in Part /\ part.start = r.start /\ part.end = r.end /\ part.data = <<>>
  <2> HIDE DEF r
  <2> QED
    BY <1>4 DEF Part, Range
<1> HIDE DEF part
<1>6. /\ reply'.parts = Append(reply.parts, part)
      /\ reply'.ranged = reply.ranged /\ reply'.status = reply.status
      /\ reply'.content_length = reply.content_length
  BY <1>1, <1>3 DEF ReplyType
<1>7. /\ Current' = Current + 1 /\ reply'.parts[Current + 1] = part
      /\ \A i \in 1 .. Current : reply'.parts[i] = reply.parts[i]
  BY <1>1, <1>5, <1>6 DEF Current
<1>8. ToSend' = ToSend /\ Table(ToSend)' = Table(ToSend)
  <2>1. ToSend' = ToSend
    BY <1>2, <1>3, <1>6 DEF ToSend
  <2> QED
    BY <2>1 DEF Table
<1>9. \A i \in 1 .. Current' : i \in 1 .. Current \/ i = Current + 1
  BY <1>1, <1>7
<1>10. PlanInv'
  <2>1. \A i \in 1 .. Current' : /\ reply'.parts[i].start = ToSend[i].start
                                 /\ reply'.parts[i].end = ToSend[i].end
    <3>1. ASSUME NEW i \in 1 .. Current
          PROVE  /\ reply'.parts[i].start = ToSend[i].start
                 /\ reply'.parts[i].end = ToSend[i].end
      BY <1>1, <1>7 DEF PlanInv
    <3>2. /\ reply'.parts[Current + 1].start = ToSend[Current + 1].start
          /\ reply'.parts[Current + 1].end = ToSend[Current + 1].end
      BY <1>5, <1>7
    <3> QED
      BY <1>9, <3>1, <3>2
  <2>2. ASSUME object'.version = request'.version, NEW i \in 1 .. Current'
        PROVE  /\ \A k \in 1 .. Len(reply'.parts[i].data) :
                    reply'.parts[i].data[k][1] = request'.version
               /\ i < Current' \/ request'.phase # "read" => Full(reply'.parts[i])
    <3>1. CASE i \in 1 .. Current
      <4>1. Own(reply.parts[i]) /\ Full(reply.parts[i])
        <5>1. object.version = request.version /\ request.phase # "read"
          BY <1>1, <1>2, <1>3, <2>2
        <5> QED
          BY <1>1, <3>1, <5>1 DEF PlanInv
      <4>2. reply'.parts[i] = reply.parts[i]
        BY <1>7, <3>1
      <4> QED
        BY <1>2, <4>1, <4>2 DEF Own
    <3>2. CASE i = Current + 1
      <4>1. reply'.parts[i].data = <<>>
        BY <1>5, <1>7, <3>2
      <4>2. 1 .. Len(reply'.parts[i].data) = {}
        BY <4>1
      <4> QED
        BY <1>1, <1>2, <1>7, <3>2, <4>2
    <3> QED
      BY <1>9, <2>2, <3>1, <3>2
  <2>3. /\ wanted' = Table(ToSend)'
        /\ reply'.content_length = IF reply'.ranged THEN -1 ELSE request'.length
    BY <1>1, <1>2, <1>3, <1>6, <1>8 DEF PlanInv
  <2>4. Current' <= Len(ToSend')
    <3>1. scan \in Scan
      BY Types DEF SInv, IInv
    <3>2. Len(ToSend) \in Nat
      BY <3>1 DEF ToSend, Scan
    <3> QED
      BY <1>1, <1>7, <1>8, <3>2
  <2> QED
    BY <1>2, <1>8, <2>1, <2>2, <2>3, <2>4 DEF PlanInv, Own, Full
<1>11. FreshInv' /\ AnswerInv'
  BY <1>1, <1>2, <1>3, <1>6 DEF SInv, FreshInv, AnswerInv
<1> QED
  BY <1>10, <1>11 DEF SInv

\* What is read of an object nobody replaced is of the version looked up.
LEMMA ReadServes == ASSUME SInv, IInv', NEW n \in 1 .. RxBuffer, Read(n) PROVE SInv'
<1> DEFINE more == [i \in 1 .. n |-> <<object.version, Offset + i - 1>>]
           q == [Sending EXCEPT !.data = Sending.data \o more]
<1>1. /\ request \in RequestType /\ reply \in ReplyType /\ reply.parts \in Seq(Part)
      /\ request.phase = "read" /\ Current \in 1 .. Len(reply.parts)
      /\ Len(reply.parts) = Current /\ n \in Nat
      /\ reply.status # 416 /\ Sends /\ PlanInv
  BY Types, BufferAssumption
     DEF SInv, IInv, PartsInv, AnswerInv, Sends, Read, ReplyType, Current
<1>2. /\ Sending \in Part /\ Sending.data \in Seq(Byte) /\ Offset \in Nat
      /\ object.version \in Nat
  <2>1. Sending \in Part /\ PartOK(Sending)
    BY <1>1 DEF Sending, SInv, IInv, PartsInv
  <2> QED
    BY <2>1, Types, BoundAssumption
       DEF Part, PartOK, Offset, Total, SInv, IInv, ObjectType
<1>3. reply' = [reply EXCEPT !.parts = [reply.parts EXCEPT ![Current] = q]]
  <2>1. reply' = [reply EXCEPT !.parts[Current].data = @ \o more]
    BY DEF Read
  <2> HIDE DEF more
  <2> QED
    BY <1>1, <2>1 DEF Sending
<1>4. UNCHANGED <<object, request, scan, wanted>>
  BY DEF Read
<1>5. more \in Seq(Byte) /\ Len(more) = n
      /\ \A i \in 1 .. n : more[i][1] = object.version
  <2>1. \A i \in 1 .. n : Offset + i - 1 \in Nat
    BY <1>1, <1>2
  <2> QED
    BY <1>1, <1>2, <2>1 DEF Byte
<1> HIDE DEF more
<1>6. q.start = Sending.start /\ q.end = Sending.end /\ q.data = Sending.data \o more
  BY <1>2 DEF Part
<1> HIDE DEF q
<1>7. /\ reply'.ranged = reply.ranged /\ reply'.status = reply.status
      /\ reply'.content_length = reply.content_length
      /\ Len(reply'.parts) = Len(reply.parts)
      /\ \A i \in 1 .. Len(reply.parts) :
           reply'.parts[i] = IF i = Current THEN q ELSE reply.parts[i]
  BY <1>1, <1>3 DEF ReplyType
<1>8. Current' = Current /\ ToSend' = ToSend /\ Table(ToSend)' = Table(ToSend)
  <2>1. Current' = Current /\ ToSend' = ToSend
    BY <1>4, <1>7 DEF Current, ToSend
  <2> QED
    BY <2>1 DEF Table
<1>9. PlanInv'
  <2>1. \A i \in 1 .. Current : /\ reply'.parts[i].start = ToSend[i].start
                                /\ reply'.parts[i].end = ToSend[i].end
    <3>1. ASSUME NEW i \in 1 .. Current
          PROVE  /\ reply.parts[i].start = ToSend[i].start
                 /\ reply.parts[i].end = ToSend[i].end
      BY <1>1 DEF PlanInv
    <3>2. ASSUME NEW i \in 1 .. Current
          PROVE  reply'.parts[i] = IF i = Current THEN q ELSE reply.parts[i]
      BY <1>1, <1>7
    <3>3. ASSUME NEW i \in 1 .. Current
          PROVE  /\ reply'.parts[i].start = reply.parts[i].start
                 /\ reply'.parts[i].end = reply.parts[i].end
      BY <1>6, <3>2 DEF Sending
    <3> QED
      BY <3>1, <3>3
  <2>2. ASSUME object.version = request.version, NEW i \in 1 .. Current
        PROVE  /\ Own(reply'.parts[i])
               /\ i < Current => Full(reply'.parts[i])
    <3>1. Own(reply.parts[i]) /\ (i < Current => Full(reply.parts[i]))
      BY <1>1, <2>2 DEF PlanInv
    <3>2. CASE i = Current
      <4>1. /\ Len(q.data) = Len(Sending.data) + n
            /\ \A k \in 1 .. Len(Sending.data) : q.data[k] = Sending.data[k]
            /\ \A k \in Len(Sending.data) + 1 .. Len(Sending.data) + n :
                 q.data[k] = more[k - Len(Sending.data)]
        <5> DEFINE data == Sending.data \o more
        <5>1. /\ Len(data) = Len(Sending.data) + Len(more)
              /\ \A k \in 1 .. Len(Sending.data) : data[k] = Sending.data[k]
              /\ \A k \in Len(Sending.data) + 1 .. Len(Sending.data) + Len(more) :
                   data[k] = more[k - Len(Sending.data)]
          BY <1>2, <1>5, Appended
        <5> HIDE DEF data
        <5> QED
          BY <1>5, <1>6, <5>1 DEF data
      <4>2. ASSUME NEW k \in 1 .. Len(q.data) PROVE q.data[k][1] = request.version
        <5>1. CASE k \in 1 .. Len(Sending.data)
          BY <3>1, <3>2, <4>1, <5>1 DEF Own, Sending
        <5>2. CASE k \in Len(Sending.data) + 1 .. Len(Sending.data) + n
          <6>1. k - Len(Sending.data) \in 1 .. n
            BY <1>1, <1>2, <5>2
          <6> QED
            BY <1>5, <2>2, <4>1, <5>2, <6>1
        <5> QED
          BY <1>1, <1>2, <4>1, <5>1, <5>2
      <4>3. reply'.parts[i] = q
        BY <1>1, <1>7, <3>2
      <4> QED
        BY <1>1, <3>2, <4>2, <4>3 DEF Own
    <3>3. CASE i # Current
      <4>1. reply'.parts[i] = reply.parts[i]
        BY <1>1, <1>7, <3>3
      <4> QED
        BY <3>1, <4>1
    <3> QED
      BY <3>2, <3>3
  <2>3. /\ wanted' = Table(ToSend)'
        /\ reply'.content_length = IF reply'.ranged THEN -1 ELSE request'.length
        /\ Current' <= Len(ToSend')
    BY <1>1, <1>4, <1>7, <1>8 DEF PlanInv
  <2> QED
    BY <1>1, <1>4, <1>8, <2>1, <2>2, <2>3 DEF PlanInv, Own, Full
<1>10. FreshInv' /\ AnswerInv'
  BY <1>1, <1>4, <1>7 DEF SInv, FreshInv, AnswerInv
<1> QED
  BY <1>9, <1>10 DEF SInv

\* A range ends complete, if nobody has replaced the object.
LEMMA EndRangeServes == ASSUME SInv, IInv', EndRange PROVE SInv'
<1>1. /\ request \in RequestType /\ request.length \in Nat /\ reply.parts \in Seq(Part)
      /\ request.phase = "read" /\ Current \in 1 .. Len(reply.parts)
      /\ reply.status # 416 /\ Sends /\ PlanInv /\ scan \in Scan
  BY Types, LengthNat
     DEF SInv, IInv, PartsInv, AnswerInv, Sends, EndRange, ReplyType, Current
<1>2. UNCHANGED <<object, scan, wanted, reply>>
  BY DEF EndRange
<1>3. /\ request'.phase = IF Current < Len(ToSend) THEN "seek" ELSE "close"
      /\ request'.length = request.length /\ request'.version = request.version
  BY <1>1 DEF EndRange, Go, RequestType
<1>4. Current' = Current /\ ToSend' = ToSend /\ Table(ToSend)' = Table(ToSend)
  <2>1. Current' = Current /\ ToSend' = ToSend
    BY <1>2, <1>3 DEF Current, ToSend
  <2> QED
    BY <2>1 DEF Table
<1>5. Len(ToSend) \in Nat /\ Current \in 1 .. Len(ToSend)
  <2>1. Len(ToSend) \in Nat
    BY <1>1 DEF ToSend, Scan
  <2> QED
    BY <1>1, <2>1 DEF PlanInv
<1>6. ASSUME object.version = request.version PROVE Full(reply.parts[Current])
  <2>1. Sending \in Part /\ PartOK(Sending)
    BY <1>1 DEF Sending, SInv, IInv, PartsInv
  <2>2. /\ Sending.start \in Int /\ Sending.end \in Int /\ Total \in Nat
        /\ Total <= Sending.end - Sending.start + 1
    BY <2>1 DEF Part, PartOK, Total
  <2>3. Sending.end < request.length
    <3>1. InObject(request.length, ToSend[Current].start, ToSend[Current].end)
      BY <1>5, ToSendFits DEF SInv
    <3> QED
      BY <1>1, <1>5, <3>1 DEF PlanInv, InObject, Sending
  <2>4. object.length = request.length
    BY <1>6 DEF SInv, FreshInv
  <2>5. Total >= Sending.end - Sending.start + 1
    <3>1. CASE Total >= Asked
      BY <3>1 DEF Asked
    <3>2. CASE Offset >= object.length
      <4>1. Sending.start + Total >= request.length
        BY <2>4, <3>2 DEF Offset
      <4> QED
        BY <1>1, <2>2, <2>3, <4>1
    <3> QED
      BY <3>1, <3>2 DEF EndRange, Finished
  <2>6. Total = Sending.end - Sending.start + 1
    BY <2>2, <2>5
  <2> QED
    BY <2>6 DEF Full, Total, Sending
<1>7. PlanInv'
  <2>1. ASSUME object.version = request.version, NEW i \in 1 .. Current
        PROVE  Own(reply.parts[i]) /\ Full(reply.parts[i])
    <3>1. i < Current \/ i = Current
      BY <1>1
    <3> QED
      BY <1>1, <1>6, <2>1, <3>1 DEF PlanInv
  <2>2. request'.phase \in {"close", "done"} => Current = Len(ToSend)
    BY <1>3, <1>5
  <2> QED
    BY <1>1, <1>2, <1>3, <1>4, <2>1, <2>2 DEF PlanInv, Own, Full
<1>8. FreshInv' /\ AnswerInv'
  BY <1>1, <1>2, <1>3 DEF SInv, FreshInv, AnswerInv
<1> QED
  BY <1>7, <1>8 DEF SInv

\* The object is closed when everything has been sent.
LEMMA CloseServes == ASSUME SInv, IInv', Close PROVE SInv'
<1>1. /\ request'.phase = "done" /\ ~ request'.open
      /\ request'.length = request.length /\ request'.version = request.version
      /\ request.phase = "close" /\ UNCHANGED <<object, scan, wanted, reply>>
  BY Types DEF SInv, IInv, Close, RequestType
<1>2. Current' = Current /\ ToSend' = ToSend /\ Table(ToSend)' = Table(ToSend)
  <2>1. Current' = Current /\ ToSend' = ToSend
    BY <1>1 DEF Current, ToSend
  <2> QED
    BY <2>1 DEF Table
<1>3. FreshInv' /\ AnswerInv'
  BY <1>1 DEF SInv, FreshInv, AnswerInv
<1>4. CASE reply.status # 416
  <2>1. PlanInv
    BY <1>1, <1>4 DEF SInv, Sends
  <2>2. PlanInv'
    BY <1>1, <1>2, <2>1 DEF PlanInv, Own, Full
  <2> QED
    BY <1>3, <2>2 DEF SInv
<1>5. CASE reply.status = 416
  BY <1>1, <1>3, <1>5 DEF SInv, Sends
<1> QED
  BY <1>4, <1>5

\* A request that begins works with the object as it is.
LEMMA GetServes == ASSUME SInv, IInv', NEW limits \in Limits, Get(limits) PROVE SInv'
<1>1. /\ object \in ObjectType /\ object.version \in Nat
  BY Types, BoundAssumption DEF SInv, IInv, ObjectType
<1>2. /\ request'.phase = "found" /\ request'.length = object.length
      /\ request'.version = object.version /\ object' = object
      /\ reply'.status # 416 /\ reply'.content_length = object.length
  BY DEF Get
<1> QED
  BY <1>1, <1>2 DEF SInv, FreshInv, AnswerInv, Sends

\* Of every request: how far its answer is, measured by what was asked for.
THEOREM AnswerInvariance == Spec => []SInv
<1>1. Init => SInv
  <2> SUFFICES ASSUME Init PROVE SInv
    OBVIOUS
  <2>1. /\ request.phase = "idle" /\ request.length = object.length
        /\ request.version = 0 /\ object.version = 0 /\ IInv
    BY InitKeeps DEF Init
  <2> QED
    BY <2>1 DEF SInv, FreshInv, AnswerInv, Sends
<1>2. SInv /\ [Next]_vars => SInv'
  <2> SUFFICES ASSUME SInv, [Next]_vars PROVE SInv'
    OBVIOUS
  <2>1. IInv' /\ request \in RequestType
    BY StepKeeps, Types DEF SInv, IInv
  <2>2. ASSUME NEW limits \in Limits, Get(limits) PROVE SInv'
    BY <2>1, <2>2, GetServes
  <2>3. CASE Open
    <3>1. /\ request'.phase = "scan" /\ request.phase = "found"
          /\ request'.length = request.length /\ request'.version = request.version
          /\ UNCHANGED <<object, scan, wanted, reply>>
      BY <2>1, <2>3 DEF Open, RequestType
    <3> QED
      BY <2>1, <3>1, SilentServes
  <2>4. CASE OpenFails \/ SendFails \/ Answered
    <3>1. /\ request'.phase \in {"failed", "idle"}
          /\ request'.length = request.length /\ request'.version = request.version
          /\ UNCHANGED <<object, scan, wanted, reply>>
      BY <2>1, <2>4 DEF OpenFails, SendFails, Answered, Go, RequestType
    <3> QED
      BY <2>1, <3>1, SilentServes
  <2>5. CASE ReadHeader
    BY <2>1, <2>5, ReadHeaderServes
  <2>6. CASE Seek
    BY <2>1, <2>6, SeekServes
  <2>7. ASSUME NEW n \in 1 .. RxBuffer, Read(n) PROVE SInv'
    BY <2>1, <2>7, ReadServes
  <2>8. CASE EndRange
    BY <2>1, <2>8, EndRangeServes
  <2>9. CASE Close
    BY <2>1, <2>9, CloseServes
  <2>10. CASE Others
    BY <2>1, <2>10, OthersServe
  <2>11. CASE UNCHANGED vars
    BY <2>1, <2>11 DEF vars, SInv, FreshInv, AnswerInv, Sends, PlanInv, Table,
       ToSend, Current, Own, Full
  <2> QED
    BY <2>2, <2>3, <2>4, <2>5, <2>6, <2>7, <2>8, <2>9, <2>10, <2>11 DEF Next, Worker
<1> QED
  BY <1>1, <1>2, PTL DEF Spec

\* The bytes of a part that is complete and all of one version.
LEMMA PartBytes ==
  ASSUME NEW p \in Part, PartOK(p), Full(p), Own(p)
  PROVE  {p.data[k] : k \in 1 .. Len(p.data)} = {request.version} \X (p.start .. p.end)
<1>1. /\ p.start \in Nat /\ p.end \in Int /\ p.data \in Seq(Byte)
      /\ Len(p.data) = p.end - p.start + 1 /\ Len(p.data) \in Nat
  BY DEF Part, PartOK, Full
<1>2. \A k \in 1 .. Len(p.data) : /\ p.data[k] = <<p.data[k][1], p.data[k][2]>>
                                  /\ p.data[k][1] = request.version
                                  /\ p.data[k][2] = p.start + k - 1
  <2>1. \A k \in 1 .. Len(p.data) : p.data[k] \in Nat \X Nat
    BY <1>1 DEF Byte
  <2>2. \A b \in Nat \X Nat : b = <<b[1], b[2]>>
    OBVIOUS
  <2>3. \A k \in 1 .. Len(p.data) : p.data[k] = <<p.data[k][1], p.data[k][2]>>
    BY <2>1, <2>2, Zenon
  <2> QED
    BY <2>3, Zenon DEF PartOK, Own
<1>3. ASSUME NEW k \in 1 .. Len(p.data)
      PROVE  p.data[k] \in {request.version} \X (p.start .. p.end)
  <2>1. p.start + k - 1 \in p.start .. p.end
    BY <1>1
  <2>2. p.data[k] = <<request.version, p.start + k - 1>>
    BY <1>2, Zenon
  <2> QED
    BY <2>1, <2>2
<1>4. ASSUME NEW b \in {request.version} \X (p.start .. p.end)
      PROVE  \E k \in 1 .. Len(p.data) : p.data[k] = b
  <2>1. PICK o \in p.start .. p.end : b = <<request.version, o>>
    OBVIOUS
  <2> DEFINE k == o - p.start + 1
  <2>2. k \in 1 .. Len(p.data) /\ p.start + k - 1 = o
    BY <1>1
  <2>3. p.data[k] = b
    <3> HIDE DEF k
    <3> QED
      BY <1>2, <2>1, <2>2
  <2> QED
    BY <2>2, <2>3
<1> QED
  BY <1>3, <1>4

\* An answer that ends well has every byte that was asked for, as many as it
\* announces, and no other.
THEOREM ServesAsAsked == Spec => []ServedAsAsked
<1>1. SInv => ServedAsAsked
  <2> SUFFICES ASSUME SInv, request.phase = "done", reply.status # 416,
                      object.version = request.version
               PROVE  /\ Sent = {request.version} \X wanted
                      /\ reply.content_length # -1 =>
                           /\ Len(reply.parts) = 1
                           /\ Len(reply.parts[1].data) = reply.content_length
                      /\ ~ request.open
    BY DEF ServedAsAsked
  <2>1. /\ PlanInv /\ ~ request.open /\ reply.parts \in Seq(Part)
        /\ request.length \in Nat /\ Current = Len(reply.parts)
    BY Types, LengthNat DEF SInv, IInv, Sends, AnswerInv, Current, ReplyType
  <2>2. Current = Len(ToSend) /\ wanted = Table(ToSend)
    BY <2>1 DEF PlanInv
  <2> DEFINE Data(i) == {reply.parts[i].data[k] : k \in 1 .. Len(reply.parts[i].data)}
  <2>3. ASSUME NEW i \in 1 .. Current
        PROVE  /\ Data(i) = {request.version} \X Bytes(ToSend[i])
               /\ Full(reply.parts[i])
    <3>1. /\ reply.parts[i] \in Part /\ PartOK(reply.parts[i])
      BY <2>1 DEF SInv, IInv, PartsInv
    <3>2. /\ Own(reply.parts[i]) /\ Full(reply.parts[i])
          /\ reply.parts[i].start = ToSend[i].start
          /\ reply.parts[i].end = ToSend[i].end
      BY <2>1 DEF PlanInv
    <3> QED
      BY <3>1, <3>2, PartBytes DEF Bytes
  <2>4. Sent = UNION {Data(i) : i \in 1 .. Current}
    BY <2>1 DEF Sent
  <2>5. Table(ToSend) = UNION {Bytes(ToSend[i]) : i \in 1 .. Current}
    BY <2>2 DEF Table
  <2> HIDE DEF Data
  <2>6. Sent = {request.version} \X wanted
    BY <2>2, <2>3, <2>4, <2>5
  <2>7. ASSUME reply.content_length # -1
        PROVE  /\ Len(reply.parts) = 1
               /\ Len(reply.parts[1].data) = reply.content_length
    <3>1. ~ reply.ranged /\ reply.content_length = request.length
      BY <2>1, <2>7 DEF PlanInv
    <3>2. ToSend = <<[start |-> 0, end |-> request.length - 1]>>
      BY <3>1 DEF ToSend
    <3>3. Len(ToSend) = 1 /\ ToSend[1].start = 0 /\ ToSend[1].end = request.length - 1
      BY <3>2
    <3>4. /\ 1 \in 1 .. Current /\ reply.parts[1].start = 0
          /\ reply.parts[1].end = request.length - 1
      BY <2>1, <2>2, <3>3 DEF PlanInv
    <3>5. Len(reply.parts[1].data) = request.length - 1 - 0 + 1
      BY <2>3, <3>4 DEF Full
    <3> QED
      BY <2>1, <2>2, <3>1, <3>3, <3>5
  <2> QED
    BY <2>1, <2>6, <2>7
<1> QED
  BY <1>1, AnswerInvariance, PTL

-----------------------------------------------------------------------------
(* Sums.                                                                   *)

\* f[i] is the sum of the first i numbers of v.
Adds(f, v) ==
  /\ f \in [0 .. Len(v) -> Int]
  /\ f[0] = 0
  /\ \A i \in 1 .. Len(v) : f[i] = f[i - 1] + v[i]

\* What fails for some i in 0 .. n but not for 0 fails for one and not for the
\* one before it.
LEMMA FirstFailure ==
  ASSUME NEW n \in Nat, NEW T \in SUBSET (0 .. n), T # {}, 0 \notin T
  PROVE  \E i \in 1 .. n : i \in T /\ i - 1 \notin T
<1>1. T \in SUBSET Nat
  OBVIOUS
<1>2. PICK i \in T : \A m \in T : i <= m
  BY <1>1, Least!LeastOf
<1>3. i \in 1 .. n /\ ~ (i <= i - 1)
  OBVIOUS
<1> QED
  BY <1>2, <1>3

\* A sequence has running sums.
LEMMA SumsExist ==
  ASSUME NEW v \in Seq(Int)
  PROVE  \E f : Adds(f, v)
<1> DEFINE Up(k, f) == /\ f \in [0 .. k -> Int]
                       /\ f[0] = 0
                       /\ \A i \in 1 .. k : f[i] = f[i - 1] + v[i]
           T == {k \in 0 .. Len(v) : ~ \E f : Up(k, f)}
<1>1. Len(v) \in Nat /\ \A i \in 1 .. Len(v) : v[i] \in Int
  OBVIOUS
<1>2. 0 \notin T
  <2>1. Up(0, [i \in 0 .. 0 |-> 0])
    OBVIOUS
  <2> QED
    BY <2>1
<1>3. ASSUME NEW k \in 1 .. Len(v), k - 1 \notin T PROVE k \notin T
  <2>1. k - 1 \in 0 .. Len(v)
    BY <1>1
  <2>2. PICK f : Up(k - 1, f)
    BY <1>3, <2>1
  <2> DEFINE g == [i \in 0 .. k |-> IF i = k THEN f[k - 1] + v[k] ELSE f[i]]
  <2>3. \A i \in 0 .. k - 1 : f[i] \in Int
    BY <2>2
  <2>4. g \in [0 .. k -> Int]
    <3>1. ASSUME NEW i \in 0 .. k
          PROVE  (IF i = k THEN f[k - 1] + v[k] ELSE f[i]) \in Int
      BY <1>1, <2>3
    <3> QED
      BY <3>1
  <2>5. g[0] = 0
    BY <2>2
  <2>6. ASSUME NEW i \in 1 .. k PROVE g[i] = g[i - 1] + v[i]
    <3>1. CASE i = k
      BY <3>1
    <3>2. CASE i # k
      <4>1. i \in 1 .. k - 1 /\ g[i] = f[i] /\ g[i - 1] = f[i - 1]
        BY <3>2
      <4> QED
        BY <2>2, <4>1
    <3> QED
      BY <3>1, <3>2
  <2>7. Up(k, g)
    BY <2>4, <2>5, <2>6
  <2> QED
    BY <2>7
<1>4. T = {}
  <2> SUFFICES ASSUME T # {} PROVE FALSE
    OBVIOUS
  <2>1. T \in SUBSET (0 .. Len(v))
    OBVIOUS
  <2> HIDE DEF T
  <2> QED
    BY <1>1, <1>2, <1>3, <2>1, FirstFailure
<1>5. \E f : Up(Len(v), f)
  <2>1. Len(v) \in 0 .. Len(v)
    BY <1>1
  <2> QED
    BY <1>4, <2>1
<1> QED
  BY <1>5 DEF Adds

\* Two running sums of the same numbers are the same.
LEMMA SumsUnique ==
  ASSUME NEW v \in Seq(Int), NEW f, NEW g, Adds(f, v), Adds(g, v)
  PROVE  f[Len(v)] = g[Len(v)]
<1> DEFINE T == {i \in 0 .. Len(v) : f[i] # g[i]}
<1>1. Len(v) \in Nat
  OBVIOUS
<1>2. T \in SUBSET (0 .. Len(v)) /\ 0 \notin T
  BY DEF Adds
<1>3. ASSUME NEW i \in 1 .. Len(v), i - 1 \notin T PROVE i \notin T
  <2>1. i - 1 \in 0 .. Len(v)
    BY <1>1
  <2>2. f[i - 1] = g[i - 1]
    BY <1>3, <2>1
  <2> QED
    BY <2>2 DEF Adds
<1>4. Len(v) \in 0 .. Len(v)
  BY <1>1
<1>5. T = {}
  <2> HIDE DEF T
  <2> QED
    BY <1>1, <1>2, <1>3, FirstFailure
<1> QED
  BY <1>4, <1>5

\* Sum is where the running sums end.
LEMMA SumIs ==
  ASSUME NEW v \in Seq(Int), NEW f, Adds(f, v)
  PROVE  Sum(v) = f[Len(v)]
<1> DEFINE Step(h) == [i \in 0 .. Len(v) |-> IF i = 0 THEN 0 ELSE h[i - 1] + v[i]]
           g == CHOOSE h : h = Step(h)
<1>1. Sum(v) = g[Len(v)]
  BY DEF Sum
<1>2. f = Step(f)
  <2>1. \A i \in 0 .. Len(v) : f[i] = IF i = 0 THEN 0 ELSE f[i - 1] + v[i]
    BY DEF Adds
  <2>2. f = [i \in 0 .. Len(v) |-> f[i]]
    BY DEF Adds
  <2> QED
    BY <2>1, <2>2
<1>3. g = Step(g)
  <2> HIDE DEF Step
  <2> QED
    BY <1>2
<1> HIDE DEF g
<1>4. \A i \in 0 .. Len(v) : g[i] = IF i = 0 THEN 0 ELSE g[i - 1] + v[i]
  BY <1>3
<1> DEFINE T == {i \in 0 .. Len(v) : g[i] \notin Int}
<1>5. Len(v) \in Nat /\ \A i \in 1 .. Len(v) : v[i] \in Int
  OBVIOUS
<1>6. T = {}
  <2>1. T \in SUBSET (0 .. Len(v)) /\ 0 \notin T
    BY <1>4, <1>5
  <2>2. ASSUME NEW i \in 1 .. Len(v), i - 1 \notin T PROVE i \notin T
    <3>1. i - 1 \in 0 .. Len(v) /\ i \in 0 .. Len(v)
      BY <1>5
    <3>2. g[i - 1] \in Int
      BY <2>2, <3>1
    <3>3. g[i] = g[i - 1] + v[i]
      BY <1>4, <3>1
    <3> QED
      BY <1>5, <3>2, <3>3
  <2> HIDE DEF T
  <2> QED
    BY <1>5, <2>1, <2>2, FirstFailure
<1>7. Adds(g, v)
  <2>1. g \in [0 .. Len(v) -> Int]
    <3>1. \A i \in 0 .. Len(v) : g[i] \in Int
      BY <1>6
    <3> HIDE DEF Step
    <3>2. g = [i \in 0 .. Len(v) |-> g[i]]
      BY <1>3 DEF Step
    <3> QED
      BY <3>1, <3>2
  <2>2. g[0] = 0 /\ \A i \in 1 .. Len(v) : g[i] = g[i - 1] + v[i]
    BY <1>4, <1>5
  <2> QED
    BY <2>1, <2>2 DEF Adds
<1> QED
  BY <1>1, <1>7, SumsUnique

LEMMA SumEmpty == Sum(<<>>) = 0
<1> DEFINE f == [i \in 0 .. 0 |-> 0]
<1>1. <<>> \in Seq(Int) /\ Len(<<>>) = 0 /\ f[0] = 0
  OBVIOUS
<1>2. Adds(f, <<>>)
  BY DEF Adds
<1> QED
  BY <1>1, <1>2, SumIs

LEMMA SumAppend ==
  ASSUME NEW v \in Seq(Int), NEW x \in Int
  PROVE  Sum(v) \in Int /\ Sum(Append(v, x)) = Sum(v) + x
<1> DEFINE w == Append(v, x)
           n == Len(v)
<1>1. PICK f : Adds(f, w)
  <2>1. w \in Seq(Int)
    OBVIOUS
  <2> QED
    BY <2>1, SumsExist
<1>2. /\ w \in Seq(Int) /\ n \in Nat /\ Len(w) = n + 1 /\ w[n + 1] = x
      /\ \A i \in 1 .. n : w[i] = v[i]
  OBVIOUS
<1> DEFINE g == [i \in 0 .. n |-> f[i]]
<1> HIDE DEF w
<1>3. Adds(g, v)
  <2>1. g \in [0 .. n -> Int] /\ g[0] = 0
    BY <1>1, <1>2 DEF Adds
  <2>2. ASSUME NEW i \in 1 .. n PROVE g[i] = g[i - 1] + v[i]
    <3>1. i \in 1 .. Len(w) /\ i - 1 \in 0 .. n /\ i \in 0 .. n
      BY <1>2
    <3> QED
      BY <1>1, <1>2, <3>1 DEF Adds
  <2> QED
    BY <2>1, <2>2 DEF Adds
<1>4. Sum(v) = f[n] /\ Sum(w) = f[n + 1]
  <2>1. n \in 0 .. n
    BY <1>2
  <2>2. g[n] = f[n]
    BY <2>1
  <2> HIDE DEF g
  <2> QED
    BY <1>1, <1>2, <1>3, <2>2, SumIs
<1>5. f[n] \in Int /\ f[n + 1] = f[n] + x
  <2>1. n \in 0 .. Len(w) /\ n + 1 \in 1 .. Len(w) /\ n + 1 - 1 = n
    BY <1>2
  <2>2. f[n] \in Int
    BY <1>1, <2>1 DEF Adds
  <2>3. f[n + 1] = f[n + 1 - 1] + w[n + 1]
    BY <1>1, <2>1 DEF Adds
  <2> QED
    BY <1>2, <2>1, <2>2, <2>3
<1> QED
  BY <1>4, <1>5 DEF w

\* Fewer numbers, none of them larger, of a sequence without negative ones.
LEMMA SumBelow ==
  ASSUME NEW a \in Seq(Int), NEW b \in Seq(Int), Len(a) <= Len(b),
         \A i \in 1 .. Len(a) : a[i] <= b[i],
         \A i \in 1 .. Len(b) : 0 <= b[i]
  PROVE  Sum(a) <= Sum(b)
<1>1. Len(a) \in Nat /\ Len(b) \in Nat
  OBVIOUS
<1>2. PICK f : Adds(f, a)
  BY SumsExist
<1>3. PICK g : Adds(g, b)
  BY SumsExist
<1>4. \A i \in 0 .. Len(a) : f[i] \in Int
  BY <1>2 DEF Adds
<1>5. \A i \in 0 .. Len(b) : g[i] \in Int
  BY <1>3 DEF Adds
<1>6. \A i \in 0 .. Len(a) : f[i] <= g[i]
  <2> DEFINE T == {i \in 0 .. Len(a) : ~ (f[i] <= g[i])}
  <2>1. T \in SUBSET (0 .. Len(a)) /\ 0 \notin T
    BY <1>2, <1>3 DEF Adds
  <2>2. ASSUME NEW i \in 1 .. Len(a), i - 1 \notin T PROVE i \notin T
    <3>1. i - 1 \in 0 .. Len(a) /\ i - 1 \in 0 .. Len(b) /\ i \in 1 .. Len(b)
          /\ i \in 0 .. Len(a) /\ a[i] \in Int /\ b[i] \in Int
      BY <1>1
    <3>2. f[i - 1] <= g[i - 1]
      BY <2>2, <3>1
    <3>3. f[i] = f[i - 1] + a[i] /\ g[i] = g[i - 1] + b[i]
      BY <1>2, <1>3, <3>1 DEF Adds
    <3>4. f[i - 1] \in Int /\ g[i - 1] \in Int /\ a[i] <= b[i]
      BY <1>4, <1>5, <3>1
    <3>5. \A x, y, u, v \in Int : x <= y /\ u <= v => x + u <= y + v
      OBVIOUS
    <3>6. f[i - 1] + a[i] <= g[i - 1] + b[i]
      BY <3>1, <3>2, <3>4, <3>5
    <3> QED
      BY <3>3, <3>6
  <2>3. T = {}
    <3> HIDE DEF T
    <3> QED
      BY <1>1, <2>1, <2>2, FirstFailure
  <2> QED
    BY <2>3
<1>7. \A i \in 0 .. Len(b) : Len(a) <= i => g[Len(a)] <= g[i]
  <2> DEFINE T == {i \in 0 .. Len(b) : Len(a) <= i /\ ~ (g[Len(a)] <= g[i])}
  <2>0. Len(a) \in 0 .. Len(b)
    BY <1>1
  <2>1. T \in SUBSET (0 .. Len(b)) /\ 0 \notin T
    BY <1>1, <1>5, <2>0
  <2>2. ASSUME NEW i \in 1 .. Len(b), i - 1 \notin T PROVE i \notin T
    <3>1. CASE Len(a) <= i - 1
      <4>1. i - 1 \in 0 .. Len(b) /\ i \in 0 .. Len(b) /\ b[i] \in Int /\ 0 <= b[i]
        BY <1>1
      <4>2. g[Len(a)] <= g[i - 1]
        BY <2>2, <3>1, <4>1
      <4>3. g[i] = g[i - 1] + b[i]
        BY <1>3 DEF Adds
      <4>4. g[Len(a)] \in Int /\ g[i - 1] \in Int
        BY <1>5, <2>0, <4>1
      <4>5. g[Len(a)] <= g[i]
        BY <4>1, <4>2, <4>3, <4>4
      <4> QED
        BY <4>5
    <3>2. CASE ~ (Len(a) <= i - 1)
      <4>1. Len(a) <= i => i = Len(a)
        BY <1>1, <3>2
      <4>2. Len(a) <= i => g[Len(a)] <= g[i]
        BY <1>5, <2>0, <4>1
      <4> QED
        BY <4>2
    <3> QED
      BY <3>1, <3>2
  <2>3. T = {}
    <3> HIDE DEF T
    <3> QED
      BY <1>1, <2>1, <2>2, FirstFailure
  <2> QED
    BY <2>3
<1>8. Sum(a) = f[Len(a)] /\ Sum(b) = g[Len(b)]
  BY <1>2, <1>3, SumIs
<1>9. /\ Len(a) \in 0 .. Len(a) /\ Len(a) \in 0 .. Len(b) /\ Len(b) \in 0 .. Len(b)
      /\ f[Len(a)] <= g[Len(a)] /\ g[Len(a)] <= g[Len(b)]
  BY <1>1, <1>6, <1>7
<1>10. f[Len(a)] \in Int /\ g[Len(a)] \in Int /\ g[Len(b)] \in Int
  BY <1>4, <1>5, <1>9
<1> QED
  BY <1>8, <1>9, <1>10

-----------------------------------------------------------------------------
(* No more than there is.                                                  *)

\* How long the ranges of a table are.
Sizes(x) == [i \in 1 .. Len(x) |-> x[i].end - x[i].start + 1]

\* The scan keeps the sum of the ranges in its table.
Counted(s) == s.sum_lengths = Sum(Sizes(s.indexes))

\* The parts that were sent are those of the table, in order.
Follows(parts, x) ==
  /\ Len(parts) <= Len(x)
  /\ \A i \in 1 .. Len(parts) : /\ parts[i].start = x[i].start
                                /\ parts[i].end = x[i].end

SumInv ==
  /\ request.phase = "scan" => Counted(scan)
  /\ reply.ranged => Sum(Sizes(scan.indexes)) <= request.length
  /\ Follows(reply.parts, ToSend)

LEMMA SizesInt ==
  ASSUME NEW x \in Seq(Range)
  PROVE  Sizes(x) \in Seq(Int) /\ Len(Sizes(x)) = Len(x)
<1>1. \A i \in 1 .. Len(x) : x[i].end - x[i].start + 1 \in Int
  <2>1. \A i \in 1 .. Len(x) : x[i] \in Range
    OBVIOUS
  <2> QED
    BY <2>1 DEF Range
<1> QED
  BY <1>1 DEF Sizes

LEMMA SizesAppend ==
  ASSUME NEW x \in Seq(Range), NEW r \in Range
  PROVE  Sizes(Append(x, r)) = Append(Sizes(x), r.end - r.start + 1)
<1> DEFINE y == Append(x, r)
           size == r.end - r.start + 1
           z == Append(Sizes(x), size)
<1>1. /\ y \in Seq(Range) /\ Len(y) = Len(x) + 1 /\ y[Len(x) + 1] = r
      /\ \A i \in 1 .. Len(x) : y[i] = x[i]
      /\ Len(x) \in Nat
  OBVIOUS
<1>2. /\ Sizes(x) \in Seq(Int) /\ Len(Sizes(x)) = Len(x)
      /\ Sizes(y) \in Seq(Int) /\ Len(Sizes(y)) = Len(x) + 1
  BY <1>1, SizesInt
<1>3. size \in Int
  BY DEF Range
<1> HIDE DEF y, size
<1>4. /\ z \in Seq(Int) /\ Len(z) = Len(x) + 1 /\ z[Len(x) + 1] = size
      /\ \A i \in 1 .. Len(x) : z[i] = Sizes(x)[i]
  BY <1>1, <1>2, <1>3
<1> HIDE DEF z
<1>5. ASSUME NEW i \in 1 .. Len(x) + 1 PROVE Sizes(y)[i] = z[i]
  <2>1. CASE i = Len(x) + 1
    <3>1. Sizes(y)[i] = y[i].end - y[i].start + 1
      BY <1>1 DEF Sizes
    <3> QED
      BY <1>1, <1>4, <2>1, <3>1 DEF size
  <2>2. CASE i # Len(x) + 1
    <3>1. i \in 1 .. Len(x)
      BY <1>1, <2>2
    <3>2. Sizes(y)[i] = y[i].end - y[i].start + 1
      BY <1>1 DEF Sizes
    <3>3. Sizes(x)[i] = x[i].end - x[i].start + 1
      BY <3>1 DEF Sizes
    <3> QED
      BY <1>1, <1>4, <3>1, <3>2, <3>3
  <2> QED
    BY <2>1, <2>2
<1>6. Sizes(y) = z
  BY <1>2, <1>4, <1>5
<1> QED
  BY <1>6 DEF y, z, size

\* A range that is put into the table is counted.
LEMMA PushCounts ==
  ASSUME NEW s \in Scan, Counted(s)
  PROVE  Counted(Push(s))
<1> DEFINE r == [start |-> s.ostart, end |-> s.oend]
           size == s.oend - s.ostart + 1
<1>1. /\ s.ostart \in Int /\ s.oend \in Int /\ s.indexes \in Seq(Range)
      /\ s.sum_lengths \in Int
  BY DEF Scan
<1>2. r \in Range /\ r.end - r.start + 1 = size /\ size \in Int
  BY <1>1 DEF Range
<1>3. /\ Push(s).indexes = Append(s.indexes, r)
      /\ Push(s).sum_lengths = s.sum_lengths + size
  BY DEF Push, Scan
<1> HIDE DEF r, size
<1>4. Sizes(Append(s.indexes, r)) = Append(Sizes(s.indexes), size)
  BY <1>1, <1>2, SizesAppend
<1>5. Sum(Append(Sizes(s.indexes), size)) = Sum(Sizes(s.indexes)) + size
  BY <1>1, <1>2, SizesInt, SumAppend
<1> QED
  BY <1>3, <1>4, <1>5 DEF Counted

LEMMA ClosedCounts ==
  ASSUME NEW s \in Scan, Counted(s)
  PROVE  Counted(Closed(s))
  BY PushCounts DEF Closed

LEMMA ClosedIsScan ==
  ASSUME NEW s \in Scan PROVE Closed(s) \in Scan
<1> DEFINE r == [start |-> s.ostart, end |-> s.oend]
<1>1. r \in Range /\ Append(s.indexes, r) \in Seq(Range)
  BY DEF Scan, Range
<1>2. s.sum_lengths + (s.oend - s.ostart + 1) \in Int
  BY DEF Scan
<1> HIDE DEF r
<1>3. Push(s) \in Scan
  BY <1>1, <1>2 DEF Push, Scan, r
<1> QED
  BY <1>3 DEF Closed

\* An empty table.
LEMMA EmptyCounts ==
  ASSUME NEW s, s.indexes = <<>>, s.sum_lengths = 0
  PROVE  Counted(s)
<1>1. Sizes(<<>>) = <<>>
  BY DEF Sizes
<1> QED
  BY <1>1, SumEmpty DEF Counted

\* A range that is read changes the table only by a push.
LEMMA TakenCounts ==
  ASSUME NEW s \in Scan, Counted(s), NEW r \in Range
  PROVE  LET s2 == IF ~ s.in_merge
                   THEN [s EXCEPT !.in_merge = TRUE, !.ostart = r.start, !.oend = r.end]
                   ELSE IF Touches(s, r) THEN Joined(s, r)
                   ELSE [Push(s) EXCEPT !.ostart = r.start, !.oend = r.end]
         IN  Counted(s2)
<1>1. LET s2 == [s EXCEPT !.in_merge = TRUE, !.ostart = r.start, !.oend = r.end]
      IN  s2.indexes = s.indexes /\ s2.sum_lengths = s.sum_lengths
  BY DEF Scan
<1>2. Joined(s, r).indexes = s.indexes /\ Joined(s, r).sum_lengths = s.sum_lengths
  BY DEF Joined, Scan
<1>3. LET s2 == [Push(s) EXCEPT !.ostart = r.start, !.oend = r.end]
      IN  s2.indexes = Push(s).indexes /\ s2.sum_lengths = Push(s).sum_lengths
  BY DEF Push, Scan
<1>4. Counted(Push(s))
  BY PushCounts
<1> QED
  BY <1>1, <1>2, <1>3, <1>4 DEF Counted

\* While the header is read nothing is sent.
LEMMA NothingSent ==
  ASSUME NEW x, Len(x) \in Nat PROVE Follows(<<>>, x)
<1>1. Len(<<>>) = 0 /\ 1 .. 0 = {}
  OBVIOUS
<1> QED
  BY <1>1 DEF Follows

LEMMA ToSendLength == ASSUME TypeOK PROVE Len(ToSend) \in Nat
  BY Types DEF ToSend, Scan

\* A step that leaves the header and the answer alone.
LEMMA SilentCounts ==
  ASSUME SumInv, HeaderInv, UNCHANGED <<scan, reply>>, request'.length = request.length,
         \/ request'.phase = request.phase
         \/ request'.phase # "scan"
         \/ request.phase = "found"
  PROVE  SumInv'
<1>1. ToSend' = ToSend
  BY DEF ToSend
<1>2. Follows(reply.parts, ToSend)'
  BY <1>1 DEF SumInv, Follows
<1>3. Counted(NewScan)
  BY EmptyCounts DEF NewScan
<1>4. request'.phase = "scan" => Counted(scan)
  BY <1>3 DEF SumInv, HeaderInv
<1>5. Counted(scan)' = Counted(scan) /\ Sizes(scan.indexes)' = Sizes(scan.indexes)
  BY DEF Counted, Sum, Sizes
<1> QED
  BY <1>2, <1>4, <1>5 DEF SumInv, Sum

\* A table that is sent is no longer than the object (TooMuch).
LEMMA DecideCounts ==
  ASSUME IInv, IInv', NEW s \in Scan, Counted(s), NEW asked,
         request.phase = "scan", Decide(s, asked)
  PROVE  SumInv'
<1>1. /\ request \in RequestType /\ reply \in ReplyType /\ request.length \in Nat
      /\ reply.parts = <<>> /\ ~ reply.ranged
  BY Types, LengthNat DEF IInv, HeaderInv
<1>2. Len(ToSend') \in Nat
  <2>1. scan' \in Scan
    BY TypesAfter DEF IInv
  <2> QED
    BY <2>1 DEF ToSend, Scan
<1>3. CASE reply' = [reply EXCEPT !.status = 416] /\ Go("close")
  <2>1. request'.phase = "close" /\ reply'.parts = <<>> /\ ~ reply'.ranged
    BY <1>1, <1>3 DEF Go, RequestType, ReplyType
  <2>2. Follows(<<>>, ToSend')
    BY <1>2, NothingSent
  <2> QED
    BY <2>1, <2>2 DEF SumInv, Follows
<1>4. CASE ~ (reply' = [reply EXCEPT !.status = 416] /\ Go("close"))
  <2> DEFINE ranged == ~ TooMuch(s) /\ s.indexes # <<>> /\ ~ OverLimit(s)
             status == IF TooMuch(s) THEN reply.status ELSE 206
             length == IF ranged THEN -1 ELSE reply.content_length
  <2>1. /\ reply' = ReplyOf(reply, status, ranged, length)
        /\ scan' = IF ranged THEN [NewScan EXCEPT !.indexes = s.indexes] ELSE NewScan
        /\ Go("seek")
    BY <1>4 DEF Decide, ReplyOf
  <2>2. ranged => s.sum_lengths <= request.length
    BY <1>1 DEF TooMuch, Scan
  <2> HIDE DEF ranged, status, length
  <2>3. reply'.ranged = ranged /\ reply'.parts = <<>>
    BY <1>1, <2>1 DEF ReplyOf, ReplyType
  <2>4. request'.phase = "seek" /\ request'.length = request.length
    BY <1>1, <2>1 DEF Go, RequestType
  <2>5. Follows(<<>>, ToSend')
    BY <1>2, NothingSent
  <2>6. ASSUME ranged PROVE Sum(Sizes(scan'.indexes)) <= request'.length
    <3>1. scan'.indexes = s.indexes
      BY <2>1, <2>6 DEF NewScan
    <3> QED
      BY <2>2, <2>4, <2>6, <3>1 DEF Counted
  <2> QED
    BY <2>3, <2>4, <2>5, <2>6 DEF SumInv, Follows, Sum, Sizes
<1> QED
  BY <1>3, <1>4

\* A range of the header counts once it is in the table.
LEMMA OneRangeCounts ==
  ASSUME IInv, SumInv, NEW start \in Int, NEW end \in Int, start <= end,
         start >= 0 \/ end = request.length - 1, OneRange(start, end)
  PROVE  SumInv'
<1>1. /\ request \in RequestType /\ request.length \in Nat /\ scan \in Scan
      /\ request.phase = "scan" /\ Counted(scan) /\ reply' = reply
      /\ ~ reply.ranged /\ reply.parts = <<>>
  BY LengthNat, Types
     DEF IInv, HeaderInv, SumInv, OneRange, Unsatisfiable, Satisfiable, Reading
<1>2. Counted(scan')
  <2>1. CASE Unsatisfiable(start)
    <3>1. scan' = [scan EXCEPT !.unsatisfiable = TRUE]
      BY <2>1 DEF Unsatisfiable
    <3>2. scan'.indexes = scan.indexes /\ scan'.sum_lengths = scan.sum_lengths
      BY <1>1, <3>1 DEF Scan
    <3> QED
      BY <1>1, <3>2 DEF Counted
  <2>2. CASE Satisfiable(start, end)
    <3> DEFINE r == Clipped(start, end)
    <3>1. First(start) < request.length
      BY <2>2 DEF Satisfiable
    <3>2. r \in Range
      BY <1>1, <3>1, ClippedFits
    <3>3. scan' = IF ~ scan.in_merge
                  THEN [scan EXCEPT !.in_merge = TRUE, !.ostart = r.start, !.oend = r.end]
                  ELSE IF Touches(scan, r) THEN Joined(scan, r)
                  ELSE [Push(scan) EXCEPT !.ostart = r.start, !.oend = r.end]
      BY <2>2 DEF Satisfiable
    <3> HIDE DEF r
    <3> QED
      BY <1>1, <3>2, <3>3, TakenCounts
  <2> QED
    BY <2>1, <2>2 DEF OneRange
<1>3. request'.length = request.length /\ ToSend' = ToSend
  <2>1. request'.length = request.length
    BY <1>1 DEF OneRange, Unsatisfiable, Satisfiable, Count, RequestType
  <2> QED
    BY <1>1, <2>1 DEF ToSend
<1>4. Follows(reply.parts, ToSend)'
  BY <1>1, <1>3 DEF SumInv, Follows
<1> QED
  BY <1>1, <1>2, <1>4 DEF SumInv, Counted, Sum, Sizes

LEMMA ReadHeaderCounts == ASSUME IInv, SumInv, IInv', ReadHeader PROVE SumInv'
<1>1. /\ request.length \in Nat /\ scan \in Scan /\ request \in RequestType
  BY LengthNat, Types DEF IInv
<1>2. ASSUME NEW a \in Number, NEW b \in Number, FromTo(a, b) PROVE SumInv'
  <2>1. a \in Int /\ b \in Int /\ a >= 0
    BY LengthAssumption
  <2> QED
    BY <1>2, <2>1, OneRangeCounts DEF FromTo
<1>3. ASSUME NEW n \in Number, From(n) PROVE SumInv'
  <2>1. n \in Int /\ n > 0
    BY <1>3, LengthAssumption DEF From
  <2>2. CASE n <= request.length - 1
    BY <1>1, <1>3, <2>1, <2>2, OneRangeCounts DEF From
  <2>3. CASE n > request.length - 1
    <3>1. OneRange(n, n)
      BY <1>1, <1>3, <2>1, <2>3 DEF From, First, OneRange, Satisfiable, Unsatisfiable
    <3> QED
      BY <2>1, <3>1, OneRangeCounts
  <2> QED
    BY <1>1, <2>1, <2>2, <2>3
<1>4. ASSUME NEW n \in Number, Suffix(n) PROVE SumInv'
  <2>1. n \in Int /\ n > 0
    BY <1>4, LengthAssumption DEF Suffix
  <2>2. /\ request.length - n \in Int /\ request.length - 1 \in Int
        /\ request.length - n <= request.length - 1
    BY <1>1, <2>1
  <2> QED
    BY <1>4, <2>2, OneRangeCounts DEF Suffix
<1>5. CASE FromZero
  <2> DEFINE s0 == [scan EXCEPT !.indexes = <<>>, !.sum_lengths = 0,
                                !.in_merge = TRUE, !.ostart = 0,
                                !.oend = request.length - 1]
  <2>1. s0 \in Scan /\ s0.indexes = <<>> /\ s0.in_merge
    <3>1. request.length - 1 \in Int /\ <<>> \in Seq(Range)
      BY <1>1, TableEmpty
    <3>2. s0 = Opened(Retabled(scan, <<>>, 0), 0, request.length - 1)
      BY DEF Opened, Retabled
    <3> HIDE DEF s0
    <3> QED
      BY <1>1, <3>1, <3>2, ScanWith
  <2>2. s0.sum_lengths = 0
    BY <1>1 DEF Scan
  <2>3. Decide(Closed(s0), Everything) /\ request.phase = "scan"
    BY <1>5 DEF FromZero, Reading
  <2> HIDE DEF s0
  <2>4. Counted(Closed(s0))
    BY <2>1, <2>2, EmptyCounts, ClosedCounts
  <2>5. Closed(s0) \in Scan
    BY <1>1, <2>1, ClosedIsScan
  <2> QED
    BY <2>3, <2>4, <2>5, DecideCounts
<1>6. CASE EndOfHeader
  <2>1. Decide(Closed(scan), wanted) /\ request.phase = "scan"
    BY <1>6 DEF EndOfHeader
  <2>2. Counted(Closed(scan)) /\ Closed(scan) \in Scan
    BY <1>1, <2>1, ClosedCounts, ClosedIsScan DEF SumInv
  <2> QED
    BY <2>1, <2>2, DecideCounts
<1>7. CASE Ignored
  <2>1. request'.phase = "seek" /\ scan' = NewScan /\ reply' = reply
        /\ request.phase = "scan"
    BY <1>1, <1>7 DEF Ignored, Go, RequestType
  <2>2. ~ reply'.ranged /\ reply'.parts = <<>>
    BY <2>1 DEF IInv, HeaderInv
  <2>3. Len(ToSend') = 1
    BY <2>2 DEF ToSend
  <2>4. Follows(<<>>, ToSend')
    BY <2>3, NothingSent
  <2> QED
    BY <2>1, <2>2, <2>4 DEF SumInv, Follows
<1> QED
  BY <1>2, <1>3, <1>4, <1>5, <1>6, <1>7 DEF ReadHeader

\* A new request has sent nothing.
LEMMA GetCounts == ASSUME IInv', NEW limits \in Limits, Get(limits) PROVE SumInv'
<1>1. request'.phase = "found" /\ reply'.parts = <<>> /\ ~ reply'.ranged
  BY DEF Get
<1>2. Len(ToSend') = 1
  BY <1>1 DEF ToSend
<1>3. Follows(<<>>, ToSend')
  BY <1>2, NothingSent
<1> QED
  BY <1>1, <1>3 DEF SumInv, Follows

\* The part that begins is the next range of the table.
LEMMA SeekCounts == ASSUME IInv, SumInv, Seek PROVE SumInv'
<1> DEFINE r == ToSend[Current + 1]
           part == [start |-> r.start, end |-> r.end, data |-> <<>>]
<1>1. /\ request \in RequestType /\ reply \in ReplyType /\ reply.parts \in Seq(Part)
      /\ request.phase = "seek" /\ Current \in Nat /\ Current < Len(ToSend)
      /\ Len(ToSend) \in Nat
  BY Types, ToSendLength DEF IInv, PartsInv, Seek, ReplyType, Current
<1>2. request'.phase = "read" /\ request'.length = request.length
  BY <1>1 DEF Seek, Go, RequestType
<1>3. reply' = [reply EXCEPT !.parts = Append(reply.parts, part)] /\ scan' = scan
  BY DEF Seek
<1>4. part.start = r.start /\ part.end = r.end
  OBVIOUS
<1> HIDE DEF part
<1>5. reply'.parts = Append(reply.parts, part) /\ reply'.ranged = reply.ranged
  BY <1>1, <1>3 DEF ReplyType
<1>6. /\ Len(reply'.parts) = Current + 1 /\ reply'.parts[Current + 1] = part
      /\ \A i \in 1 .. Current : reply'.parts[i] = reply.parts[i]
  BY <1>1, <1>5 DEF Current
<1>7. ToSend' = ToSend
  BY <1>2, <1>3, <1>5 DEF ToSend
<1>8. Follows(reply'.parts, ToSend)
  <2>1. Len(reply'.parts) <= Len(ToSend)
    BY <1>1, <1>6
  <2>2. ASSUME NEW i \in 1 .. Len(reply'.parts)
        PROVE  /\ reply'.parts[i].start = ToSend[i].start
               /\ reply'.parts[i].end = ToSend[i].end
    <3>1. CASE i \in 1 .. Current
      BY <1>6, <3>1 DEF SumInv, Follows, Current
    <3>2. CASE i = Current + 1
      BY <1>4, <1>6, <3>2
    <3> QED
      BY <1>1, <1>6, <3>1, <3>2
  <2> QED
    BY <2>1, <2>2 DEF Follows
<1>9. reply'.ranged => Sum(Sizes(scan'.indexes)) <= request'.length
  BY <1>2, <1>3, <1>5 DEF SumInv
<1> QED
  BY <1>2, <1>7, <1>8, <1>9 DEF SumInv

\* Reading does not change which range a part is of.
LEMMA ReadCounts == ASSUME IInv, SumInv, NEW n \in 1 .. RxBuffer, Read(n) PROVE SumInv'
<1> DEFINE more == [i \in 1 .. n |-> <<object.version, Offset + i - 1>>]
           q == [Sending EXCEPT !.data = Sending.data \o more]
<1>1. /\ reply \in ReplyType /\ reply.parts \in Seq(Part)
      /\ request.phase = "read" /\ Current \in 1 .. Len(reply.parts)
  BY Types DEF IInv, PartsInv, Read, ReplyType, Current
<1>2. Sending \in Part
  BY <1>1 DEF Sending
<1>3. reply' = [reply EXCEPT !.parts = [reply.parts EXCEPT ![Current] = q]]
  <2>1. reply' = [reply EXCEPT !.parts[Current].data = @ \o more]
    BY DEF Read
  <2> HIDE DEF more
  <2> QED
    BY <1>1, <2>1 DEF Sending
<1>4. UNCHANGED <<request, scan>>
  BY DEF Read
<1> HIDE DEF more
<1>5. q.start = Sending.start /\ q.end = Sending.end
  BY <1>2 DEF Part
<1> HIDE DEF q
<1>6. /\ reply'.ranged = reply.ranged /\ Len(reply'.parts) = Len(reply.parts)
      /\ \A i \in 1 .. Len(reply.parts) :
           reply'.parts[i] = IF i = Current THEN q ELSE reply.parts[i]
  BY <1>1, <1>3 DEF ReplyType
<1>7. ToSend' = ToSend
  BY <1>4, <1>6 DEF ToSend
<1>8. \A i \in 1 .. Len(reply.parts) : /\ reply'.parts[i].start = reply.parts[i].start
                                       /\ reply'.parts[i].end = reply.parts[i].end
  BY <1>1, <1>5, <1>6 DEF Sending
<1>9. Follows(reply'.parts, ToSend)
  BY <1>6, <1>8 DEF SumInv, Follows
<1>10. reply'.ranged => Sum(Sizes(scan'.indexes)) <= request'.length
  BY <1>4, <1>6 DEF SumInv
<1> QED
  BY <1>1, <1>4, <1>7, <1>9, <1>10 DEF SumInv

\* The inductive invariant of the sums.
THEOREM SumInvariance == Spec => [](IInv /\ SumInv)
<1>1. Init => IInv /\ SumInv
  <2> SUFFICES ASSUME Init PROVE IInv /\ SumInv
    OBVIOUS
  <2>1. request.phase = "idle" /\ ~ reply.ranged /\ reply.parts = <<>> /\ IInv
    BY InitKeeps DEF Init
  <2>2. Len(ToSend) = 1
    BY <2>1 DEF ToSend
  <2> QED
    BY <2>1, <2>2, NothingSent DEF SumInv
<1>2. IInv /\ SumInv /\ [Next]_vars => (IInv /\ SumInv)'
  <2> SUFFICES ASSUME IInv, SumInv, [Next]_vars PROVE IInv' /\ SumInv'
    OBVIOUS
  <2>1. IInv' /\ request \in RequestType /\ HeaderInv
    BY StepKeeps, Types DEF IInv
  <2>2. ASSUME NEW limits \in Limits, Get(limits) PROVE SumInv'
    BY <2>1, <2>2, GetCounts
  <2>3. CASE Open \/ OpenFails \/ SendFails \/ EndRange \/ Close \/ Answered
    <3>1. /\ request'.length = request.length /\ UNCHANGED <<scan, reply>>
          /\ request'.phase # "scan" \/ request.phase = "found"
      BY <2>1, <2>3 DEF Open, OpenFails, SendFails, EndRange, Close, Answered, Go, RequestType
    <3> QED
      BY <2>1, <3>1, SilentCounts
  <2>4. CASE ReadHeader
    BY <2>1, <2>4, ReadHeaderCounts
  <2>5. CASE Seek
    BY <2>1, <2>5, SeekCounts
  <2>6. ASSUME NEW n \in 1 .. RxBuffer, Read(n) PROVE SumInv'
    BY <2>6, ReadCounts
  <2>7. CASE Others \/ UNCHANGED vars
    <3>1. UNCHANGED <<request, scan, reply>>
      BY <2>7 DEF Others, Replace, Remove, vars
    <3> QED
      BY <2>1, <3>1, SilentCounts
  <2> QED
    BY <2>1, <2>2, <2>3, <2>4, <2>5, <2>6, <2>7 DEF Next, Worker
<1> QED
  BY <1>1, <1>2, PTL DEF Spec

\* An answer is never longer than the object, whatever ranges its header has:
\* each part is no longer than its range (SentInPlace), and the ranges are
\* together no longer than the object (the check on sum_lengths).
THEOREM SendsNoMore == Spec => []NoMoreThanThere
<1>1. IInv /\ SumInv => NoMoreThanThere
  <2> SUFFICES ASSUME IInv, SumInv PROVE NoMoreThanThere
    OBVIOUS
  <2> DEFINE sent == [i \in 1 .. Len(reply.parts) |-> Len(reply.parts[i].data)]
  <2>1. /\ request.length \in Nat /\ reply.parts \in Seq(Part)
        /\ scan \in Scan /\ Len(ToSend) \in Nat
    BY LengthNat, ToSendLength, Types DEF IInv, ReplyType
  <2>2. sent \in Seq(Int) /\ Len(sent) = Len(reply.parts)
    <3>1. \A i \in 1 .. Len(reply.parts) : Len(reply.parts[i].data) \in Int
      <4>1. \A i \in 1 .. Len(reply.parts) : reply.parts[i].data \in Seq(Byte)
        <5>1. \A i \in 1 .. Len(reply.parts) : reply.parts[i] \in Part
          BY <2>1
        <5> QED
          BY <5>1 DEF Part
      <4> QED
        BY <4>1
    <3> QED
      BY <2>1, <3>1
  <2>3. CASE Len(reply.parts) = 0
    <3>1. sent = <<>>
      BY <2>3
    <3> HIDE DEF sent
    <3>2. Sum(sent) = 0
      BY <3>1, SumEmpty
    <3> QED
      BY <2>1, <3>2 DEF NoMoreThanThere, sent
  <2>4. CASE Len(reply.parts) > 0
    <3>1. Len(ToSend) > 0
      BY <2>1, <2>4 DEF SumInv, Follows
    <3>2. /\ ToSend \in Seq(Range)
          /\ \A i \in 1 .. Len(ToSend) :
               InObject(request.length, ToSend[i].start, ToSend[i].end)
      BY <2>1, <3>1, ToSendFits
    <3>3. Sizes(ToSend) \in Seq(Int) /\ Len(Sizes(ToSend)) = Len(ToSend)
      BY <3>2, SizesInt
    <3>4. ASSUME NEW i \in 1 .. Len(ToSend) PROVE 0 <= Sizes(ToSend)[i]
      <4>1. ToSend[i] \in Range /\ InObject(request.length, ToSend[i].start, ToSend[i].end)
        BY <3>2
      <4>2. Sizes(ToSend)[i] = ToSend[i].end - ToSend[i].start + 1
        BY DEF Sizes
      <4> QED
        BY <4>1, <4>2 DEF InObject, Range
    <3>5. ASSUME NEW i \in 1 .. Len(reply.parts) PROVE sent[i] <= Sizes(ToSend)[i]
      <4>1. PartOK(reply.parts[i])
        BY DEF IInv, PartsInv
      <4>2. /\ i \in 1 .. Len(ToSend) /\ reply.parts[i].start = ToSend[i].start
            /\ reply.parts[i].end = ToSend[i].end
        BY <2>1 DEF SumInv, Follows
      <4> QED
        BY <4>1, <4>2 DEF PartOK, Sizes
    <3>6. Sum(Sizes(ToSend)) <= request.length
      <4>1. CASE reply.ranged
        BY <4>1 DEF SumInv, ToSend
      <4>2. CASE ~ reply.ranged
        <5> DEFINE r == [start |-> 0, end |-> request.length - 1]
        <5>1. r \in Range /\ r.end - r.start + 1 = request.length
          BY <2>1 DEF Range
        <5>2. ToSend = <<r>>
          BY <4>2 DEF ToSend
        <5> HIDE DEF r
        <5>3. ToSend = Append(<<>>, r) /\ <<>> \in Seq(Range) /\ <<>> \in Seq(Int)
          BY <5>2
        <5>4. Sizes(ToSend) = Append(Sizes(<<>>), request.length) /\ Sizes(<<>>) = <<>>
          <6>1. Sizes(<<>>) = <<>>
            BY DEF Sizes
          <6>2. Sizes(Append(<<>>, r)) = Append(Sizes(<<>>), r.end - r.start + 1)
            BY <5>1, <5>3, SizesAppend
          <6> QED
            BY <5>1, <5>3, <6>1, <6>2
        <5>5. request.length \in Int /\ Sum(<<>>) = 0
          BY <2>1, SumEmpty
        <5>6. Sum(Append(<<>>, request.length)) = Sum(<<>>) + request.length
          BY <5>3, <5>5, SumAppend
        <5>7. Sum(Sizes(ToSend)) = 0 + request.length
          BY <5>4, <5>5, <5>6
        <5> QED
          BY <2>1, <5>7
      <4> QED
        BY <4>1, <4>2
    <3> HIDE DEF sent
    <3>7. Sum(sent) <= Sum(Sizes(ToSend))
      <4>1. Len(sent) <= Len(Sizes(ToSend))
        BY <2>2, <3>3 DEF SumInv, Follows
      <4>2. \A i \in 1 .. Len(sent) : sent[i] <= Sizes(ToSend)[i]
        BY <2>2, <3>5
      <4>3. \A i \in 1 .. Len(Sizes(ToSend)) : 0 <= Sizes(ToSend)[i]
        BY <3>3, <3>4
      <4> QED
        BY <2>2, <3>3, <4>1, <4>2, <4>3, SumBelow
    <3>8. Sum(sent) \in Int /\ Sum(Sizes(ToSend)) \in Int
      BY <2>2, <3>3, SumAppend
    <3> QED
      BY <2>1, <3>6, <3>7, <3>8 DEF NoMoreThanThere, sent
  <2> QED
    BY <2>1, <2>3, <2>4
<1> QED
  BY <1>1, SumInvariance, PTL

=============================================================================
