----------------------------- MODULE DavDownload -----------------------------
(***************************************************************************)
(* Downloads: a GET of a data object, with or without a Range header       *)
(* (repo.c, deliver_file; byterange.c).                                    *)
(*                                                                         *)
(* The length of the object is the one that get_resource found; the bytes  *)
(* are read later, and other clients may replace or remove the object in   *)
(* between.  The Range header is read one range at a time.                 *)
(*                                                                         *)
(* External: the iRODS calls, which may fail, and rcDataObjRead, which may *)
(* return fewer bytes than asked for and returns none at the end.          *)
(***************************************************************************)
EXTENDS Integers, Sequences

CONSTANTS Lengths,     \* the lengths an object may have
          Number,      \* the numbers in a Range header
          MaxSpecs,    \* bound: the ranges in a header
          RxBuffer,    \* rods_rx_buffer_size
          Limits,      \* the limits a server may be configured with
          MaxVersions  \* bound: how often the object is replaced

Unlimited == -1

ASSUME LengthAssumption == Lengths \subseteq Nat /\ Number \subseteq Nat

ASSUME BufferAssumption == RxBuffer \in Nat \ {0}

ASSUME BoundAssumption == MaxSpecs \in Nat /\ MaxVersions \in Nat

ASSUME LimitAssumption ==
  /\ Limits # {}
  /\ Limits \subseteq [ranges : Nat \cup {Unlimited},
                       overlaps : Nat \cup {Unlimited},
                       reversals : Nat \cup {Unlimited}]

VARIABLES object,   \* the data object in iRODS
          request,  \* the request and how far it has come
          scan,     \* the state of ap_set_byterange
          wanted,   \* the bytes that the header asked for so far
          reply     \* what the client was sent

vars == <<object, request, scan, wanted, reply>>

\* A byte of the object: the version it is of, and where it is.
Byte == Nat \X Nat

Range == [start : Int, end : Int]

Bytes(r) == r.start .. r.end

\* What was sent for a range.
Part == [start : Int, end : Int, data : Seq(Byte)]

Scan == [indexes : Seq(Range), in_merge : BOOLEAN, ostart : Int, oend : Int,
         unsatisfiable : BOOLEAN, overlaps : Nat, reversals : Nat,
         sum_lengths : Int]

TypeOK ==
  /\ object \in [there : BOOLEAN, version : 0 .. MaxVersions, length : Lengths]
  /\ request \in [phase : {"idle", "found", "scan", "seek", "read", "close",
                           "done", "failed"},
                  length : Lengths, version : 0 .. MaxVersions,
                  limits : Limits, specs : 0 .. MaxSpecs, open : BOOLEAN]
  /\ scan \in Scan
  /\ wanted \subseteq Nat
  /\ reply \in [status : {200, 206, 416}, ranged : BOOLEAN,
                content_length : Lengths \cup {-1}, parts : Seq(Part)]

-----------------------------------------------------------------------------
(* The object is looked up and opened.                                     *)

\* ap_set_byterange before the first range.
NewScan == [indexes |-> <<>>, in_merge |-> FALSE, ostart |-> 0, oend |-> 0,
            unsatisfiable |-> FALSE, overlaps |-> 0, reversals |-> 0,
            sum_lengths |-> 0]

Go(phase) == request' = [request EXCEPT !.phase = phase]

\* get_resource stats the object; set_headers announces all of it.
Get(limits) ==
  /\ request.phase = "idle" /\ object.there
  /\ request' = [phase |-> "found", length |-> object.length,
                 version |-> object.version, limits |-> limits, specs |-> 0,
                 open |-> FALSE]
  /\ scan' = NewScan
  /\ wanted' = {}
  /\ reply' = [status |-> 200, ranged |-> FALSE,
               content_length |-> object.length, parts |-> <<>>]
  /\ UNCHANGED object

Open ==
  /\ request.phase = "found" /\ object.there
  /\ request' = [request EXCEPT !.phase = "scan", !.open = TRUE]
  /\ UNCHANGED <<object, scan, wanted, reply>>

OpenFails ==
  /\ request.phase = "found"
  /\ Go("failed")
  /\ UNCHANGED <<object, scan, wanted, reply>>

-----------------------------------------------------------------------------
(* The Range header.                                                       *)

\* Mutant: a suffix longer than the object starts before it.
FirstAsGiven(start) == start

\* Where a range begins; a suffix longer than the object is all of it.
First(start) == IF start < 0 THEN 0 ELSE start

\* Mutant: a range may end at the length.
ClippedLate(start, end) ==
  [start |-> First(start),
   end |-> IF end > request.length THEN request.length - 1 ELSE end]

\* The range from start to end, cut off at the end of the object.
Clipped(start, end) ==
  [start |-> First(start),
   end |-> IF end >= request.length THEN request.length - 1 ELSE end]

\* The ranges put into the table, which the scan keeps the sum of.
Push(s) == [s EXCEPT !.indexes = Append(@, [start |-> s.ostart, end |-> s.oend]),
                     !.sum_lengths = @ + (s.oend - s.ostart + 1)]

\* Mutant: a range that is joined ends where the new one does.
JoinedAtNew(s, r) ==
  [s EXCEPT !.ostart = IF r.start < @ THEN r.start ELSE @,
            !.oend = r.end,
            !.overlaps = @ + 1]

\* r joined with the range being merged, in the order of the code's tests.
Joined(s, r) ==
  [s EXCEPT !.ostart = IF r.start < @ THEN r.start ELSE @,
            !.oend = IF r.end > @ THEN r.end ELSE @,
            !.reversals = IF r.start < s.ostart THEN @ + 1 ELSE @,
            !.overlaps = @ + 1]

\* r overlaps the range being merged or is next to it.
Touches(s, r) == r.end >= s.ostart - 1 /\ r.start <= s.oend + 1

\* Ranges are read until the header ends; an empty one ends it as well.
Reading == request.phase = "scan" /\ request.specs < MaxSpecs

Count == request' = [request EXCEPT !.specs = @ + 1]

\* A range that starts past the end of the object; so do all but "0-" if the
\* object is empty.
Unsatisfiable(start) ==
  /\ Reading /\ First(start) >= request.length
  /\ Count
  /\ scan' = [scan EXCEPT !.unsatisfiable = TRUE]
  /\ UNCHANGED <<object, wanted, reply>>

\* A range that asks for something: it opens the first set, joins the set that
\* is open, or closes it and opens the next.
Satisfiable(start, end) ==
  /\ Reading /\ First(start) < request.length
  /\ LET r == Clipped(start, end)
     IN  /\ Count
         /\ scan' = IF ~ scan.in_merge
                    THEN [scan EXCEPT !.in_merge = TRUE,
                                      !.ostart = r.start, !.oend = r.end]
                    ELSE IF Touches(scan, r) THEN Joined(scan, r)
                    ELSE [Push(scan) EXCEPT !.ostart = r.start, !.oend = r.end]
         /\ wanted' = wanted \cup Bytes(r)
         /\ UNCHANGED <<object, reply>>

OneRange(start, end) == Unsatisfiable(start) \/ Satisfiable(start, end)

\* "a-b" and "a-".
FromTo(a, b) == a <= b /\ OneRange(a, b)

From(a) == a > 0 /\ OneRange(a, request.length - 1)

\* "-n".
Suffix(n) == n > 0 /\ OneRange(request.length - n, request.length - 1)

\* All of the object is sent: the ranges that were read do not count.
Everything == 0 .. request.length - 1

\* No Range header, one that does not count, or one with a range that is not
\* well formed.
Ignored ==
  /\ request.phase = "scan"
  /\ Go("seek")
  /\ scan' = NewScan
  /\ wanted' = Everything
  /\ UNCHANGED <<object, reply>>

Exceeds(n, limit) == limit # Unlimited /\ n > limit

OverLimit(s) == \/ Exceeds(Len(s.indexes), request.limits.ranges)
                \/ Exceeds(s.overlaps, request.limits.overlaps)
                \/ Exceeds(s.reversals, request.limits.reversals)

\* The table, with the range that is still open.
Closed(s) == IF s.in_merge THEN Push(s) ELSE s

\* Mutant: the sum is not compared with the length.
TooMuchNever(s) == FALSE

\* "Sum of ranges larger than file, ignoring."
TooMuch(s) == s.sum_lengths > request.length

\* The end of ap_set_byterange, and what deliver_file makes of its result: s is
\* the scan with its table complete, asked the bytes it stands for.  The status
\* is 206 as soon as the sum is not too large; the limits come after that.
Decide(s, asked) ==
  \/ /\ s.indexes = <<>> /\ s.unsatisfiable
     /\ reply' = [reply EXCEPT !.status = 416]
     /\ Go("close")
     /\ scan' = NewScan /\ wanted' = {}
  \/ /\ s.indexes = <<>> => ~ s.unsatisfiable
     /\ LET ranged == ~ TooMuch(s) /\ s.indexes # <<>> /\ ~ OverLimit(s)
        IN  /\ reply' = [reply EXCEPT
                           !.status = IF TooMuch(s) THEN @ ELSE 206,
                           !.ranged = ranged,
                           !.content_length = IF ranged THEN -1 ELSE @]
            /\ scan' = IF ranged THEN [NewScan EXCEPT !.indexes = s.indexes]
                       ELSE NewScan
            /\ wanted' = IF ranged THEN asked ELSE Everything
     /\ Go("seek")

\* "0-": the other ranges do not count, and the rest of the header is not read.
FromZero ==
  /\ Reading
  /\ Decide(Closed([scan EXCEPT !.indexes = <<>>, !.sum_lengths = 0,
                                !.in_merge = TRUE, !.ostart = 0,
                                !.oend = request.length - 1]),
            Everything)
  /\ UNCHANGED object

EndOfHeader ==
  /\ request.phase = "scan"
  /\ Decide(Closed(scan), wanted)
  /\ UNCHANGED object

ReadHeader ==
  \/ \E a, b \in Number : FromTo(a, b)
  \/ \E n \in Number : From(n) \/ Suffix(n)
  \/ FromZero \/ EndOfHeader \/ Ignored

-----------------------------------------------------------------------------
(* The bytes are sent.                                                     *)

\* What is sent: the ranges, or the object as one.
ToSend == IF reply.ranged THEN scan.indexes
          ELSE <<[start |-> 0, end |-> request.length - 1]>>

Current == Len(reply.parts)

Sending == reply.parts[Current]

Asked == Sending.end - Sending.start + 1

Total == Len(Sending.data)

\* Mutant: the handle stays where the previous range ended.
OffsetRest == IF Current = 1 THEN Sending.start + Total
              ELSE reply.parts[1].end + 1 + Total

\* Where the handle is.
Offset == Sending.start + Total

\* deliver_seek, at the start of a range.
Seek ==
  /\ request.phase = "seek"
  /\ LET r == ToSend[Current + 1]
     IN  reply' = [reply EXCEPT !.parts =
                     Append(@, [start |-> r.start, end |-> r.end, data |-> <<>>])]
  /\ Go("read")
  /\ UNCHANGED <<object, scan, wanted>>

\* rcDataObjRead returns n bytes, which are passed on.
Read(n) ==
  /\ request.phase = "read" /\ n <= Asked - Total /\ n <= RxBuffer
  /\ Offset + n <= object.length
  /\ reply' = [reply EXCEPT !.parts[Current].data =
                 @ \o [i \in 1 .. n |-> <<object.version, Offset + i - 1>>]]
  /\ UNCHANGED <<object, request, scan, wanted>>

\* Mutant: only a range of which all bytes were read ends.
FinishedFull == Total >= Asked

\* Mutant: a read that returns less than the buffer is taken for the end.
FinishedShort == Total >= Asked \/ (Total > 0 /\ Total % RxBuffer # 0)

\* All bytes of the range were read, or the object ends before it does.
Finished == Total >= Asked \/ Offset >= object.length

EndRange ==
  /\ request.phase = "read" /\ Finished
  /\ Go(IF Current < Len(ToSend) THEN "seek" ELSE "close")
  /\ UNCHANGED <<object, scan, wanted, reply>>

\* A seek or a read fails, or the client is gone: the object stays open.  Once
\* it is closed, the end of the answer may still fail to be passed on.
SendFails ==
  /\ \/ request.phase \in {"seek", "read"} /\ Go("failed")
     \/ /\ request.phase = "close"
        /\ request' = [request EXCEPT !.phase = "failed", !.open = FALSE]
  /\ UNCHANGED <<object, scan, wanted, reply>>

Close ==
  /\ request.phase = "close"
  /\ request' = [request EXCEPT !.phase = "done", !.open = FALSE]
  /\ UNCHANGED <<object, scan, wanted, reply>>

\* The next request on the connection.
Answered ==
  /\ request.phase \in {"done", "failed"}
  /\ Go("idle")
  /\ UNCHANGED <<object, scan, wanted, reply>>

-----------------------------------------------------------------------------
(* Other clients.                                                          *)

\* The object is overwritten: an open handle sees the new bytes.
Replace(length) ==
  /\ object.version < MaxVersions
  /\ object.there \/ request.phase \notin {"scan", "seek", "read", "close"}
  /\ object' = [there |-> TRUE, version |-> object.version + 1,
                length |-> length]
  /\ UNCHANGED <<request, scan, wanted, reply>>

\* The object is removed, to be replaced later: an open handle still reads what
\* was there.
Remove ==
  /\ object.there /\ object.version < MaxVersions
  /\ object' = [object EXCEPT !.there = FALSE]
  /\ UNCHANGED <<request, scan, wanted, reply>>

-----------------------------------------------------------------------------
Init ==
  /\ object \in [there : {TRUE}, version : {0}, length : Lengths]
  /\ request = [phase |-> "idle", length |-> object.length, version |-> 0,
                limits |-> CHOOSE l \in Limits : TRUE, specs |-> 0,
                open |-> FALSE]
  /\ scan = NewScan
  /\ wanted = {}
  /\ reply = [status |-> 200, ranged |-> FALSE, content_length |-> -1,
              parts |-> <<>>]

\* What the worker does once it has a request, while the transfer works.
Worker == \/ Open \/ OpenFails \/ ReadHeader \/ Seek
          \/ \E n \in 1 .. RxBuffer : Read(n)
          \/ EndRange \/ Close \/ Answered

Others == (\E length \in Lengths : Replace(length)) \/ Remove

Next == (\E limits \in Limits : Get(limits)) \/ Worker \/ SendFails \/ Others

Spec == Init /\ [][Next]_vars

\* An httpd worker does not stop in the middle of a request, and each call to
\* iRODS returns; that one fails is never counted on.
FairSpec == Spec /\ WF_vars(Worker)

-----------------------------------------------------------------------------
(* Properties.                                                             *)

Table(indexes) == UNION {Bytes(indexes[i]) : i \in 1 .. Len(indexes)}

Covered(s) ==
  Table(s.indexes) \cup (IF s.in_merge THEN s.ostart .. s.oend ELSE {})

\* However the ranges of a header overlap, touch, repeat or come out of order,
\* the merged ones ask for exactly the same bytes (ap_set_byterange).
MergeKeepsBytes ==
  request.phase = "scan" \/ reply.ranged => Covered(scan) = wanted

\* The ranges that are sent lie in the object as it was looked up and none of
\* them is empty, so that no length that is computed from them
\* (range_end - range_start + 1, a size_t) is negative; of an empty object only
\* "0-" is served, from 0 to -1.
RangesInObject ==
  reply.ranged =>
    IF request.length = 0 THEN scan.indexes = <<[start |-> 0, end |-> -1]>>
    ELSE \A i \in 1 .. Len(scan.indexes) :
           LET r == scan.indexes[i]
           IN  0 <= r.start /\ r.start <= r.end /\ r.end < request.length

\* Every byte that is sent is the one that the header of its part announces
\* for its place, also when reads are short or the object changes in between
\* (deliver_file_bytes).
SentInPlace ==
  \A i \in 1 .. Len(reply.parts) :
    LET p == reply.parts[i]
    IN  /\ Len(p.data) <= p.end - p.start + 1
        /\ \A k \in 1 .. Len(p.data) : p.data[k][2] = p.start + k - 1

Sent == UNION {{reply.parts[i].data[k] : k \in 1 .. Len(reply.parts[i].data)} :
                 i \in 1 .. Len(reply.parts)}

\* An answer that ends well, of an object that nobody changed since it was
\* looked up, has every byte that was asked for and no other, as many as
\* Content-Length says if there is one, and the object is closed.
ServedAsAsked ==
  request.phase = "done" /\ reply.status # 416
  /\ object.version = request.version =>
    /\ Sent = {request.version} \X wanted
    /\ reply.content_length # -1 =>
         /\ Len(reply.parts) = 1
         /\ Len(reply.parts[1].data) = reply.content_length
    /\ ~ request.open

\* The sum of the numbers of a sequence.
Sum(v) == LET sum[i \in 0 .. Len(v)] == IF i = 0 THEN 0 ELSE sum[i - 1] + v[i]
          IN  sum[Len(v)]

\* The ranges of an answer are together no longer than the object: a client
\* cannot have more sent than there is (the check on sum_lengths).
NoMoreThanThere ==
  Sum([i \in 1 .. Len(reply.parts) |-> Len(reply.parts[i].data)]) <= request.length

\* A request ends, also when the object has become shorter than the length that
\* is being read.
DownloadEnds == request.phase # "idle" ~> request.phase = "idle"

\* "Deliver the entire file" (byterange.c, davrods_byterange_deliver_file): an
\* answer is 206 exactly if it has the ranges that were asked for.  Broken:
\* ap_set_byterange has set the status when the limits are looked at.
StatusFits ==
  request.phase = "done" => (reply.status = 206 <=> reply.ranged)
=============================================================================
