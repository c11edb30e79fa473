-------------------------- MODULE DavUploadProofs --------------------------
(***************************************************************************)
(* Proofs about DavUpload, for any objects, temporary names, workers, body *)
(* length and container size: that a committed upload is stored whole and  *)
(* in order, and that temporary files keep half an upload out of sight.    *)
(***************************************************************************)
EXTENDS DavUpload, TLAPS

\* The phases in which a worker has its object open.
Writing == {"open", "failed", "commit", "rollback"}

\* The phases in which it has an object of its own, open or not.
Written == Writing \cup {"replace", "rename", "unlink"}

\* Nothing has been read before the stream is open.
Fresh(s) ==
  s.phase = "found" => /\ s.container = <<>> /\ s.got = 0
                       /\ s.pos = Offset(s.start)
                       /\ s.write_path = s.path
                       /\ s.tmpfile => s.start = -1

\* A temporary file has another name, and is only used for a whole PUT.
Named(s) == s.write_path = s.path \/ (s.write_path \in Temp /\ s.start = -1)

\* The bytes of d before pos and those of the container c are the body as far
\* as it was read, from the offset where the PUT started; a whole PUT has
\* left nothing behind them.
Ordered(from, pos, got, whole, c, d, w) ==
  /\ pos >= from
  /\ pos + Len(c) = from + got
  /\ pos > from => Len(d) >= pos
  /\ whole => Len(d) = pos
  /\ \A i \in from + 1 .. pos : d[i] = <<w, i - from>>
  /\ \A i \in 1 .. Len(c) : c[i] = <<w, (pos - from) + i>>

Along(s, d, w) ==
  Ordered(Offset(s.start), s.pos, s.got, s.start = -1, s.container, d, w)

InOrder(s, o, w) ==
  s.phase \in {"open", "commit"} => Along(s, o[s.write_path].data, w)

WriterHolds(s, o, w) ==
  s.phase \in Writing => o[s.write_path].there /\ o[s.write_path].writer = w

Flushed(s) ==
  s.phase = "commit" => s.container = <<>> /\ s.got = BodyLength

WholeTemp(s, o, w) ==
  s.phase \in {"replace", "rename"} =>
    s.write_path \in Temp /\ o[s.write_path].data = Body(w)

TempKept(s, o) ==
  s.phase \in {"replace", "rename", "unlink"} /\ s.write_path \in Temp =>
    o[s.write_path].there /\ o[s.write_path].writer = NoWorker

\* What an upload under way relies on.
Sound(s, o, w) ==
  /\ s \in Stream
  /\ Len(s.container) <= TxBuffer
  /\ Fresh(s) /\ Named(s) /\ Flushed(s)
  /\ WriterHolds(s, o, w) /\ InOrder(s, o, w)
  /\ WholeTemp(s, o, w) /\ TempKept(s, o)

\* A temporary file belongs to one upload at a time.
TempsApart ==
  \A v, w \in Worker :
    v # w /\ stream[v].phase \in Written /\ stream[w].phase \in Written
      /\ stream[v].write_path \in Temp =>
        stream[v].write_path # stream[w].write_path

IInv == /\ TypeOK /\ TempsApart
        /\ \A w \in Worker : stream[w] # Idle => Sound(stream[w], objects, w)

\* The uploads that rely on what their write path holds.
Relies(s) ==
  \/ s.phase \in Writing
  \/ s.phase \in Written /\ s.write_path \in Temp

-----------------------------------------------------------------------------
(* Frames.                                                                 *)

Name == Object \cup Temp

\* What is there is an object, with its data.
LEMMA ThereIsStored ==
  ASSUME NEW x \in Stored \cup {Absent}
  PROVE  x.there \in BOOLEAN
         /\ (x.there => x \in Stored /\ x.data \in Seq(Byte))
<1>1. CASE x \in Stored
  BY <1>1 DEF Stored
<1>2. CASE x = Absent
  BY <1>2 DEF Absent
<1> QED BY <1>1, <1>2

\* An upload is as sound as it was if the object it relies on is.
LEMMA SoundFrame ==
  ASSUME NEW s, NEW o, NEW o2, NEW w, Sound(s, o, w),
         Relies(s) => o2[s.write_path] = o[s.write_path]
  PROVE  Sound(s, o2, w)
<1>1. CASE Relies(s)
  BY <1>1 DEF Sound, WriterHolds, InOrder, WholeTemp, TempKept
<1>2. CASE ~ Relies(s)
  <2>1. s.phase \notin Writing
        /\ (s.phase \in {"replace", "rename", "unlink"} =>
              s.write_path \notin Temp)
    BY <1>2 DEF Relies, Written
  <2>2. s.phase \notin {"open", "commit", "replace", "rename"}
    BY <2>1 DEF Sound, WholeTemp, Writing
  <2> QED BY <2>1, <2>2 DEF Sound, WriterHolds, InOrder, WholeTemp, TempKept
<1> QED BY <1>1, <1>2

LEMMA Types ==
  ASSUME IInv
  PROVE  /\ objects \in [Name -> Stored \cup {Absent}]
         /\ stream \in [Worker -> Stream \cup {Idle}]
         /\ \A w \in Worker :
              stream[w].phase # "idle" => /\ stream[w] \in Stream
                                          /\ Sound(stream[w], objects, w)
<1>1. Idle.phase = "idle"
  BY DEF Idle
<1> QED BY <1>1 DEF IInv, TypeOK, Name

\* One worker's upload moves on.
LEMMA StreamStep ==
  ASSUME IInv, NEW w \in Worker, NEW s \in Stream \cup {Idle},
         objects' \in [Name -> Stored \cup {Absent}],
         stream' = [stream EXCEPT ![w] = s],
         s = Idle \/ Sound(s, objects', w),
         \A v \in Worker \ {w} : Relies(stream[v]) =>
           objects'[stream[v].write_path] = objects[stream[v].write_path],
         \A v \in Worker \ {w} :
           s.phase \in Written /\ stream[v].phase \in Written
             /\ s.write_path \in Temp => stream[v].write_path # s.write_path
  PROVE  IInv'
<1>1. stream \in [Worker -> Stream \cup {Idle}]
  BY Types
<1>2. TypeOK'
  BY <1>1 DEF TypeOK, Name
<1>3. \A v \in Worker : stream'[v] = IF v = w THEN s ELSE stream[v]
  BY <1>1
<1>4. TempsApart'
  <2>1. SUFFICES ASSUME NEW u \in Worker, NEW v \in Worker, u # v,
                        stream'[u].phase \in Written,
                        stream'[v].phase \in Written,
                        stream'[u].write_path \in Temp,
                        stream'[u].write_path = stream'[v].write_path
                 PROVE  FALSE
    BY DEF TempsApart
  <2>2. CASE u = w
    BY <1>3, <2>1, <2>2
  <2>3. CASE v = w
    BY <1>3, <2>1, <2>3
  <2>4. CASE u # w /\ v # w
    BY <1>3, <2>1, <2>4 DEF IInv, TempsApart
  <2> QED BY <2>2, <2>3, <2>4
<1>5. ASSUME NEW v \in Worker, stream'[v] # Idle
      PROVE  Sound(stream'[v], objects', v)
  <2>1. CASE v = w
    BY <1>3, <1>5, <2>1
  <2>2. CASE v # w
    <3>1. stream'[v] = stream[v] /\ Sound(stream[v], objects, v)
      BY <1>3, <1>5, <2>2 DEF IInv
    <3> QED BY <3>1, <2>2, SoundFrame
  <2> QED BY <2>1, <2>2
<1> QED BY <1>2, <1>4, <1>5 DEF IInv

LEMMA ReliedOn ==
  ASSUME IInv, NEW v \in Worker, Relies(stream[v])
  PROVE  stream[v].write_path \in Name
<1>1. stream[v].phase # "idle"
  BY DEF Relies, Written, Writing
<1> QED BY <1>1, Types DEF Stream, Name

\* An object that w has open is nothing another upload relies on, ...
LEMMA OwnOpen ==
  ASSUME IInv, NEW w \in Worker, NEW q, objects[q].writer = w,
         NEW v \in Worker \ {w}, Relies(stream[v])
  PROVE  stream[v].write_path # q
<1>1. stream[v].phase # "idle"
  BY DEF Relies, Written, Writing
<1>2. Sound(stream[v], objects, v)
  BY <1>1, Types
<1>3. \/ objects[stream[v].write_path].writer = v
      \/ objects[stream[v].write_path].writer = NoWorker
  BY <1>2 DEF Sound, Relies, Written, WriterHolds, TempKept
<1> QED BY <1>3, WorkerAssumption

\* ... nor is one that is not there, ...
LEMMA NotThere ==
  ASSUME IInv, NEW q, ~ objects[q].there, NEW v \in Worker,
         Relies(stream[v])
  PROVE  stream[v].write_path # q
<1>1. stream[v].phase # "idle"
  BY DEF Relies, Written, Writing
<1>2. Sound(stream[v], objects, v)
  BY <1>1, Types
<1> QED BY <1>2 DEF Sound, Relies, Written, WriterHolds, TempKept

\* ... or one that nobody has open and that is no temporary file.
LEMMA NobodyOpen ==
  ASSUME IInv, NEW q \in Object, Unlinkable(q), NEW v \in Worker,
         Relies(stream[v])
  PROVE  stream[v].write_path # q
<1>1. stream[v].phase # "idle"
  BY DEF Relies, Written, Writing
<1>2. Sound(stream[v], objects, v)
  BY <1>1, Types
<1>3. objects[q].writer = NoWorker /\ q \notin Temp
  BY PathAssumption DEF Unlinkable, Locked
<1> QED BY <1>2, <1>3, WorkerAssumption
        DEF Sound, Relies, Written, WriterHolds

\* An upload that keeps its write path keeps it to itself.
LEMMA StaysApart ==
  ASSUME IInv, NEW w \in Worker, stream[w].phase \in Written,
         NEW v \in Worker \ {w}, stream[v].phase \in Written,
         stream[w].write_path \in Temp
  PROVE  stream[v].write_path # stream[w].write_path
BY DEF IInv, TempsApart

\* The upload ends.
LEMMA Ends ==
  ASSUME IInv, NEW w \in Worker, End(w),
         objects' \in [Name -> Stored \cup {Absent}],
         \A v \in Worker \ {w} : Relies(stream[v]) =>
           objects'[stream[v].write_path] = objects[stream[v].write_path]
  PROVE  IInv'
<1>1. Idle.phase \notin Written
  BY DEF Idle, Written, Writing
<1>2. stream' = [stream EXCEPT ![w] = Idle]
  BY DEF End
<1> QED BY <1>1, <1>2, StreamStep

\* The upload goes on to a phase that relies on nothing more.
LEMMA GoesOn ==
  ASSUME IInv, NEW w \in Worker, stream[w].phase # "idle",
         NEW phase \in {"replace", "rename", "unlink", "ok"},
         stream[w].phase \in Written, Go(w, phase),
         objects' \in [Name -> Stored \cup {Absent}],
         \A v \in Worker \ {w} : Relies(stream[v]) =>
           objects'[stream[v].write_path] = objects[stream[v].write_path],
         LET q == stream[w].write_path
         IN  /\ phase \in {"replace", "rename"} =>
                  q \in Temp /\ objects'[q].data = Body(w)
             /\ phase # "ok" /\ q \in Temp =>
                  objects'[q].there /\ objects'[q].writer = NoWorker
  PROVE  IInv'
<1> DEFINE s == [stream[w] EXCEPT !.phase = phase]
<1>1. stream[w] \in Stream /\ Sound(stream[w], objects, w)
  BY Types
<1>2. s \in Stream
  BY <1>1 DEF Stream
<1>3. /\ s.phase = phase /\ s.write_path = stream[w].write_path
      /\ s.container = stream[w].container /\ s.path = stream[w].path
      /\ s.start = stream[w].start
  BY <1>1 DEF Stream
<1>4. stream' = [stream EXCEPT ![w] = s]
  BY Types DEF Go
<1> HIDE DEF s
<1>5. /\ Len(s.container) <= TxBuffer
      /\ Fresh(s) /\ Named(s) /\ Flushed(s)
  BY <1>1, <1>3 DEF Sound, Fresh, Named, Flushed
<1>6. WriterHolds(s, objects', w) /\ InOrder(s, objects', w)
  BY <1>3 DEF WriterHolds, InOrder, Writing
<1>7. WholeTemp(s, objects', w) /\ TempKept(s, objects')
  BY <1>3 DEF WholeTemp, TempKept
<1>8. Sound(s, objects', w)
  BY <1>2, <1>5, <1>6, <1>7 DEF Sound
<1>9. \A v \in Worker \ {w} :
        s.phase \in Written /\ stream[v].phase \in Written
          /\ s.write_path \in Temp => stream[v].write_path # s.write_path
  BY <1>3, StaysApart
<1>10. s \in Stream \cup {Idle} /\ (s = Idle \/ Sound(s, objects', w))
  BY <1>2, <1>8
<1> QED BY <1>4, <1>9, <1>10, StreamStep

-----------------------------------------------------------------------------
(* Bytes.                                                                  *)

LEMMA BytesOf ==
  ASSUME NEW w \in Worker \cup {NoWorker}, NEW from \in Nat, NEW n \in Nat
  PROVE  LET b == Bytes(w, from + 1, from + n)
         IN  /\ b \in Seq(Byte) /\ Len(b) = n
             /\ \A i \in 1 .. n : b[i] = <<w, from + i>>
<1> DEFINE b == Bytes(w, from + 1, from + n)
<1>1. (from + n) - (from + 1) + 1 = n
      /\ \A i \in 1 .. n : (from + 1) + i - 1 = from + i /\ from + i \in Nat
  OBVIOUS
<1>2. b = [i \in 1 .. n |-> <<w, from + i>>]
  BY <1>1 DEF Bytes
<1>3. \A i \in 1 .. n : <<w, from + i>> \in Byte
  BY <1>1 DEF Byte
<1> HIDE DEF b
<1>4. b \in Seq(Byte)
  <2> DEFINE At(i) == <<w, from + i>>
  <2>1. b = [i \in 1 .. n |-> At(i)] /\ \A i \in 1 .. n : At(i) \in Byte
    BY <1>2, <1>3
  <2> HIDE DEF At
  <2> QED BY <2>1
<1>5. Len(b) = n
  BY <1>2
<1>6. \A i \in 1 .. n : b[i] = <<w, from + i>>
  BY <1>2
<1> QED BY <1>4, <1>5, <1>6 DEF b

\* Writing at an offset: what is there before and after it stays, what is
\* written is there, and the object is as long as it need be.
LEMMA OverwriteIs ==
  ASSUME NEW d \in Seq(Byte), NEW pos \in Nat, NEW b \in Seq(Byte)
  PROVE  LET o == Overwrite(d, pos, b)
         IN  /\ o \in Seq(Byte)
             /\ Len(o) = IF pos + Len(b) > Len(d) THEN pos + Len(b)
                         ELSE Len(d)
             /\ \A i \in 1 .. Len(b) : o[pos + i] = b[i]
             /\ \A i \in 1 .. Len(d) : i <= pos => o[i] = d[i]
<1> DEFINE end == pos + Len(b)
           n == IF end > Len(d) THEN end ELSE Len(d)
           At(i) == IF i \in pos + 1 .. end THEN b[i - pos]
                    ELSE IF i <= Len(d) THEN d[i] ELSE <<NoWorker, 0>>
           o == [i \in 1 .. n |-> At(i)]
<1>1. Overwrite(d, pos, b) = o
  BY DEF Overwrite
<1>2. Len(b) \in Nat /\ Len(d) \in Nat /\ end \in Nat /\ n \in Nat
  OBVIOUS
<1>3. ASSUME NEW i \in 1 .. n PROVE At(i) \in Byte
  <2>1. <<NoWorker, 0>> \in Byte
    BY DEF Byte
  <2>2. i \in pos + 1 .. end => i - pos \in 1 .. Len(b)
    BY <1>2
  <2>3. i <= Len(d) => i \in 1 .. Len(d)
    BY <1>2
  <2> QED BY <2>1, <2>2, <2>3
<1>4. /\ \A i \in 1 .. Len(b) : pos + i \in 1 .. n /\ At(pos + i) = b[i]
      /\ \A i \in 1 .. Len(d) : i <= pos => i \in 1 .. n /\ At(i) = d[i]
  BY <1>2
<1> HIDE DEF At, n
<1>5. o \in Seq(Byte) /\ Len(o) = n
  BY <1>2, <1>3
<1>6. /\ \A i \in 1 .. Len(b) : o[pos + i] = b[i]
      /\ \A i \in 1 .. Len(d) : i <= pos => o[i] = d[i]
  BY <1>4
<1> HIDE DEF o
<1> QED BY <1>1, <1>5, <1>6 DEF n

\* What is sent and what is kept make up what was held and what came in, and
\* what is kept fits.
LEMMA SendsAll ==
  ASSUME NEW s \in Stream, Len(s.container) <= TxBuffer,
         NEW input \in Seq(Byte)
  PROVE  /\ Sends(s, input) \in Seq(Byte)
         /\ Container(s, input) \in Seq(Byte)
         /\ Len(Container(s, input)) <= TxBuffer
         /\ Sends(s, input) \o Container(s, input) = s.container \o input
<1>1. s.container \in Seq(Byte) /\ Len(s.container) \in Nat
      /\ Len(input) \in Nat /\ TxBuffer \in Nat
  BY SizeAssumption DEF Stream
<1>2. CASE Len(input) >= TxBuffer
  <2>1. Sends(s, input) = s.container \o input /\ Container(s, input) = <<>>
    BY <1>2 DEF Sends, Container
  <2> QED BY <1>1, <2>1
<1>3. CASE Len(input) < TxBuffer /\ Len(input) > TxBuffer - Len(s.container)
  <2>1. Sends(s, input) = s.container /\ Container(s, input) = input
    BY <1>1, <1>3 DEF Sends, Container
  <2> QED BY <1>1, <1>3, <2>1
<1>4. CASE Len(input) < TxBuffer /\ Len(input) <= TxBuffer - Len(s.container)
  <2>1. Sends(s, input) = <<>> /\ Container(s, input) = s.container \o input
    BY <1>1, <1>4 DEF Sends, Container
  <2> QED BY <1>1, <1>4, <2>1
<1>5. \/ Len(input) >= TxBuffer
      \/ Len(input) < TxBuffer /\ Len(input) > TxBuffer - Len(s.container)
      \/ Len(input) < TxBuffer /\ Len(input) <= TxBuffer - Len(s.container)
  BY <1>1
<1> QED BY <1>2, <1>3, <1>4, <1>5

LEMMA Sums ==
  ASSUME NEW from \in Nat, NEW pos \in Nat, NEW got \in Nat, NEW held \in Nat,
         pos >= from, pos + held = from + got
  PROVE  /\ \A j \in Nat : got + j = (pos - from) + (held + j)
         /\ \A k, x, y \in Nat :
              x + y = held + k => /\ pos + x >= from
                                  /\ pos + x + y = from + (got + k)
OBVIOUS

\* Positions in a concatenation.
LEMMA ConcatAt ==
  ASSUME NEW a \in Seq(Byte), NEW b \in Seq(Byte)
  PROVE  /\ a \o b \in Seq(Byte)
         /\ Len(a) \in Nat /\ Len(b) \in Nat
         /\ Len(a \o b) = Len(a) + Len(b)
         /\ \A i \in 1 .. Len(a) : (a \o b)[i] = a[i]
         /\ \A i \in 1 .. Len(b) : (a \o b)[Len(a) + i] = b[i]
OBVIOUS

\* An upload that is in order stays so when it reads the next bytes of the
\* body, sends part of what it holds and keeps the rest.
LEMMA InOrderAdvances ==
  ASSUME NEW from \in Nat, NEW pos \in Nat, NEW got \in Nat,
         NEW whole, NEW c \in Seq(Byte), NEW d \in Seq(Byte),
         NEW w, NEW k \in Nat, NEW input \in Seq(Byte),
         NEW sent \in Seq(Byte), NEW kept \in Seq(Byte), NEW o \in Seq(Byte)
  PROVE  /\ Ordered(from, pos, got, whole, c, d, w)
         /\ Len(input) = k /\ \A i \in 1 .. k : input[i] = <<w, got + i>>
         /\ sent \o kept = c \o input
         /\ o = IF sent = <<>> THEN d ELSE Overwrite(d, pos, sent)
         => Ordered(from, pos + Len(sent), got + k, whole, kept, o, w)
<1>0. SUFFICES
        ASSUME /\ Ordered(from, pos, got, whole, c, d, w)
               /\ Len(input) = k /\ \A i \in 1 .. k : input[i] = <<w, got + i>>
               /\ sent \o kept = c \o input
               /\ o = IF sent = <<>> THEN d ELSE Overwrite(d, pos, sent)
        PROVE  Ordered(from, pos + Len(sent), got + k, whole, kept, o, w)
  OBVIOUS
<1>1. /\ pos >= from
      /\ pos + Len(c) = from + got
      /\ pos > from => Len(d) >= pos
      /\ whole => Len(d) = pos
  BY <1>0 DEF Ordered
<1>2. \A i \in from + 1 .. pos : d[i] = <<w, i - from>>
  BY <1>0 DEF Ordered
<1>3. \A i \in 1 .. Len(c) : c[i] = <<w, (pos - from) + i>>
  BY <1>0 DEF Ordered
<1>4. /\ Len(c) \in Nat /\ Len(sent) \in Nat /\ Len(kept) \in Nat
      /\ Len(d) \in Nat
  BY ConcatAt
<1>5. Len(sent) + Len(kept) = Len(c) + k
  <2>1. Len(sent \o kept) = Len(sent) + Len(kept)
    BY ConcatAt
  <2>2. Len(c \o input) = Len(c) + Len(input)
    BY ConcatAt
  <2> QED BY <2>1, <2>2, <1>0
<1>s. /\ \A j \in Nat : got + j = (pos - from) + (Len(c) + j)
      /\ \A m, x, y \in Nat :
           x + y = Len(c) + m => /\ pos + x >= from
                                 /\ pos + x + y = from + (got + m)
  <2> DEFINE held == Len(c)
  <2>1. held \in Nat /\ pos >= from /\ pos + held = from + got
    BY <1>1, <1>4
  <2> HIDE DEF held
  <2>2. /\ \A j \in Nat : got + j = (pos - from) + (held + j)
        /\ \A m, x, y \in Nat :
             x + y = held + m => /\ pos + x >= from
                                 /\ pos + x + y = from + (got + m)
    BY <2>1, Sums
  <2> QED BY <2>2 DEF held
<1>6. ASSUME NEW i \in 1 .. Len(c) + k
      PROVE  (c \o input)[i] = <<w, (pos - from) + i>>
  <2>1. CASE i <= Len(c)
    <3>1. i \in 1 .. Len(c)
      BY <2>1, <1>4
    <3>2. (c \o input)[i] = c[i]
      BY <3>1, ConcatAt
    <3> QED BY <3>1, <3>2, <1>3
  <2>2. CASE i > Len(c)
    <3>1. PICK j \in 1 .. k : i = Len(c) + j
      <4>1. i - Len(c) \in 1 .. k /\ i = Len(c) + (i - Len(c))
        BY <2>2, <1>4
      <4> QED BY <4>1
    <3>2. (c \o input)[i] = input[j]
      BY <3>1, <1>0, ConcatAt
    <3>3. got + j = (pos - from) + i
      <4>1. j \in Nat
        BY <3>1
      <4>2. got + j = (pos - from) + (Len(c) + j)
        BY <4>1, <1>s
      <4> QED BY <4>2, <3>1
    <3> QED BY <3>1, <3>2, <3>3, <1>0
  <2>3. i <= Len(c) \/ i > Len(c)
    BY <1>4
  <2> QED BY <2>1, <2>2, <2>3
<1>7. ASSUME NEW i \in 1 .. Len(sent)
      PROVE  sent[i] = <<w, (pos - from) + i>>
  <2>1. i \in 1 .. Len(c) + k
    BY <1>4, <1>5
  <2>2. (c \o input)[i] = sent[i]
    BY <1>0, ConcatAt
  <2> QED BY <2>1, <2>2, <1>6
<1>8. ASSUME NEW i \in 1 .. Len(kept)
      PROVE  kept[i] = <<w, ((pos + Len(sent)) - from) + i>>
  <2>1. Len(sent) + i \in 1 .. Len(c) + k
    BY <1>4, <1>5
  <2>2. (c \o input)[Len(sent) + i] = kept[i]
    <3>1. (sent \o kept)[Len(sent) + i] = kept[i]
      BY ConcatAt
    <3> QED BY <3>1, <1>0
  <2>3. (pos - from) + (Len(sent) + i) = ((pos + Len(sent)) - from) + i
    BY <1>4
  <2> QED BY <2>1, <2>2, <2>3, <1>6
<1>9. /\ pos + Len(sent) >= from
      /\ pos + Len(sent) + Len(kept) = from + (got + k)
  BY <1>4, <1>5, <1>s
<1>10. CASE sent = <<>>
  <2>1. Len(sent) = 0 /\ pos + Len(sent) = pos /\ o = d
    BY <1>0, <1>10
  <2> QED BY <2>1, <1>1, <1>2, <1>8, <1>9 DEF Ordered
<1>11. CASE sent # <<>>
  <2>1. Len(sent) > 0
    BY <1>4, <1>11
  <2>2. Len(o) = IF pos + Len(sent) > Len(d) THEN pos + Len(sent) ELSE Len(d)
    BY <1>0, <1>11, OverwriteIs
  <2>3. /\ \A i \in 1 .. Len(sent) : o[pos + i] = sent[i]
        /\ \A i \in 1 .. Len(d) : i <= pos => o[i] = d[i]
    BY <1>0, <1>11, OverwriteIs
  <2>4. Len(o) >= pos + Len(sent)
    BY <2>2, <1>4
  <2>5. whole => Len(o) = pos + Len(sent)
    BY <2>1, <2>2, <1>1, <1>4
  <2>6. ASSUME NEW i \in from + 1 .. pos + Len(sent)
        PROVE  o[i] = <<w, i - from>>
    <3>1. CASE i <= pos
      <4>1. i \in 1 .. Len(d) /\ i \in from + 1 .. pos
        BY <3>1, <1>1, <1>4
      <4> QED BY <4>1, <3>1, <2>3, <1>2
    <3>2. CASE i > pos
      <4>1. PICK j \in 1 .. Len(sent) : i = pos + j
        <5>1. i - pos \in 1 .. Len(sent) /\ i = pos + (i - pos)
          BY <3>2, <1>4
        <5> QED BY <5>1
      <4>2. (pos - from) + j = i - from
        BY <4>1
      <4> QED BY <4>1, <4>2, <2>3, <1>7
    <3>3. i <= pos \/ i > pos
      BY <1>4
    <3> QED BY <3>1, <3>2, <3>3
  <2> QED BY <2>4, <2>5, <2>6, <1>8, <1>9 DEF Ordered
<1> QED BY <1>10, <1>11

-----------------------------------------------------------------------------
(* The steps.                                                              *)

LEMMA InitKeeps == Init => IInv
<1> SUFFICES ASSUME Init PROVE IInv
  OBVIOUS
<1>1. Bytes(NoWorker, 1, 2) \in Seq(Byte)
  <2>1. Bytes(NoWorker, 0 + 1, 0 + 2) \in Seq(Byte)
    BY BytesOf
  <2> QED BY <2>1
<1>2. objects \in [Object \cup Temp -> Stored \cup {Absent}]
  BY <1>1 DEF Init, Stored
<1>3. stream \in [Worker -> Stream \cup {Idle}]
      /\ \A w \in Worker : stream[w] = Idle
  BY DEF Init
<1>4. TempsApart
  BY <1>3 DEF TempsApart, Idle, Written, Writing
<1> QED BY <1>2, <1>3, <1>4 DEF IInv, TypeOK

LEMMA PutKeeps ==
  ASSUME IInv, NEW w \in Worker, NEW p \in Object,
         NEW start \in Starts \cup {-1}, NEW rollback \in Rollbacks,
         Put(w, p, start, rollback)
  PROVE  IInv'
<1> DEFINE s == [phase |-> "found", path |-> p, write_path |-> p,
                 exists |-> objects[p].there, start |-> start,
                 tmpfile |-> rollback /\ start = -1, pos |-> Offset(start),
                 container |-> <<>>, got |-> 0]
<1>1. stream' = [stream EXCEPT ![w] = s] /\ UNCHANGED objects
  BY DEF Put
<1>2. objects[p].there \in BOOLEAN
  <2>1. objects[p] \in Stored \cup {Absent}
    BY Types DEF Name
  <2> QED BY <2>1, ThereIsStored
<1>3. Offset(start) \in Nat /\ 0 \in 0 .. BodyLength /\ 0 <= TxBuffer
  BY SizeAssumption DEF Offset
<1>4. <<>> \in Seq(Byte) /\ (rollback /\ start = -1) \in BOOLEAN
  OBVIOUS
<1>5. s \in Stream
  BY <1>2, <1>3, <1>4 DEF Stream
<1>6. Sound(s, objects', w)
  BY <1>3, <1>5 DEF Sound, Fresh, Named, Flushed, WriterHolds, InOrder,
                    WholeTemp, TempKept, Writing
<1>7. s.phase \notin Written
  BY DEF Written, Writing
<1> HIDE DEF s
<1> QED BY <1>1, <1>5, <1>6, <1>7, Types, StreamStep

\* A stream is opened on an object that no other upload relies on.
LEMMA OpenedKeeps ==
  ASSUME IInv, NEW w \in Worker, stream[w].phase = "found",
         NEW p \in Name, NEW data \in Seq(Byte), Opened(w, p, data),
         stream[w].start = -1 => data = <<>>,
         p = stream[w].path \/ (p \in Temp /\ stream[w].start = -1),
         \A v \in Worker : Relies(stream[v]) => stream[v].write_path # p
  PROVE  IInv'
<1> DEFINE s == [stream[w] EXCEPT !.phase = "open", !.write_path = p]
           o == [there |-> TRUE, data |-> data, writer |-> w]
<1>1. stream[w] \in Stream /\ Sound(stream[w], objects, w)
  BY Types
<1>2. stream' = [stream EXCEPT ![w] = s] /\ objects' = [objects EXCEPT ![p] = o]
  BY Types DEF Opened
<1>3. /\ s \in Stream /\ s.phase = "open" /\ s.write_path = p
      /\ s.path = stream[w].path /\ s.start = stream[w].start
      /\ s.pos = stream[w].pos /\ s.got = stream[w].got
      /\ s.container = stream[w].container
  BY <1>1 DEF Stream, Name
<1>4. /\ s.container = <<>> /\ s.got = 0 /\ s.pos = Offset(s.start)
      /\ Offset(s.start) \in Nat
  BY <1>1, <1>3, SizeAssumption DEF Sound, Fresh, Stream, Offset
<1> HIDE DEF s
<1>5. o \in Stored
  BY DEF Stored
<1>6. objects' \in [Name -> Stored \cup {Absent}]
  BY <1>2, <1>5, Types
<1>7. objects'[p] = o
  BY <1>2, Types
<1>8. \A v \in Worker \ {w} : Relies(stream[v]) =>
        objects'[stream[v].write_path] = objects[stream[v].write_path]
  <2>1. \A q \in Name : q # p => objects'[q] = objects[q]
    BY <1>2, Types
  <2> QED BY <2>1, ReliedOn
<1>9. Along(s, data, w)
  <2>1. s.start = -1 => Len(data) = 0 /\ Offset(s.start) = 0
    BY <1>3 DEF Offset
  <2> DEFINE from == Offset(s.start)
  <2>2. from \in Nat
    BY <1>4
  <2> HIDE DEF from
  <2>3. Ordered(from, from, 0, s.start = -1, <<>>, data, w)
    BY <2>1, <2>2 DEF Ordered, from
  <2> QED BY <2>3, <1>4 DEF Along, from
<1>10. Sound(s, objects', w)
  <2>1. WriterHolds(s, objects', w) /\ InOrder(s, objects', w)
    BY <1>3, <1>7, <1>9 DEF WriterHolds, InOrder
  <2>2. Fresh(s) /\ Named(s) /\ Flushed(s)
    BY <1>3 DEF Fresh, Named, Flushed
  <2>3. WholeTemp(s, objects', w) /\ TempKept(s, objects')
    BY <1>3 DEF WholeTemp, TempKept
  <2>4. Len(s.container) <= TxBuffer
    BY <1>4, SizeAssumption
  <2> QED BY <1>3, <2>1, <2>2, <2>3, <2>4 DEF Sound
<1>11. \A v \in Worker \ {w} :
         s.phase \in Written /\ stream[v].phase \in Written
           /\ s.write_path \in Temp => stream[v].write_path # s.write_path
  BY <1>3 DEF Relies
<1>12. s \in Stream \cup {Idle} /\ (s = Idle \/ Sound(s, objects', w))
  BY <1>3, <1>10
<1> HIDE DEF o
<1> QED BY <1>2, <1>6, <1>8, <1>11, <1>12, StreamStep

LEMMA OpenExistingKeeps ==
  ASSUME IInv, NEW w \in Worker, OpenExisting(w)
  PROVE  IInv'
<1> DEFINE p == stream[w].path
           data == IF stream[w].start = -1 THEN <<>> ELSE objects[p].data
<1>1. /\ stream[w].phase = "found" /\ Unlinkable(p) /\ Opened(w, p, data)
      /\ objects[p].there
  BY DEF OpenExisting, Unlinkable
<1>2. p \in Object
  BY <1>1, Types DEF Stream
<1>3. data \in Seq(Byte)
  <2>1. objects[p] \in Stored \cup {Absent}
    BY <1>2, Types DEF Name
  <2>2. objects[p].data \in Seq(Byte)
    BY <2>1, <1>1, ThereIsStored
  <2> QED BY <2>2
<1>4. \A v \in Worker : Relies(stream[v]) => stream[v].write_path # p
  BY <1>1, <1>2, NobodyOpen
<1>5. stream[w].start = -1 => data = <<>>
  OBVIOUS
<1> HIDE DEF data
<1> QED BY <1>1, <1>2, <1>3, <1>4, <1>5, OpenedKeeps DEF Name

LEMMA OpenNewKeeps ==
  ASSUME IInv, NEW w \in Worker, OpenNew(w)
  PROVE  IInv'
<1> DEFINE p == stream[w].path
<1>1. /\ stream[w].phase = "found" /\ ~ objects[p].there
      /\ Opened(w, p, <<>>)
  BY DEF OpenNew
<1>2. p \in Name
  BY <1>1, Types DEF Stream, Name
<1>3. \A v \in Worker : Relies(stream[v]) => stream[v].write_path # p
  BY <1>1, NotThere
<1>4. <<>> \in Seq(Byte)
  OBVIOUS
<1> QED BY <1>1, <1>2, <1>3, <1>4, OpenedKeeps

LEMMA OpenTempKeeps ==
  ASSUME IInv, NEW w \in Worker, NEW t \in Temp, OpenTemp(w, t)
  PROVE  IInv'
<1>1. /\ stream[w].phase = "found" /\ stream[w].tmpfile
      /\ ~ objects[t].there /\ Opened(w, t, <<>>)
  BY DEF OpenTemp
<1>2. stream[w].start = -1
  BY <1>1, Types DEF Sound, Fresh
<1>3. \A v \in Worker : Relies(stream[v]) => stream[v].write_path # t
  BY <1>1, NotThere
<1>4. <<>> \in Seq(Byte) /\ t \in Name
  BY DEF Name
<1> QED BY <1>1, <1>2, <1>3, <1>4, OpenedKeeps

\* What a write call leaves, whether or not all of it arrives.
LEMMA WriteLeaves ==
  ASSUME IInv, NEW w \in Worker, stream[w].phase \in Writing,
         NEW b \in Seq(Byte), NEW n \in 0 .. Len(b), RodsWrite(w, b, n)
  PROVE  LET q == stream[w].write_path
         IN  /\ q \in Name /\ objects[q] \in Stored
             /\ objects' \in [Name -> Stored \cup {Absent}]
             /\ objects'[q].there /\ objects'[q].writer = w
             /\ objects'[q].data = Overwrite(objects[q].data, stream[w].pos,
                                             SubSeq(b, 1, n))
             /\ \A p \in Name : p # q => objects'[p] = objects[p]
             /\ \A v \in Worker \ {w} : Relies(stream[v]) =>
                  objects'[stream[v].write_path]
                    = objects[stream[v].write_path]
<1> DEFINE q == stream[w].write_path
           data == Overwrite(objects[q].data, stream[w].pos, SubSeq(b, 1, n))
           o == [objects[q] EXCEPT !.data = data]
<1>1. /\ stream[w].phase # "idle"
      /\ stream[w] \in Stream /\ Sound(stream[w], objects, w)
  BY Types DEF Writing
<1>2. q \in Name /\ stream[w].pos \in Nat
  BY <1>1 DEF Stream, Name
<1>3. objects[q].there /\ objects[q].writer = w
  BY <1>1 DEF Sound, WriterHolds
<1>4. objects[q] \in Stored
  BY <1>2, <1>3, Types DEF Absent
<1>5. SubSeq(b, 1, n) \in Seq(Byte)
  OBVIOUS
<1>6. data \in Seq(Byte)
  <2>1. objects[q].data \in Seq(Byte)
    BY <1>4 DEF Stored
  <2> QED BY <2>1, <1>2, <1>5, OverwriteIs
<1>7. objects' = [objects EXCEPT ![q] = o]
  BY <1>2, Types DEF RodsWrite
<1> HIDE DEF data
<1>8. o \in Stored /\ o.there /\ o.writer = w /\ o.data = data
  BY <1>3, <1>4, <1>6 DEF Stored
<1> HIDE DEF o
<1>9. /\ objects' \in [Name -> Stored \cup {Absent}] /\ objects'[q] = o
      /\ \A p \in Name : p # q => objects'[p] = objects[p]
  BY <1>2, <1>7, <1>8, Types
<1>10. \A v \in Worker \ {w} : Relies(stream[v]) =>
         stream[v].write_path # q /\ stream[v].write_path \in Name
  BY <1>3, OwnOpen, ReliedOn
<1> QED BY <1>2, <1>4, <1>8, <1>9, <1>10 DEF data


\* An object stays in order when the upload reads k bytes, sends some of what
\* it holds and keeps the rest.
LEMMA AlongAdvances ==
  ASSUME NEW s \in Stream, NEW d \in Seq(Byte), NEW w \in Worker,
         Along(s, d, w), NEW k \in Nat,
         NEW sent \in Seq(Byte), NEW kept \in Seq(Byte), NEW o \in Seq(Byte),
         sent \o kept = s.container \o Bytes(w, s.got + 1, s.got + k),
         o = IF sent = <<>> THEN d ELSE Overwrite(d, s.pos, sent),
         NEW t, t.start = s.start, t.pos = s.pos + Len(sent),
         t.got = s.got + k, t.container = kept
  PROVE  Along(t, o, w)
<1> DEFINE got == s.got
           pos == s.pos
           c == s.container
           input == Bytes(w, got + 1, got + k)
           from == Offset(s.start)
           whole == s.start = -1
<1>1. got \in Nat /\ pos \in Nat /\ c \in Seq(Byte)
  BY SizeAssumption DEF Stream
<1>2. from \in Nat
  BY SizeAssumption DEF Stream, Offset
<1>3. /\ input \in Seq(Byte) /\ Len(input) = k
      /\ \A i \in 1 .. k : input[i] = <<w, got + i>>
  BY <1>1, BytesOf
<1>4. Ordered(from, pos, got, whole, c, d, w)
  BY DEF Along
<1>5. /\ sent \o kept = c \o input
      /\ o = IF sent = <<>> THEN d ELSE Overwrite(d, pos, sent)
  OBVIOUS
<1> HIDE DEF input, from, whole, got, pos, c
<1>6. Ordered(from, pos + Len(sent), got + k, whole, kept, o, w)
  BY <1>1, <1>2, <1>3, <1>4, <1>5, InOrderAdvances
<1> QED BY <1>6 DEF Along, from, whole, got, pos

\* The upload reads k bytes and sends, and goes on in a phase in which it has
\* its object open.
LEMMA SendsKeep ==
  ASSUME IInv, NEW w \in Worker, stream[w].phase \in {"open", "failed"},
         NEW phase \in {"open", "commit", "rollback"}, NEW k \in Nat,
         NEW sent \in Seq(Byte), NEW kept \in Seq(Byte),
         stream[w].got + k <= BodyLength, Len(kept) <= TxBuffer,
         phase # "rollback" =>
           /\ stream[w].phase = "open"
           /\ sent \o kept = stream[w].container
                \o Bytes(w, stream[w].got + 1, stream[w].got + k),
         phase = "commit" => kept = <<>> /\ stream[w].got + k = BodyLength,
         IF sent = <<>> THEN UNCHANGED objects
         ELSE RodsWrite(w, sent, Len(sent)),
         stream' = [stream EXCEPT ![w] =
           [stream[w] EXCEPT !.phase = phase, !.got = @ + k,
                             !.pos = @ + Len(sent), !.container = kept]]
  PROVE  IInv'
<1> DEFINE s == stream[w]
           q == s.write_path
           d == objects[q].data
           t == [s EXCEPT !.phase = phase, !.got = @ + k,
                          !.pos = @ + Len(sent), !.container = kept]
<1>1. s \in Stream /\ Sound(s, objects, w)
  BY Types
<1>2. /\ t.phase = phase /\ t.got = s.got + k /\ t.pos = s.pos + Len(sent)
      /\ t.container = kept /\ t.start = s.start /\ t.path = s.path
      /\ t.write_path = q
  BY <1>1 DEF Stream
<1>3. t \in Stream
  <2>1. s.got + k \in 0 .. BodyLength /\ s.pos + Len(sent) \in Nat
    BY <1>1, SizeAssumption DEF Stream
  <2> QED BY <1>1, <2>1 DEF Stream
<1>4. q \in Name /\ objects[q].there /\ objects[q].writer = w
  BY <1>1 DEF Stream, Name, Sound, WriterHolds, Writing
<1>5. objects[q] \in Stored /\ d \in Seq(Byte)
  BY <1>4, Types, ThereIsStored
<1>6. /\ objects' \in [Name -> Stored \cup {Absent}]
      /\ objects'[q].there /\ objects'[q].writer = w
      /\ objects'[q].data = IF sent = <<>> THEN d
                            ELSE Overwrite(d, s.pos, sent)
      /\ \A v \in Worker \ {w} : Relies(stream[v]) =>
           objects'[stream[v].write_path] = objects[stream[v].write_path]
  <2>1. CASE sent = <<>>
    BY <2>1, <1>4, Types
  <2>2. CASE sent # <<>>
    <3>1. SubSeq(sent, 1, Len(sent)) = sent
      OBVIOUS
    <3>2. RodsWrite(w, sent, Len(sent)) /\ Len(sent) \in 0 .. Len(sent)
      BY <2>2
    <3>3. s.phase \in Writing
      BY DEF Writing
    <3>4. /\ objects' \in [Name -> Stored \cup {Absent}]
          /\ objects'[q].there /\ objects'[q].writer = w
          /\ objects'[q].data = Overwrite(objects[q].data, s.pos,
                                         SubSeq(sent, 1, Len(sent)))
          /\ \A v \in Worker \ {w} : Relies(stream[v]) =>
               objects'[stream[v].write_path]
                 = objects[stream[v].write_path]
      BY <3>2, <3>3, WriteLeaves
    <3> QED BY <3>1, <3>4, <2>2
  <2> QED BY <2>1, <2>2
<1>7. objects'[q].data \in Seq(Byte)
  BY <1>4, <1>6, ThereIsStored
<1> HIDE DEF t
<1>8. InOrder(t, objects', w)
  <2> SUFFICES ASSUME phase # "rollback"
               PROVE  Along(t, objects'[q].data, w)
    BY <1>2 DEF InOrder
  <2>1. Along(s, d, w)
    BY <1>1 DEF Sound, InOrder
  <2>2. sent \o kept = s.container \o Bytes(w, s.got + 1, s.got + k)
    OBVIOUS
  <2> HIDE DEF d, s
  <2> QED BY <1>1, <1>2, <1>5, <1>6, <1>7, <2>1, <2>2, AlongAdvances
<1>9. WriterHolds(t, objects', w) /\ Flushed(t)
  BY <1>2, <1>6 DEF WriterHolds, Flushed
<1>10. Fresh(t) /\ Named(t) /\ WholeTemp(t, objects', w)
       /\ TempKept(t, objects') /\ Len(t.container) <= TxBuffer
  BY <1>1, <1>2 DEF Sound, Fresh, Named, WholeTemp, TempKept
<1>11. Sound(t, objects', w)
  BY <1>3, <1>8, <1>9, <1>10 DEF Sound
<1>12. \A v \in Worker \ {w} :
         t.phase \in Written /\ stream[v].phase \in Written
           /\ t.write_path \in Temp => stream[v].write_path # t.write_path
  <2>1. s.phase \in Written
    BY DEF Written, Writing
  <2> QED BY <1>2, <2>1, StaysApart
<1>13. stream' = [stream EXCEPT ![w] = t]
  BY DEF t
<1>14. t \in Stream \cup {Idle} /\ (t = Idle \/ Sound(t, objects', w))
  BY <1>3, <1>11
<1> QED BY <1>6, <1>12, <1>13, <1>14, StreamStep

LEMMA WriteKeeps ==
  ASSUME IInv, NEW w \in Worker, NEW k \in 1 .. BodyLength, Write(w, k)
  PROVE  IInv'
<1> DEFINE s == stream[w]
           input == Bytes(w, s.got + 1, s.got + k)
           sent == Sends(s, input)
           kept == Container(s, input)
<1>1. /\ s.phase = "open" /\ s.got + k <= BodyLength
      /\ IF sent = <<>> THEN UNCHANGED objects
         ELSE RodsWrite(w, sent, Len(sent))
      /\ stream' = [stream EXCEPT ![w].got = @ + k, ![w].pos = @ + Len(sent),
                                  ![w].container = kept]
  BY DEF Write
<1>2. s \in Stream /\ Len(s.container) <= TxBuffer
  BY <1>1, Types DEF Sound
<1>3. k \in Nat /\ s.got \in Nat /\ input \in Seq(Byte)
  <2>1. k \in Nat /\ s.got \in Nat
    BY <1>2, SizeAssumption DEF Stream
  <2> QED BY <2>1, BytesOf
<1>4. /\ sent \in Seq(Byte) /\ kept \in Seq(Byte) /\ Len(kept) <= TxBuffer
      /\ sent \o kept = s.container \o input
  BY <1>2, <1>3, SendsAll
<1> HIDE DEF sent, kept
<1>5. stream' = [stream EXCEPT ![w] =
        [s EXCEPT !.phase = "open", !.got = @ + k,
                  !.pos = @ + Len(sent), !.container = kept]]
  <2>1. stream \in [Worker -> Stream \cup {Idle}]
    BY Types
  <2>2. s = [s EXCEPT !.phase = "open"]
    BY <1>1, <1>2 DEF Stream
  <2> QED BY <1>1, <1>2, <2>1, <2>2 DEF Stream
<1> QED BY <1>1, <1>3, <1>4, <1>5, SendsKeep

LEMMA FlushKeeps ==
  ASSUME IInv, NEW w \in Worker, Flush(w)
  PROVE  IInv'
<1> DEFINE s == stream[w]
           sent == s.container
           phase == IF s.phase = "open" /\ s.got = BodyLength
                    THEN "commit" ELSE "rollback"
<1>1. /\ s.phase \in {"open", "failed"}
      /\ IF sent = <<>> THEN UNCHANGED objects
         ELSE RodsWrite(w, sent, Len(sent))
      /\ stream' = [stream EXCEPT ![w].phase = phase, ![w].pos = @ + Len(sent),
                                  ![w].container = <<>>]
  BY DEF Flush
<1>2. s \in Stream
  BY <1>1, Types
<1>3. /\ sent \in Seq(Byte) /\ s.got \in Nat /\ s.got <= BodyLength
      /\ s.got + 0 = s.got /\ 0 \in Nat
  BY <1>2, SizeAssumption DEF Stream
<1>4. sent \o <<>> = s.container \o Bytes(w, s.got + 1, s.got + 0)
  <2>1. /\ Bytes(w, s.got + 1, s.got + 0) \in Seq(Byte)
        /\ Len(Bytes(w, s.got + 1, s.got + 0)) = 0
    BY <1>3, BytesOf
  <2>2. Bytes(w, s.got + 1, s.got + 0) = <<>>
    BY <2>1
  <2> QED BY <2>2
<1>5. <<>> \in Seq(Byte) /\ Len(<<>>) <= TxBuffer
  BY SizeAssumption
<1>6. stream' = [stream EXCEPT ![w] =
        [s EXCEPT !.phase = phase, !.got = @ + 0,
                  !.pos = @ + Len(sent), !.container = <<>>]]
  <2>1. stream \in [Worker -> Stream \cup {Idle}]
    BY Types
  <2> QED BY <1>1, <1>2, <1>3, <2>1 DEF Stream
<1>7. /\ phase \in {"open", "commit", "rollback"}
      /\ s.got + 0 <= BodyLength
      /\ phase = "commit" => <<>> = <<>> /\ s.got + 0 = BodyLength
  BY <1>3
<1>8. phase # "rollback" =>
        /\ s.phase = "open"
        /\ sent \o <<>> = s.container \o Bytes(w, s.got + 1, s.got + 0)
  BY <1>4
<1> HIDE DEF phase, sent
<1> QED BY <1>1, <1>3, <1>5, <1>6, <1>7, <1>8, SendsKeep

\* A failed write leaves the upload with an object it has open, and nothing
\* to send.
LEMMA WriteFailsKeeps ==
  ASSUME IInv, NEW w \in Worker, NEW k \in 1 .. BodyLength, WriteFails(w, k)
  PROVE  IInv'
<1> DEFINE s == stream[w]
           q == s.write_path
           sent == Sends(s, Bytes(w, s.got + 1, s.got + k))
           t == [s EXCEPT !.phase = "failed", !.container = <<>>]
<1>1. /\ s.phase = "open" /\ \E n \in 0 .. Len(sent) : RodsWrite(w, sent, n)
      /\ stream' = [stream EXCEPT ![w].phase = "failed",
                                  ![w].container = <<>>]
  BY DEF WriteFails
<1>2. s \in Stream /\ Sound(s, objects, w)
  BY <1>1, Types
<1>3. sent \in Seq(Byte)
  <2>1. k \in Nat /\ s.got \in Nat
    BY <1>2, SizeAssumption DEF Stream
  <2>2. Bytes(w, s.got + 1, s.got + k) \in Seq(Byte)
    BY <2>1, BytesOf
  <2> QED BY <1>2, <2>2, SendsAll DEF Sound
<1> HIDE DEF sent
<1>4. /\ objects' \in [Name -> Stored \cup {Absent}]
      /\ objects'[q].there /\ objects'[q].writer = w
      /\ \A v \in Worker \ {w} : Relies(stream[v]) =>
           objects'[stream[v].write_path] = objects[stream[v].write_path]
  <2>1. PICK n \in 0 .. Len(sent) : RodsWrite(w, sent, n)
    BY <1>1
  <2>2. s.phase \in Writing
    BY <1>1 DEF Writing
  <2> QED BY <1>3, <2>1, <2>2, WriteLeaves
<1>5. /\ t \in Stream /\ t.phase = "failed" /\ t.container = <<>>
      /\ t.write_path = q /\ t.path = s.path /\ t.start = s.start
  <2>1. <<>> \in Seq(Byte)
    OBVIOUS
  <2> QED BY <1>2, <2>1 DEF Stream
<1>6. stream' = [stream EXCEPT ![w] = t]
  BY <1>1, <1>2, Types
<1> HIDE DEF t
<1>7. Sound(t, objects', w)
  <2>1. Len(t.container) <= TxBuffer
    BY <1>5, SizeAssumption
  <2> QED BY <1>2, <1>4, <1>5, <2>1
          DEF Sound, Fresh, Named, Flushed, WriterHolds, InOrder, WholeTemp,
              TempKept
<1>8. \A v \in Worker \ {w} :
        t.phase \in Written /\ stream[v].phase \in Written
          /\ t.write_path \in Temp => stream[v].write_path # t.write_path
  <2>1. s.phase \in Written
    BY <1>1 DEF Written, Writing
  <2> QED BY <1>5, <2>1, StaysApart
<1>9. t \in Stream \cup {Idle} /\ (t = Idle \/ Sound(t, objects', w))
  BY <1>5, <1>7
<1> QED BY <1>4, <1>6, <1>8, <1>9, StreamStep

\* So does a failed seek, which sends nothing.
LEMMA SeekFailsKeeps ==
  ASSUME IInv, NEW w \in Worker, SeekFails(w)
  PROVE  IInv'
<1> DEFINE s == stream[w]
           q == s.write_path
           t == [s EXCEPT !.phase = "failed"]
<1>1. /\ s.phase = "open" /\ UNCHANGED objects
      /\ stream' = [stream EXCEPT ![w].phase = "failed"]
  BY DEF SeekFails, Go
<1>2. s \in Stream /\ Sound(s, objects, w)
  BY <1>1, Types
<1>3. /\ objects' \in [Name -> Stored \cup {Absent}]
      /\ \A v \in Worker \ {w} : Relies(stream[v]) =>
           objects'[stream[v].write_path] = objects[stream[v].write_path]
  BY <1>1, Types
<1>4. /\ t \in Stream /\ t.phase = "failed" /\ t.container = s.container
      /\ t.write_path = q /\ t.path = s.path /\ t.start = s.start
  BY <1>2 DEF Stream
<1>5. stream' = [stream EXCEPT ![w] = t]
  BY <1>1, <1>2, Types
<1> HIDE DEF t
<1>6. Sound(t, objects', w)
  <2>1. /\ s.phase \in Writing
        /\ Len(s.container) <= TxBuffer /\ Named(s) /\ WriterHolds(s, objects, w)
    BY <1>1, <1>2 DEF Sound, Writing
  <2>2. objects[q].there /\ objects[q].writer = w
    BY <2>1 DEF WriterHolds
  <2>3. Named(t)
    BY <1>4, <2>1 DEF Named
  <2> QED BY <1>1, <1>4, <2>1, <2>2, <2>3
          DEF Sound, Fresh, Flushed, WriterHolds, InOrder, WholeTemp, TempKept
<1>7. \A v \in Worker \ {w} :
        t.phase \in Written /\ stream[v].phase \in Written
          /\ t.write_path \in Temp => stream[v].write_path # t.write_path
  <2>1. s.phase \in Written
    BY <1>1 DEF Written, Writing
  <2> QED BY <1>4, <2>1, StaysApart
<1>8. t \in Stream \cup {Idle} /\ (t = Idle \/ Sound(t, objects', w))
  BY <1>4, <1>6
<1> QED BY <1>3, <1>5, <1>7, <1>8, StreamStep

LEMMA FlushFailsKeeps ==
  ASSUME IInv, NEW w \in Worker, FlushFails(w)
  PROVE  IInv'
<1> DEFINE b == stream[w].container
<1>1. /\ stream[w].phase \in Writing /\ stream[w].phase # "idle" /\ End(w)
      /\ \E n \in 0 .. Len(b) : RodsWrite(w, b, n)
  BY DEF FlushFails, Writing
<1>2. b \in Seq(Byte)
  BY <1>1, Types DEF Stream
<1>3. PICK n \in 0 .. Len(b) : RodsWrite(w, b, n)
  BY <1>1
<1> HIDE DEF b
<1>4. /\ objects' \in [Name -> Stored \cup {Absent}]
      /\ \A v \in Worker \ {w} : Relies(stream[v]) =>
           objects'[stream[v].write_path] = objects[stream[v].write_path]
  BY <1>1, <1>2, <1>3, WriteLeaves
<1> QED BY <1>1, <1>4, Ends

LEMMA SameBytes ==
  ASSUME NEW a \in Seq(Byte), NEW b \in Seq(Byte), NEW n \in Nat,
         Len(a) = n, Len(b) = n, \A i \in 1 .. n : a[i] = b[i]
  PROVE  a = b
OBVIOUS

\* What is flushed at the end of the body is the body, at the offset where
\* the PUT started.
LEMMA CommittedIs ==
  ASSUME NEW w \in Worker, NEW s \in Stream, NEW d \in Seq(Byte),
         Along(s, d, w), s.container = <<>>, s.got = BodyLength
  PROVE  LET from == Offset(s.start)
         IN  /\ Len(d) >= from + BodyLength
             /\ SubSeq(d, from + 1, from + BodyLength) = Body(w)
             /\ s.start = -1 => Len(d) = BodyLength /\ d = Body(w)
<1> DEFINE from == Offset(s.start)
           n == BodyLength
           part == SubSeq(d, from + 1, from + n)
<1>1. from \in Nat /\ n \in Nat /\ n > 0 /\ s.pos \in Nat /\ Len(d) \in Nat
  <2>1. s.start \in Starts \cup {-1} /\ s.pos \in Nat
    BY DEF Stream
  <2>2. from \in Nat
    BY <2>1, SizeAssumption DEF Offset
  <2> QED BY <2>1, <2>2, SizeAssumption
<1>2. /\ s.pos >= from /\ s.pos + 0 = from + n
      /\ s.pos > from => Len(d) >= s.pos
      /\ s.start = -1 => Len(d) = s.pos
      /\ \A i \in from + 1 .. s.pos : d[i] = <<w, i - from>>
  BY DEF Along, Ordered
<1>3. s.start = -1 => from = 0
  BY DEF Offset
<1>4. /\ Body(w) \in Seq(Byte) /\ Len(Body(w)) = n
      /\ \A i \in 1 .. n : Body(w)[i] = <<w, i>>
  <2>1. LET b == Bytes(w, 0 + 1, 0 + n)
        IN  /\ b \in Seq(Byte) /\ Len(b) = n
            /\ \A i \in 1 .. n : b[i] = <<w, 0 + i>>
    <3>1. 0 \in Nat /\ n \in Nat /\ w \in Worker \cup {NoWorker}
      BY <1>1
    <3> HIDE DEF n
    <3> QED BY <3>1, BytesOf
  <2>2. Body(w) = Bytes(w, 0 + 1, 0 + n)
    BY <1>1 DEF Body
  <2>3. \A i \in 1 .. n : 0 + i = i
    BY <1>1
  <2> QED BY <2>1, <2>2, <2>3
<1> HIDE DEF from, n
<1>5. s.pos = from + n /\ Len(d) >= from + n
  BY <1>1, <1>2
<1>6. ASSUME NEW i \in 1 .. n PROVE d[from + i] = <<w, i>>
  <2>1. from + i \in from + 1 .. s.pos /\ (from + i) - from = i
    BY <1>1, <1>5
  <2> QED BY <2>1, <1>2
<1>7. part = Body(w)
  <2>1. /\ part \in Seq(Byte) /\ Len(part) = n
        /\ \A i \in 1 .. n : part[i] = d[from + i]
    <3>1. (from + n) - (from + 1) + 1 = n
      BY <1>1
    <3>2. \A i \in 1 .. n : (from + 1) + i - 1 = from + i
      BY <1>1
    <3> QED BY <1>1, <1>5, <3>1, <3>2
  <2> HIDE DEF part
  <2>2. \A i \in 1 .. n : part[i] = Body(w)[i]
    BY <1>4, <1>6, <2>1
  <2> QED BY <1>1, <1>4, <2>1, <2>2, SameBytes
<1>8. s.start = -1 => Len(d) = n /\ d = Body(w)
  <2> SUFFICES ASSUME s.start = -1 PROVE Len(d) = n /\ d = Body(w)
    OBVIOUS
  <2>1. from = 0 /\ Len(d) = n
    BY <1>1, <1>2, <1>3, <1>5
  <2>2. \A i \in 1 .. n : d[i] = <<w, i>>
    <3> TAKE i \in 1 .. n
    <3>1. from + i = i
      BY <1>1, <2>1
    <3> QED BY <1>6, <3>1
  <2>3. \A i \in 1 .. n : d[i] = Body(w)[i]
    BY <2>2, <1>4
  <2> QED BY <1>1, <1>4, <2>1, <2>3, SameBytes
<1> QED BY <1>5, <1>7, <1>8 DEF from, n

\* Closing an object of one's own changes no other's.
LEMMA ClosedIs ==
  ASSUME IInv, NEW w \in Worker, stream[w].phase \in Writing,
         objects' = [objects EXCEPT ![stream[w].write_path].writer = NoWorker]
  PROVE  LET q == stream[w].write_path
         IN  /\ q \in Name
             /\ objects' \in [Name -> Stored \cup {Absent}]
             /\ objects'[q].there /\ objects'[q].writer = NoWorker
             /\ objects[q].data \in Seq(Byte)
             /\ objects'[q].data = objects[q].data
             /\ \A v \in Worker \ {w} : Relies(stream[v]) =>
                  objects'[stream[v].write_path]
                    = objects[stream[v].write_path]
<1> DEFINE q == stream[w].write_path
           o == [objects[q] EXCEPT !.writer = NoWorker]
<1>1. /\ stream[w].phase # "idle"
      /\ stream[w] \in Stream /\ Sound(stream[w], objects, w)
  BY Types DEF Writing
<1>2. q \in Name /\ objects[q].there /\ objects[q].writer = w
  BY <1>1 DEF Stream, Name, Sound, WriterHolds
<1>3. objects[q] \in Stored /\ objects[q].data \in Seq(Byte)
  BY <1>2, Types, ThereIsStored
<1>4. objects' = [objects EXCEPT ![q] = o]
  BY <1>2, Types
<1>5. /\ o \in Stored /\ o.there /\ o.writer = NoWorker
      /\ o.data = objects[q].data
  BY <1>3 DEF Stored
<1> HIDE DEF o
<1>6. /\ objects' \in [Name -> Stored \cup {Absent}] /\ objects'[q] = o
      /\ \A p \in Name : p # q => objects'[p] = objects[p]
  BY <1>2, <1>4, <1>5, Types
<1>7. \A v \in Worker \ {w} : Relies(stream[v]) =>
        stream[v].write_path # q /\ stream[v].write_path \in Name
  BY <1>2, OwnOpen, ReliedOn
<1> QED BY <1>2, <1>3, <1>5, <1>6, <1>7

\* What a commit finds in the object it wrote.
LEMMA AtCommit ==
  ASSUME IInv, NEW w \in Worker, stream[w].phase = "commit"
  PROVE  LET s == stream[w]
             d == objects[s.write_path].data
             from == Offset(s.start)
         IN  /\ d \in Seq(Byte)
             /\ Len(d) >= from + BodyLength
             /\ SubSeq(d, from + 1, from + BodyLength) = Body(w)
             /\ s.start = -1 => Len(d) = BodyLength /\ d = Body(w)
<1> DEFINE s == stream[w]
           d == objects[s.write_path].data
<1>1. s \in Stream /\ Sound(s, objects, w)
  BY Types
<1>2. s.container = <<>> /\ s.got = BodyLength /\ Along(s, d, w)
  BY <1>1 DEF Sound, Flushed, InOrder
<1>3. d \in Seq(Byte)
  <2>1. s.write_path \in Name /\ objects[s.write_path].there
    BY <1>1 DEF Stream, Name, Sound, WriterHolds, Writing
  <2> QED BY <2>1, Types, ThereIsStored
<1> HIDE DEF s, d
<1>4. LET from == Offset(s.start)
      IN  /\ Len(d) >= from + BodyLength
          /\ SubSeq(d, from + 1, from + BodyLength) = Body(w)
          /\ s.start = -1 => Len(d) = BodyLength /\ d = Body(w)
  BY <1>1, <1>2, <1>3, CommittedIs
<1> QED BY <1>3, <1>4 DEF s, d

LEMMA CloseKeeps ==
  ASSUME IInv, NEW w \in Worker, Close(w)
  PROVE  IInv'
<1> DEFINE s == stream[w]
           q == s.write_path
<1>1. /\ s.phase \in {"commit", "rollback"}
      /\ objects' = [objects EXCEPT ![q].writer = NoWorker]
  BY DEF Close
<1>2. \/ End(w)
      \/ \E phase \in {"replace", "rename", "unlink", "ok"} :
           /\ Go(w, phase)
           /\ phase \in {"replace", "rename"} =>
                s.phase = "commit" /\ q # s.path
  BY <1>1 DEF Close
<1>3. s \in Stream /\ Sound(s, objects, w) /\ s.phase # "idle"
      /\ s.phase \in Writing /\ s.phase \in Written
  BY <1>1, Types DEF Writing, Written
<1>4. /\ objects' \in [Name -> Stored \cup {Absent}]
      /\ objects'[q].there /\ objects'[q].writer = NoWorker
      /\ objects'[q].data = objects[q].data
      /\ \A v \in Worker \ {w} : Relies(stream[v]) =>
           objects'[stream[v].write_path] = objects[stream[v].write_path]
  BY <1>1, <1>3, ClosedIs
<1>5. CASE End(w)
  BY <1>4, <1>5, Ends
<1>6. ASSUME NEW phase \in {"replace", "rename", "unlink", "ok"},
             Go(w, phase),
             phase \in {"replace", "rename"} =>
               s.phase = "commit" /\ q # s.path
      PROVE  IInv'
  <2>1. phase \in {"replace", "rename"} =>
          q \in Temp /\ objects'[q].data = Body(w)
    <3> SUFFICES ASSUME phase \in {"replace", "rename"}
                 PROVE  q \in Temp /\ objects'[q].data = Body(w)
      OBVIOUS
    <3>1. s.phase = "commit" /\ q # s.path
      BY <1>6
    <3>2. q \in Temp /\ s.start = -1
      BY <1>3, <3>1 DEF Sound, Named
    <3>3. objects[q].data = Body(w)
      BY <3>1, <3>2, AtCommit
    <3> QED BY <3>2, <3>3, <1>4
  <2> QED BY <1>3, <1>4, <1>6, <2>1, GoesOn
<1> QED BY <1>2, <1>5, <1>6

LEMMA CloseFailsKeeps ==
  ASSUME IInv, NEW w \in Worker, CloseFails(w)
  PROVE  IInv'
<1>1. /\ stream[w].phase \in Writing /\ End(w)
      /\ \/ objects' = [objects EXCEPT ![stream[w].write_path].writer
                                         = NoWorker]
         \/ UNCHANGED objects
  BY DEF CloseFails, Writing
<1>2. /\ objects' \in [Name -> Stored \cup {Absent}]
      /\ \A v \in Worker \ {w} : Relies(stream[v]) =>
           objects'[stream[v].write_path] = objects[stream[v].write_path]
  <2>1. CASE UNCHANGED objects
    BY <2>1, Types
  <2>2. CASE objects' = [objects EXCEPT ![stream[w].write_path].writer
                                          = NoWorker]
    BY <1>1, <2>2, ClosedIs
  <2> QED BY <1>1, <2>1, <2>2
<1> QED BY <1>1, <1>2, Ends

\* Removing an object that nobody has open, or a temporary file of one's own,
\* changes nothing that another upload relies on.
LEMMA UnlinkedIs ==
  ASSUME IInv, NEW q \in Name, Unlinkable(q), objects' = Unlinked(q),
         NEW w \in Worker,
         q \in Object \/ (q \in Temp /\ stream[w].phase \in Written
                          /\ stream[w].write_path = q)
  PROVE  /\ objects' \in [Name -> Stored \cup {Absent}]
         /\ \A p \in Name \ {q} : objects'[p] = objects[p]
         /\ \A v \in Worker \ {w} : Relies(stream[v]) =>
              objects'[stream[v].write_path] = objects[stream[v].write_path]
<1>1. /\ objects' \in [Name -> Stored \cup {Absent}]
      /\ \A p \in Name \ {q} : objects'[p] = objects[p]
  BY Types DEF Unlinked
<1>2. ASSUME NEW v \in Worker \ {w}, Relies(stream[v])
      PROVE  stream[v].write_path # q
  <2>1. CASE q \in Object
    BY <1>2, <2>1, NobodyOpen
  <2>2. CASE q \in Temp /\ stream[w].phase \in Written
             /\ stream[w].write_path = q
    <3>1. stream[v].phase \in Written
      BY <1>2 DEF Relies, Written
    <3> QED BY <2>2, <3>1, StaysApart
  <2> QED BY <2>1, <2>2
<1> QED BY <1>1, <1>2, ReliedOn

LEMMA ReplaceKeeps ==
  ASSUME IInv, NEW w \in Worker, Replace(w)
  PROVE  IInv'
<1> DEFINE s == stream[w]
           q == s.write_path
<1>1. /\ s.phase = "replace" /\ Unlinkable(s.path)
      /\ objects' = Unlinked(s.path) /\ Go(w, "rename")
  BY DEF Replace
<1>2. /\ s \in Stream /\ s.path \in Object /\ s.path \in Name /\ q \in Name
      /\ s.phase # "idle" /\ s.phase \in Written
  BY <1>1, Types DEF Stream, Name, Written
<1>3. /\ q \in Temp /\ objects[q].data = Body(w)
      /\ objects[q].there /\ objects[q].writer = NoWorker
  BY <1>1, Types DEF Sound, WholeTemp, TempKept
<1>4. s.path # q
  BY <1>2, <1>3, PathAssumption
<1>5. /\ objects' \in [Name -> Stored \cup {Absent}]
      /\ objects'[q] = objects[q]
      /\ \A v \in Worker \ {w} : Relies(stream[v]) =>
           objects'[stream[v].write_path] = objects[stream[v].write_path]
  BY <1>1, <1>2, <1>4, UnlinkedIs
<1> QED BY <1>1, <1>2, <1>3, <1>5, GoesOn

\* A rename is of a whole temporary file onto a path where nothing is.
LEMMA RenameIs ==
  ASSUME IInv, NEW w \in Worker, Rename(w)
  PROVE  LET s == stream[w]
             q == s.write_path
         IN  /\ s.phase = "rename" /\ s \in Stream /\ s.start = -1
             /\ s.path \in Name /\ q \in Temp /\ s.path # q
             /\ objects' \in [Name -> Stored \cup {Absent}]
             /\ objects'[s.path].there
             /\ objects'[s.path].data = Body(w)
             /\ objects'[q] = Absent
             /\ \A p \in Name \ {q, s.path} : objects'[p] = objects[p]
             /\ \A v \in Worker \ {w} : Relies(stream[v]) =>
                  objects'[stream[v].write_path]
                    = objects[stream[v].write_path]
<1> DEFINE s == stream[w]
           q == s.write_path
<1>1. /\ s.phase = "rename" /\ ~ objects[s.path].there
      /\ objects' = [objects EXCEPT ![s.path] = objects[q], ![q] = Absent]
  BY DEF Rename
<1>2. s \in Stream /\ Sound(s, objects, w) /\ s.phase \in Written
  BY <1>1, Types DEF Written
<1>3. /\ s.path \in Object /\ s.path \in Name /\ q \in Name
      /\ q \in Temp /\ objects[q].data = Body(w) /\ objects[q].there
  BY <1>1, <1>2 DEF Stream, Name, Sound, WholeTemp, TempKept
<1>4. s.path # q /\ s.start = -1
  BY <1>2, <1>3, PathAssumption DEF Sound, Named
<1>5. /\ objects' \in [Name -> Stored \cup {Absent}]
      /\ objects'[s.path] = objects[q] /\ objects'[q] = Absent
      /\ \A p \in Name \ {q, s.path} : objects'[p] = objects[p]
  <2> DEFINE path == s.path
             o == objects[q]
  <2>1. objects' = [objects EXCEPT ![path] = o, ![q] = Absent]
    BY <1>1
  <2>2. /\ path \in Name /\ q \in Name /\ path # q
        /\ o \in Stored \cup {Absent}
    BY <1>3, <1>4, Types
  <2> HIDE DEF path, q, o
  <2>3. /\ objects' \in [Name -> Stored \cup {Absent}]
        /\ objects'[path] = o /\ objects'[q] = Absent
        /\ \A p \in Name \ {q, path} : objects'[p] = objects[p]
    BY <2>1, <2>2, Types
  <2> QED BY <2>3 DEF path, o
<1>6. ASSUME NEW v \in Worker \ {w}, Relies(stream[v])
      PROVE  stream[v].write_path # q /\ stream[v].write_path # s.path
  <2>1. stream[v].phase \in Written
    BY <1>6 DEF Relies, Written
  <2>2. stream[v].write_path # q
    BY <1>2, <1>3, <2>1, StaysApart
  <2>3. stream[v].write_path # s.path
    BY <1>1, <1>6, NotThere
  <2> QED BY <2>2, <2>3
<1> QED BY <1>1, <1>2, <1>3, <1>4, <1>5, <1>6, ReliedOn

LEMMA RenameKeeps ==
  ASSUME IInv, NEW w \in Worker, Rename(w)
  PROVE  IInv'
<1>1. /\ stream[w].phase # "idle" /\ stream[w].phase \in Written
      /\ Go(w, "ok")
      /\ objects' \in [Name -> Stored \cup {Absent}]
      /\ \A v \in Worker \ {w} : Relies(stream[v]) =>
           objects'[stream[v].write_path] = objects[stream[v].write_path]
  BY RenameIs DEF Rename, Written
<1> QED BY <1>1, GoesOn

LEMMA UnlinkKeeps ==
  ASSUME IInv, NEW w \in Worker, Unlink(w)
  PROVE  IInv'
<1> DEFINE q == stream[w].write_path
<1>1. /\ stream[w].phase = "unlink" /\ End(w)
      /\ (Unlinkable(q) /\ objects' = Unlinked(q)) \/ UNCHANGED objects
  BY DEF Unlink
<1>2. q \in Name /\ (q \in Object \/ q \in Temp)
      /\ stream[w].phase \in Written
  BY <1>1, Types DEF Stream, Name, Written
<1>3. /\ objects' \in [Name -> Stored \cup {Absent}]
      /\ \A v \in Worker \ {w} : Relies(stream[v]) =>
           objects'[stream[v].write_path] = objects[stream[v].write_path]
  <2>1. CASE UNCHANGED objects
    BY <2>1, Types
  <2>2. CASE Unlinkable(q) /\ objects' = Unlinked(q)
    BY <1>2, <2>2, UnlinkedIs
  <2> QED BY <1>1, <2>1, <2>2
<1> QED BY <1>1, <1>3, Ends

\* The steps that end an upload and change no object.
LEMMA EndKeeps ==
  ASSUME IInv, NEW w \in Worker, End(w), UNCHANGED objects
  PROVE  IInv'
BY Types, Ends

LEMMA DisconnectKeeps ==
  ASSUME IInv, NEW w \in Worker, Disconnect(w)
  PROVE  IInv'
<1>1. objects' = Released(w) /\ End(w)
  BY DEF Disconnect
<1>2. ASSUME NEW p \in Name
      PROVE  /\ objects'[p] \in Stored \cup {Absent}
             /\ ~ (objects[p].there /\ objects[p].writer = w) =>
                  objects'[p] = objects[p]
  <2>1. DOMAIN objects = Name /\ objects[p] \in Stored \cup {Absent}
    BY Types
  <2>2. objects'[p] = IF objects[p].there /\ objects[p].writer = w
                      THEN [objects[p] EXCEPT !.writer = NoWorker]
                      ELSE objects[p]
    BY <1>1, <2>1 DEF Released
  <2>3. CASE objects[p].there /\ objects[p].writer = w
    <3>1. objects[p] \in Stored
      BY <2>1, <2>3, ThereIsStored
    <3> QED BY <2>2, <2>3, <3>1 DEF Stored
  <2>4. CASE ~ (objects[p].there /\ objects[p].writer = w)
    BY <2>1, <2>2, <2>4
  <2> QED BY <2>3, <2>4
<1>3. objects' \in [Name -> Stored \cup {Absent}]
  <2>1. DOMAIN objects = Name
    BY Types
  <2>2. objects' = [p \in Name |-> objects'[p]]
    BY <1>1, <2>1 DEF Released
  <2> QED BY <1>2, <2>2
<1>4. ASSUME NEW v \in Worker \ {w}, Relies(stream[v])
      PROVE  objects'[stream[v].write_path] = objects[stream[v].write_path]
  <2>1. stream[v].phase # "idle"
    BY <1>4 DEF Relies, Written, Writing
  <2>2. stream[v].write_path \in Name
    BY <2>1, Types DEF Stream, Name
  <2>3. objects[stream[v].write_path].writer # w
    BY <1>4, OwnOpen
  <2> QED BY <1>2, <2>2, <2>3
<1> QED BY <1>1, <1>3, <1>4, Ends

LEMMA DeleteKeeps ==
  ASSUME IInv, NEW p \in Object, Delete(p)
  PROVE  IInv'
<1>1. Unlinkable(p) /\ objects' = Unlinked(p) /\ UNCHANGED stream
  BY DEF Delete
<1>2. /\ objects' \in [Name -> Stored \cup {Absent}]
      /\ \A q \in Name : q # p => objects'[q] = objects[q]
  <2>1. p \in Name
    BY DEF Name
  <2> QED BY <1>1, <2>1, Types DEF Unlinked
<1>3. ASSUME NEW v \in Worker, stream[v] # Idle
      PROVE  Sound(stream[v], objects', v)
  <2>1. Sound(stream[v], objects, v)
    BY <1>3 DEF IInv
  <2>2. Relies(stream[v]) =>
          objects'[stream[v].write_path] = objects[stream[v].write_path]
    BY <1>1, <1>2, NobodyOpen, ReliedOn
  <2> QED BY <2>1, <2>2, SoundFrame
<1>4. TypeOK'
  BY <1>1, <1>2 DEF IInv, TypeOK, Name
<1> QED BY <1>1, <1>3, <1>4 DEF IInv, TempsApart

LEMMA NextKeeps == IInv /\ [Next]_vars => IInv'
<1> SUFFICES ASSUME IInv, [Next]_vars PROVE IInv'
  OBVIOUS
<1>1. CASE UNCHANGED vars
  BY <1>1 DEF vars, IInv, TypeOK, TempsApart
<1>2. ASSUME NEW w \in Worker, NEW p \in Object,
             NEW start \in Starts \cup {-1}, NEW r \in Rollbacks,
             Put(w, p, start, r)
      PROVE  IInv'
  BY <1>2, PutKeeps
<1>3. ASSUME NEW w \in Worker, NEW t \in Temp, OpenTemp(w, t)
      PROVE  IInv'
  BY <1>3, OpenTempKeeps
<1>4. ASSUME NEW w \in Worker,
             OpenExisting(w) \/ OpenNew(w) \/ OpenFails(w) \/ SeekFails(w)
      PROVE  IInv'
  BY <1>4, OpenExistingKeeps, OpenNewKeeps, EndKeeps, SeekFailsKeeps
     DEF OpenFails
<1>5. ASSUME NEW w \in Worker, NEW k \in 1 .. BodyLength,
             Write(w, k) \/ WriteFails(w, k)
      PROVE  IInv'
  BY <1>5, WriteKeeps, WriteFailsKeeps
<1>6. ASSUME NEW w \in Worker,
             \/ Flush(w) \/ FlushFails(w) \/ Close(w) \/ CloseFails(w)
      PROVE  IInv'
  BY <1>6, FlushKeeps, FlushFailsKeeps, CloseKeeps, CloseFailsKeeps
<1>7. ASSUME NEW w \in Worker,
             \/ Replace(w) \/ Rename(w) \/ ReplaceFails(w) \/ Unlink(w)
             \/ Answer(w) \/ Disconnect(w)
      PROVE  IInv'
  BY <1>7, ReplaceKeeps, RenameKeeps, EndKeeps, UnlinkKeeps, DisconnectKeeps
     DEF ReplaceFails, Answer
<1>8. ASSUME NEW p \in Object, Delete(p) PROVE IInv'
  BY <1>8, DeleteKeeps
<1> QED BY <1>1, <1>2, <1>3, <1>4, <1>5, <1>6, <1>7, <1>8 DEF Next

-----------------------------------------------------------------------------
(* What follows.                                                           *)

\* What uploads under way rely on is kept by every step.
THEOREM Invariance == Spec => []IInv
<1> QED BY InitKeeps, NextKeeps, PTL DEF Spec

\* The collection and the streams keep their types.
THEOREM UploadTypes == Spec => []TypeOK
<1>1. IInv => TypeOK
  BY DEF IInv
<1> QED BY <1>1, Invariance, PTL

\* "input_buffer is now guaranteed to fit in our container": for chunks and
\* containers of any size, the container never holds more than was allocated
\* for it (dav_repo_write_stream).
THEOREM ContainerBound == Spec => []ContainerFits
<1>1. IInv => ContainerFits
  BY DEF IInv, ContainerFits, Sound
<1> QED BY <1>1, Invariance, PTL

\* The two steps that commit an upload.
LEMMA CommitsIs ==
  ASSUME IInv, Next, NEW w \in Worker,
         stream[w].phase # "ok", stream'[w].phase = "ok"
  PROVE  \/ Rename(w)
         \/ Close(w) /\ stream[w].phase = "commit"
              /\ stream[w].write_path = stream[w].path
<1>1. stream \in [Worker -> Stream \cup {Idle}]
  BY Types
<1>2. ASSUME NEW v \in Worker, NEW phase, Go(v, phase)
      PROVE  v = w /\ phase = "ok"
  BY <1>1, <1>2 DEF Go
<1>3. ASSUME NEW v \in Worker, End(v) PROVE FALSE
  BY <1>1, <1>3 DEF End, Idle
<1>4. ASSUME NEW v \in Worker, NEW p \in Object,
             NEW start \in Starts \cup {-1}, NEW r \in Rollbacks,
             Put(v, p, start, r)
      PROVE  FALSE
  BY <1>1, <1>4 DEF Put
<1>5. ASSUME NEW v \in Worker, NEW p, NEW data, Opened(v, p, data)
      PROVE  FALSE
  <2>1. stream'[w].phase = IF v = w THEN "open" ELSE stream[w].phase
    BY <1>1, <1>5 DEF Opened
  <2> QED BY <2>1
<1>6. ASSUME NEW v \in Worker, NEW k \in 1 .. BodyLength, Write(v, k)
      PROVE  FALSE
  <2>1. stream'[w].phase = stream[w].phase
    BY <1>1, <1>6 DEF Write
  <2> QED BY <2>1
<1>7. ASSUME NEW v \in Worker, NEW k \in 1 .. BodyLength, WriteFails(v, k)
      PROVE  FALSE
  <2>1. stream'[w].phase = IF v = w THEN "failed" ELSE stream[w].phase
    BY <1>1, <1>7 DEF WriteFails
  <2> QED BY <2>1
<1>8. ASSUME NEW v \in Worker, Flush(v) PROVE FALSE
  <2>1. \/ stream'[w].phase = stream[w].phase
        \/ stream'[w].phase \in {"commit", "rollback"}
    BY <1>1, <1>8 DEF Flush
  <2> QED BY <2>1
<1>9. ASSUME NEW v \in Worker, Close(v)
      PROVE  /\ Close(w) /\ stream[w].phase = "commit"
             /\ stream[w].write_path = stream[w].path
  <2>1. Go(v, "ok") /\ stream[v].phase = "commit"
        /\ stream[v].write_path = stream[v].path
    BY <1>2, <1>3, <1>9 DEF Close
  <2> QED BY <1>2, <1>9, <2>1
<1>10. ASSUME NEW v \in Worker,
              OpenExisting(v) \/ OpenNew(v) \/ \E t \in Temp : OpenTemp(v, t)
       PROVE  FALSE
  BY <1>5, <1>10 DEF OpenExisting, OpenNew, OpenTemp
<1>11. ASSUME NEW v \in Worker,
              \/ OpenFails(v) \/ FlushFails(v) \/ CloseFails(v) \/ Replace(v)
              \/ ReplaceFails(v) \/ Unlink(v) \/ Answer(v) \/ Disconnect(v)
              \/ SeekFails(v)
       PROVE  FALSE
  BY <1>2, <1>3, <1>11 DEF OpenFails, SeekFails, FlushFails, CloseFails, Replace,
     ReplaceFails, Unlink, Answer, Disconnect
<1>12. ASSUME NEW v \in Worker, Rename(v) PROVE Rename(w)
  BY <1>2, <1>12 DEF Rename
<1>13. ASSUME NEW p \in Object, Delete(p) PROVE FALSE
  BY <1>13 DEF Delete
<1> QED BY <1>4, <1>6, <1>7, <1>8, <1>9, <1>10, <1>11, <1>12, <1>13 DEF Next

\* Once an upload is committed, the object holds the body, whole and in
\* order, at the offset where the PUT started.
LEMMA CommitStores ==
  ASSUME IInv, Next, NEW w \in Worker,
         stream[w].phase # "ok", stream'[w].phase = "ok"
  PROVE  LET s == stream[w]
             d == objects'[s.path].data
             from == Offset(s.start)
         IN  /\ objects'[s.path].there
             /\ Len(d) >= from + BodyLength
             /\ SubSeq(d, from + 1, from + BodyLength) = Body(w)
             /\ s.start = -1 => Len(d) = BodyLength
<1> DEFINE s == stream[w]
           d == objects'[s.path].data
           from == Offset(s.start)
<1>1. CASE Rename(w)
  <2>1. /\ s.start = -1 /\ objects'[s.path].there /\ d = Body(w)
    BY <1>1, RenameIs
  <2>2. from = 0 /\ BodyLength \in Nat
    BY <2>1, SizeAssumption DEF Offset
  <2>3. d \in Seq(Byte) /\ Len(d) = BodyLength
    <3>1. Len(Bytes(w, 0 + 1, 0 + BodyLength)) = BodyLength
          /\ Bytes(w, 0 + 1, 0 + BodyLength) \in Seq(Byte)
      BY <2>2, BytesOf
    <3>2. Body(w) = Bytes(w, 0 + 1, 0 + BodyLength)
      BY <2>2 DEF Body
    <3> QED BY <2>1, <3>1, <3>2
  <2> HIDE DEF d, from
  <2>4. SubSeq(d, 1, BodyLength) = d
    BY <2>3
  <2>5. from + 1 = 1 /\ from + BodyLength = BodyLength
    BY <2>2
  <2> QED BY <2>1, <2>2, <2>3, <2>4, <2>5 DEF d, from
<1>2. CASE Close(w) /\ s.phase = "commit" /\ s.write_path = s.path
  <2>1. s.phase \in Writing
    BY <1>2 DEF Writing
  <2>2. objects' = [objects EXCEPT ![s.write_path].writer = NoWorker]
    BY <1>2 DEF Close
  <2>3. objects'[s.path].there /\ d = objects[s.write_path].data
    BY <1>2, <2>1, <2>2, ClosedIs
  <2> QED BY <1>2, <2>3, AtCommit
<1> QED BY <1>1, <1>2, CommitsIs

\* The client's body is in iRODS when it is told so: PUT answers that an
\* upload is committed only when the object holds the whole body, whatever
\* the chunks, the failures before and the other uploads.
THEOREM StoresWhatIsSent == Spec => StoredAsSent
<1> DEFINE Kept ==
      \A w \in Worker :
        stream[w].phase # "ok" /\ stream'[w].phase = "ok" =>
          LET s == stream[w]
              from == IF s.start = -1 THEN 0 ELSE s.start
          IN  /\ objects'[s.path].there
              /\ Len(objects'[s.path].data) >= from + BodyLength
              /\ SubSeq(objects'[s.path].data, from + 1, from + BodyLength)
                   = Body(w)
              /\ s.start = -1 => Len(objects'[s.path].data) = BodyLength
<1>1. IInv /\ [Next]_vars => [Kept]_vars
  <2> SUFFICES ASSUME IInv, Next PROVE Kept
    OBVIOUS
  <2> QED BY CommitStores DEF Offset
<1> QED BY <1>1, Invariance, PTL DEF Spec, StoredAsSent

\* An object that nobody has open only changes to the whole body of an upload,
\* or goes away.
LEMMA ChangesWhole ==
  ASSUME IInv, Next, NEW p \in Object,
         objects'[p] # objects[p], objects'[p].there, ~ Locked(p)
  PROVE  \/ objects'[p].writer # NoWorker
         \/ \E w \in Worker : objects'[p].data = Body(w)
<1>1. /\ p \in Name /\ objects \in [Name -> Stored \cup {Absent}]
      /\ DOMAIN objects = Name
  BY Types DEF Name
<1>2. ASSUME NEW w \in Worker, stream[w].phase \in Writing
      PROVE  stream[w].write_path # p
  <2>1. Sound(stream[w], objects, w)
    BY <1>2, Types DEF Writing
  <2> QED BY <1>2, <2>1, WorkerAssumption DEF Sound, WriterHolds, Locked
<1>3. ASSUME NEW w \in Worker, NEW q \in Name, NEW data,
             Opened(w, q, data)
      PROVE  objects'[p].writer # NoWorker
  BY <1>1, <1>3, WorkerAssumption DEF Opened
<1>4. ASSUME NEW w \in Worker, stream[w].phase \in Writing, NEW b, NEW n,
             RodsWrite(w, b, n)
      PROVE  FALSE
  BY <1>1, <1>2, <1>4 DEF RodsWrite
<1>5. ASSUME NEW w \in Worker, stream[w].phase \in Writing,
             objects' = [objects EXCEPT ![stream[w].write_path].writer
                                          = NoWorker]
      PROVE  FALSE
  BY <1>1, <1>2, <1>5
<1>6. ASSUME NEW q, objects' = Unlinked(q) PROVE FALSE
  BY <1>1, <1>6 DEF Unlinked, Absent
<1>7. ASSUME UNCHANGED objects PROVE FALSE
  BY <1>7
<1>8. ASSUME NEW w \in Worker, Rename(w)
      PROVE  objects'[p].data = Body(w)
  <2>1. /\ stream[w].write_path \in Temp /\ stream[w].path \in Name
        /\ objects'[stream[w].path].data = Body(w)
        /\ \A q \in Name \ {stream[w].write_path, stream[w].path} :
             objects'[q] = objects[q]
    BY <1>8, RenameIs
  <2>2. p # stream[w].write_path
    BY <2>1, PathAssumption
  <2> QED BY <1>1, <2>1, <2>2
<1>9. ASSUME NEW w \in Worker, Disconnect(w) PROVE FALSE
  <2>1. objects'[p] = IF objects[p].there /\ objects[p].writer = w
                      THEN [objects[p] EXCEPT !.writer = NoWorker]
                      ELSE objects[p]
    BY <1>1, <1>9 DEF Disconnect, Released
  <2> QED BY <2>1, WorkerAssumption DEF Locked
<1>10. ASSUME NEW w \in Worker, OpenExisting(w) \/ OpenNew(w)
       PROVE  objects'[p].writer # NoWorker
  <2>1. stream[w].path \in Name
    BY <1>10, Types DEF OpenExisting, OpenNew, Stream, Name
  <2> QED BY <1>3, <1>10, <2>1 DEF OpenExisting, OpenNew
<1>11. ASSUME NEW w \in Worker, NEW t \in Temp, OpenTemp(w, t)
       PROVE  objects'[p].writer # NoWorker
  <2>1. t \in Name
    BY DEF Name
  <2> QED BY <1>3, <1>11, <2>1 DEF OpenTemp
<1>12. ASSUME NEW w \in Worker, NEW k \in 1 .. BodyLength,
              Write(w, k) \/ WriteFails(w, k)
       PROVE  FALSE
  BY <1>4, <1>7, <1>12 DEF Write, WriteFails, Writing
<1>13. ASSUME NEW w \in Worker,
              Flush(w) \/ FlushFails(w) \/ Close(w) \/ CloseFails(w)
       PROVE  FALSE
  <2>1. stream[w].phase \in Writing
    BY <1>13 DEF Flush, FlushFails, Close, CloseFails, Writing
  <2> QED BY <1>4, <1>5, <1>7, <1>13, <2>1
          DEF Flush, FlushFails, Close, CloseFails
<1>14. ASSUME NEW w \in Worker,
              \/ OpenFails(w) \/ SeekFails(w) \/ Replace(w) \/ ReplaceFails(w)
              \/ Unlink(w) \/ Answer(w)
       PROVE  FALSE
  BY <1>6, <1>7, <1>14 DEF OpenFails, SeekFails, Replace, ReplaceFails, Unlink, Answer
<1>15. ASSUME NEW w \in Worker, NEW q \in Object,
              NEW start \in Starts \cup {-1}, NEW r \in Rollbacks,
              Put(w, q, start, r)
       PROVE  FALSE
  BY <1>7, <1>15 DEF Put
<1>16. ASSUME NEW q \in Object, Delete(q) PROVE FALSE
  BY <1>6, <1>16 DEF Delete
<1> QED BY <1>8, <1>9, <1>10, <1>11, <1>12, <1>13, <1>14, <1>15, <1>16
        DEF Next

\* TmpfileRollback: no failure, abort or crash leaves half an upload in an
\* object that no upload without a temporary file has open.
THEOREM KeepsUploadsWhole == Spec => OnlyWholeUploads
<1> DEFINE Kept ==
      \A p \in Object :
        LET old == objects[p]
            new == objects'[p]
        IN  old # new /\ new.there =>
              \/ Locked(p) \/ new.writer # NoWorker
              \/ \E w \in Worker : new.data = Body(w)
<1>1. IInv /\ [Next]_vars => [Kept]_vars
  <2> SUFFICES ASSUME IInv, Next PROVE Kept
    OBVIOUS
  <2> QED BY ChangesWhole
<1> QED BY <1>1, Invariance, PTL DEF Spec, OnlyWholeUploads

=============================================================================
