------------------------------ MODULE DavUpload ------------------------------
(***************************************************************************)
(* Uploads: the stream that mod_dav opens, writes and closes for a PUT     *)
(* (repo.c, dav_repo_open_stream to dav_repo_close_stream), in httpd       *)
(* workers that write objects of one collection at the same time.          *)
(*                                                                         *)
(* External: mod_dav's dav_method_put, which commits when the body was     *)
(* read and written to its end and aborts otherwise; and iRODS, each call  *)
(* of which is one step that may fail.  An object that is open for writing *)
(* is locked: it cannot be opened, unlinked or renamed, and creating an    *)
(* object that exists fails.                                               *)
(***************************************************************************)
EXTENDS Integers, Sequences

CONSTANTS Object,      \* the paths uploaded to
          Temp,        \* temporary names in the same collection
          Worker, NoWorker,
          Original,    \* the objects that are there at first
          Deletable,   \* the objects that other clients may delete
          Rollbacks,   \* the settings of TmpfileRollback in use
          Starts,      \* where a ranged PUT may start; {} for none
          BodyLength,  \* the length of a request body
          TxBuffer     \* rods_tx_buffer_size

ASSUME PathAssumption == Object \cap Temp = {} /\ Original \subseteq Object
                         /\ Deletable \subseteq Object

ASSUME WorkerAssumption == NoWorker \notin Worker

ASSUME SizeAssumption == /\ BodyLength \in Nat \ {0} /\ TxBuffer \in Nat \ {0}
                         /\ Starts \subseteq Nat /\ Rollbacks \subseteq BOOLEAN

VARIABLES objects,  \* the collection in iRODS
          stream    \* the upload each worker is in the middle of

vars == <<objects, stream>>

\* The i-th byte of what a worker uploads; NoWorker's are the bytes of the
\* original objects, its 0 the byte that fills a hole.
Byte == (Worker \cup {NoWorker}) \X Nat

Bytes(w, from, to) == [i \in 1 .. to - from + 1 |-> <<w, from + i - 1>>]

Body(w) == Bytes(w, 1, BodyLength)

Absent == [there |-> FALSE]

Stored == [there : {TRUE}, data : Seq(Byte), writer : Worker \cup {NoWorker}]

Idle == [phase |-> "idle"]

\* start: where a ranged PUT writes, -1 for a whole one; exists: what
\* get_resource found; got: the bytes of the body read so far; pos: the
\* offset of the iRODS handle.
Stream ==
  [phase : {"found", "open", "failed", "commit", "rollback", "replace",
            "rename", "unlink", "ok"},
   path : Object, write_path : Object \cup Temp, exists : BOOLEAN,
   start : Starts \cup {-1}, tmpfile : BOOLEAN, pos : Nat,
   container : Seq(Byte), got : 0 .. BodyLength]

TypeOK == /\ objects \in [Object \cup Temp -> Stored \cup {Absent}]
          /\ stream \in [Worker -> Stream \cup {Idle}]

-----------------------------------------------------------------------------
(* iRODS.                                                                  *)

Locked(p) == objects[p].there /\ objects[p].writer # NoWorker

\* data with bytes written at offset pos.
Overwrite(data, pos, bytes) ==
  LET end == pos + Len(bytes)
  IN  [i \in 1 .. (IF end > Len(data) THEN end ELSE Len(data)) |->
         IF i \in pos + 1 .. end THEN bytes[i - pos]
         ELSE IF i <= Len(data) THEN data[i] ELSE <<NoWorker, 0>>]

\* rcDataObjWrite of bytes on w's handle, of which the first n arrive.
RodsWrite(w, bytes, n) ==
  objects' = [objects EXCEPT ![stream[w].write_path].data =
                Overwrite(@, stream[w].pos, SubSeq(bytes, 1, n))]

\* w's handles are closed, when its connection to iRODS is.
Released(w) ==
  [p \in DOMAIN objects |->
     IF objects[p].there /\ objects[p].writer = w
     THEN [objects[p] EXCEPT !.writer = NoWorker] ELSE objects[p]]

Unlinked(p) == [objects EXCEPT ![p] = Absent]

Unlinkable(p) == objects[p].there /\ ~ Locked(p)

-----------------------------------------------------------------------------
(* Opening.                                                                *)

End(w) == stream' = [stream EXCEPT ![w] = Idle]

Go(w, phase) == stream' = [stream EXCEPT ![w].phase = phase]

\* Mutant: the handle is moved for a whole PUT as well.
OffsetAlways(start) == start

\* Where the handle is when the first byte is written: mod_dav seeks (and
\* dav_repo_seek_stream moves it) when the PUT is ranged.
Offset(start) == IF start = -1 THEN 0 ELSE start

\* PUT: get_resource stats the path.  A ranged PUT is DAV_MODE_WRITE_SEEKABLE
\* and never uses a temporary file.
Put(w, p, start, rollback) ==
  /\ stream[w] = Idle
  /\ stream' = [stream EXCEPT ![w] =
       [phase |-> "found", path |-> p, write_path |-> p,
        exists |-> objects[p].there, start |-> start,
        tmpfile |-> rollback /\ start = -1,
        pos |-> Offset(start),
        container |-> <<>>, got |-> 0]]
  /\ UNCHANGED objects

\* The stream is opened on p: on what is there, truncated unless the PUT is
\* ranged, or on a new object.
Opened(w, p, data) ==
  /\ objects' = [objects EXCEPT ![p] =
                   [there |-> TRUE, data |-> data, writer |-> w]]
  /\ stream' = [stream EXCEPT ![w].phase = "open", ![w].write_path = p]

OpenExisting(w) ==
  LET s == stream[w]
  IN  /\ s.phase = "found" /\ ~ s.tmpfile /\ s.exists
      /\ objects[s.path].there /\ ~ Locked(s.path)
      /\ Opened(w, s.path, IF s.start = -1 THEN <<>> ELSE objects[s.path].data)

OpenNew(w) ==
  LET s == stream[w]
  IN  /\ s.phase = "found" /\ ~ s.tmpfile /\ ~ s.exists
      /\ ~ objects[s.path].there
      /\ Opened(w, s.path, <<>>)

\* The temporary name is made of the process, the time in seconds and a sum
\* over the URI whose loop runs past the end of the string: it is undefined,
\* and the builds there are either drop the loop, so that the name is the same
\* for any two uploads of a process within a second, or fault in it.
OpenTemp(w, t) ==
  /\ stream[w].phase = "found" /\ stream[w].tmpfile
  /\ ~ objects[t].there
  /\ Opened(w, t, <<>>)

\* The open or the create fails, or the sum faults.
OpenFails(w) == stream[w].phase = "found" /\ End(w) /\ UNCHANGED objects

\* The seek of a ranged PUT fails, and mod_dav closes the stream without
\* committing it.
SeekFails(w) ==
  /\ stream[w].phase = "open" /\ stream[w].start # -1 /\ stream[w].got = 0
  /\ Go(w, "failed")
  /\ UNCHANGED objects

-----------------------------------------------------------------------------
(* Writing.                                                                *)

\* Mutant: a large chunk overtakes what the container still holds.
SendsDirectFirst(s, input) ==
  IF Len(input) >= TxBuffer THEN input \o s.container
  ELSE IF Len(input) > TxBuffer - Len(s.container) THEN s.container ELSE <<>>

\* What dav_repo_write_stream ships before it returns: a large chunk goes
\* straight to iRODS, after the container; a chunk that does not fit makes
\* the container go.
Sends(s, input) ==
  IF Len(input) >= TxBuffer THEN s.container \o input
  ELSE IF Len(input) > TxBuffer - Len(s.container) THEN s.container ELSE <<>>

\* Mutant: whether the chunk fits is tested against an empty container.
ContainerUnfit(s, input) ==
  IF Len(input) >= TxBuffer THEN <<>>
  ELSE IF Len(input) > TxBuffer THEN input
  ELSE s.container \o input

\* What the container holds then.
Container(s, input) ==
  IF Len(input) >= TxBuffer THEN <<>>
  ELSE IF Len(input) > TxBuffer - Len(s.container) THEN input
  ELSE s.container \o input

\* A chunk of k bytes of the body is read and written.
Write(w, k) ==
  LET s     == stream[w]
      input == Bytes(w, s.got + 1, s.got + k)
      sent  == Sends(s, input)
  IN  /\ s.phase = "open" /\ s.got + k <= BodyLength
      /\ IF sent = <<>> THEN UNCHANGED objects
         ELSE RodsWrite(w, sent, Len(sent))
      /\ stream' = [stream EXCEPT ![w].got = @ + k,
                                  ![w].pos = @ + Len(sent),
                                  ![w].container = Container(s, input)]

\* An rcDataObjWrite fails; the container counts as empty from then on, and
\* mod_dav closes the stream without committing it.
WriteFails(w, k) ==
  LET s    == stream[w]
      sent == Sends(s, Bytes(w, s.got + 1, s.got + k))
  IN  /\ s.phase = "open" /\ s.got + k <= BodyLength
      /\ sent # <<>>
      /\ \E n \in 0 .. Len(sent) : RodsWrite(w, sent, n)
      /\ stream' = [stream EXCEPT ![w].phase = "failed",
                                  ![w].container = <<>>]

-----------------------------------------------------------------------------
(* Closing.                                                                *)

\* dav_repo_close_stream ships the container first.  mod_dav commits when it
\* has read the whole body, and does not when the client went or a write
\* failed.
Flush(w) ==
  LET s == stream[w]
  IN  /\ s.phase \in {"open", "failed"}
      /\ IF s.container = <<>> THEN UNCHANGED objects
         ELSE RodsWrite(w, s.container, Len(s.container))
      /\ stream' = [stream EXCEPT
           ![w].phase = IF s.phase = "open" /\ s.got = BodyLength
                        THEN "commit" ELSE "rollback",
           ![w].pos = @ + Len(s.container),
           ![w].container = <<>>]

\* Shipping the container fails: the function returns there, the handle stays
\* open and nothing is rolled back.
FlushFails(w) ==
  /\ stream[w].phase \in {"open", "failed"}
  /\ stream[w].container # <<>>
  /\ \E n \in 0 .. Len(stream[w].container) : RodsWrite(w, stream[w].container, n)
  /\ End(w)

\* Mutant: the temporary file replaces the object, commit or not.
CloseCommits(w) ==
  LET s == stream[w]
  IN  /\ s.phase \in {"commit", "rollback"}
      /\ objects' = [objects EXCEPT ![s.write_path].writer = NoWorker]
      /\ CASE s.phase = "commit" /\ s.write_path = s.path -> Go(w, "ok")
           [] s.write_path # s.path ->
                Go(w, IF s.exists THEN "replace" ELSE "rename")
           [] OTHER -> End(w)

\* rcDataObjClose, and what is next: the temporary file replaces the object or
\* is removed; an object that was new is removed on a rollback, one that was
\* not stays as it is by now.
Close(w) ==
  LET s == stream[w]
      temporary == s.write_path # s.path
  IN  /\ s.phase \in {"commit", "rollback"}
      /\ objects' = [objects EXCEPT ![s.write_path].writer = NoWorker]
      /\ CASE s.phase = "commit" /\ ~ temporary -> Go(w, "ok")
           [] s.phase = "commit" /\ temporary ->
                Go(w, IF s.exists THEN "replace" ELSE "rename")
           [] s.phase = "rollback" /\ ~ temporary /\ s.exists -> End(w)
           [] OTHER -> Go(w, "unlink")

CloseFails(w) ==
  LET p == stream[w].write_path
  IN  /\ stream[w].phase \in {"commit", "rollback"}
      /\ \/ objects' = [objects EXCEPT ![p].writer = NoWorker]
         \/ UNCHANGED objects
      /\ End(w)

\* Commit: the object that was there is unlinked ...
Replace(w) ==
  LET s == stream[w]
  IN  /\ s.phase = "replace" /\ Unlinkable(s.path)
      /\ objects' = Unlinked(s.path)
      /\ Go(w, "rename")

\* ... and the temporary file renamed.
Rename(w) ==
  LET s == stream[w]
  IN  /\ s.phase = "rename" /\ Unlinkable(s.write_path)
      /\ ~ objects[s.path].there
      /\ objects' = [objects EXCEPT ![s.path] = objects[s.write_path],
                                    ![s.write_path] = Absent]
      /\ Go(w, "ok")

ReplaceFails(w) ==
  stream[w].phase \in {"replace", "rename"} /\ End(w) /\ UNCHANGED objects

\* Rollback: what was written is unlinked, or cannot be.
Unlink(w) ==
  LET p == stream[w].write_path
  IN  /\ stream[w].phase = "unlink"
      /\ \/ Unlinkable(p) /\ objects' = Unlinked(p)
         \/ UNCHANGED objects
      /\ End(w)

Answer(w) == stream[w].phase = "ok" /\ End(w) /\ UNCHANGED objects

-----------------------------------------------------------------------------

\* The worker dies, or the client's connection ends and with it the one to
\* iRODS.
Disconnect(w) == objects' = Released(w) /\ End(w)

\* Another client deletes an object.
Delete(p) ==
  /\ p \in Deletable /\ Unlinkable(p)
  /\ objects' = Unlinked(p)
  /\ UNCHANGED stream

Init == /\ objects = [p \in Object \cup Temp |->
                        IF p \in Original
                        THEN [there |-> TRUE, data |-> Bytes(NoWorker, 1, 2),
                              writer |-> NoWorker]
                        ELSE Absent]
        /\ stream = [w \in Worker |-> Idle]

Next ==
  \/ \E w \in Worker :
       \/ \E p \in Object, start \in Starts \cup {-1}, r \in Rollbacks :
            Put(w, p, start, r)
       \/ OpenExisting(w) \/ OpenNew(w) \/ \E t \in Temp : OpenTemp(w, t)
       \/ OpenFails(w) \/ SeekFails(w)
       \/ \E k \in 1 .. BodyLength : Write(w, k) \/ WriteFails(w, k)
       \/ Flush(w) \/ FlushFails(w) \/ Close(w) \/ CloseFails(w)
       \/ Replace(w) \/ Rename(w) \/ ReplaceFails(w) \/ Unlink(w) \/ Answer(w)
       \/ Disconnect(w)
  \/ \E p \in Object : Delete(p)

Spec == Init /\ [][Next]_vars

-----------------------------------------------------------------------------
(* Properties.                                                             *)

\* "input_buffer is now guaranteed to fit in our container": whatever the
\* sizes of the chunks a body comes in, the container never holds more than
\* was allocated for it.
ContainerFits ==
  \A w \in Worker : stream[w] # Idle => Len(stream[w].container) <= TxBuffer

\* Once an upload is committed, the object holds the body, whole and in
\* order, however the body was cut into chunks, whichever calls failed before
\* and whoever else was writing.
StoredAsSent ==
  [][\A w \in Worker :
       stream[w].phase # "ok" /\ stream'[w].phase = "ok" =>
         LET s == stream[w]
             from == IF s.start = -1 THEN 0 ELSE s.start
         IN  /\ objects'[s.path].there
             /\ Len(objects'[s.path].data) >= from + BodyLength
             /\ SubSeq(objects'[s.path].data, from + 1, from + BodyLength)
                  = Body(w)
             /\ s.start = -1 => Len(objects'[s.path].data) = BodyLength]_vars

\* TmpfileRollback: an object that nobody has open for writing (the uploads
\* without a temporary file do) only ever changes to the whole body of an
\* upload, or goes away.
OnlyWholeUploads ==
  [][\A p \in Object :
       LET old == objects[p]
           new == objects'[p]
       IN  old # new /\ new.there =>
             \/ Locked(p) \/ new.writer # NoWorker
             \/ \E w \in Worker : new.data = Body(w)]_vars

\* "Optionally Davrods can support rollback for aborted uploads": with
\* temporary files and nobody deleting, an object that was there is there
\* whenever no upload is under way.
RollbackKeepsOriginal ==
  (\A w \in Worker : stream[w] = Idle) => \A p \in Original : objects[p].there

\* "This resource didn't exist yet, we can safely remove it": a rollback does
\* not remove an object that another upload has just committed.
RollbackOwnOnly ==
  [][\A w \in Worker :
       Unlink(w) /\ objects' # objects =>
         \A v \in Worker \ {w} :
           ~ (stream[v].phase = "ok"
              /\ stream[v].path = stream[w].write_path)]_vars

=============================================================================
