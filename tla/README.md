# Davrods in TLA+

Davrods is an Apache httpd module that serves an iRODS zone over WebDAV. It
plugs into `mod_dav` as a provider: `mod_dav` parses each request and calls the
hooks of Davrods, which call iRODS and keep a database of WebDAV locks. This
directory holds TLA+ specifications of the parts of Davrods that keep state, the
TLC models that check them, and proofs checked by TLAPS.

## 1. The system

| Component | State | Operations | Source |
|---|---|---|---|
| Lock database | a DBM file: per iRODS path a list of direct and a list of indirect locks | open, close, load (with passive removal), save, resolve, get, find, has, append, remove, refresh | `src/src/lock_local.c` |
| iRODS session and login | `davrods_pool` in the client's connection: `rods_conn`, `username`, `password`, `session_params`; a flag on the request | `basic_auth_irods`, `check_rods`, `rods_login`, `davrods_user_can_reuse_connection`, `get_davrods_pool` | `src/src/auth.c`, `src/src/repo.c` |
| Session tickets | `active_ticket` in the pool; the ticket of the iRODS agent | `set_session_ticket`, the read-only macro | `src/src/repo.c` |
| Uploads | a `dav_stream`: handle, container, write path; objects in iRODS | open, write, seek, close with commit or rollback | `src/src/repo.c` |
| Resource lookup | a `dav_resource` with the stat of its path | `dav_repo_get_resource`, `get_parent_resource` | `src/src/repo.c` |
| Walk, copy, move, delete | one `dav_resource` and one buffer, rewritten for every member | `walker`, `dav_repo_walk`, `copy`, `move`, `remove` | `src/src/repo.c` |
| Download, byte ranges | the range being merged and the table of ranges of a request; the handle and its offset | `deliver_file`, `ap_set_byterange`, `deliver_seek`, `deliver_file_bytes` | `src/src/byterange.c`, `src/src/repo.c` |
| Configuration | `davrods_dir_conf_t` of each section | the directives, the merge, the defaults | `src/src/config.c`, `src/src/config.h` |
| Property database, live properties | an iterator | names and values; every change is refused | `src/src/propdb.c`, `src/src/prop.c` |
| Listing, registration | none | HTML of a collection; hook tables | `src/src/listing.c`, `src/src/mod_davrods.c`, `src/src/common.c` |

How they interact. `mod_dav` authenticates a request through `basic_auth_irods`,
looks up its resource (and, for COPY and MOVE, a second one) through
`dav_repo_get_resource`, validates the request against the lock database, runs
the method's hook, and adjusts the locks (`append_locks` over a walk for LOCK,
`remove_lock` over a walk for UNLOCK and DELETE, inheritance for PUT and MKCOL).
The session is shared by the requests of one client connection, which run one
after the other; the lock database and iRODS are shared by every httpd worker.

What is hard:

- **Concurrency**: workers interleave between hook calls; validation, iRODS
  operation and adjustment of the locks of one request are separate calls.
- **Time**: locks time out passively, whenever somebody loads their record; a
  request reads the clock more than once.
- **Partial failure and crashes**: a LOCK of depth infinity writes many records;
  a commit is an unlink and a rename; a login has many exits.
- **Reuse**: a keepalive connection carries a login and a ticket from one
  location to another one with other options.
- **Shared structures**: one walk has one resource and two paths, which every
  call of the recursive walker extends and must cut back, on every exit.
- **Staleness**: a walk, a copy and a download go by what was looked up before,
  while other clients of iRODS change what is there.
- **Boundaries**: ranges that touch, overlap or end past the object, an empty
  object, numbers that do not fit the type of an option.

What makes each part correct: the lock database grants no conflicting locks,
loses none before its time and covers the tree it locked; a session serves
nobody as somebody else; a ticket is in force for the request that bears it; an
upload is stored whole or not at all; a walk reports what is there, each thing
once and under its own URI; a copy is what the source was and touches nothing
else; a download is the bytes that were asked for; a request is served under the
options that its sections set. `PROJECT.json` lists the hazards one by
one with the properties aimed at each.

## 2. Modules

| Module | Models |
|---|---|
| `Picking`, `PickingProofs` | the elements of a sequence at some of its positions, and what this keeps of it |
| `LockRecords` | what each hook of `lock_local.c` does to the DBM file, as operators over a function from paths to records |
| `DavLocking` | workers serving LOCK, UNLOCK, PUT, MKCOL, DELETE and queries over one lock file, with a clock and deaths of workers |
| `LockService` | the abstract promise: a set of granted locks |
| `DavSession` | one client connection: login, reuse of the session, tickets, over locations configured differently |
| `DavSessionProofs` | proofs about `DavSession` |
| `LockRecordsProofs`, `DavLockingProofs` | lemmas about the records; proofs about `DavLocking`, the refinement of `LockService` among them |
| `DavUpload` | workers uploading objects of one collection |
| `DavUploadProofs` | proofs about `DavUpload` |
| `DavWalk`, `DavWalkProofs` | PROPFIND, COPY, MOVE, DELETE and MKCOL of one request after another, call by call, while others change the tree; proofs about it |
| `DavDownload`, `DavDownloadProofs` | one GET after another, from the `Range` header to the last byte; proofs about it |
| `DirConfig`, `DirConfigProofs` | the directives of nested sections and their merge for a request; proofs about it |
| `MCDavLocking`, `MCDavSession`, `MCDavUpload`, `MCDavWalk`, `MCDavDownload`, `MCDirConfig` | the instances TLC checks |

The components share no variables: a session, a walk and a download belong to one
request, and what a lock, an upload or another client does to the tree while a
walk or a download is under way comes in through the actions of others
(`OtherCreates`, `OtherRemoves`, `OtherLocks`, `Replace`, `Remove`).

### LockRecords and DavLocking

A record is `[direct, indirect]`, two sequences in list order; an absent key is
the record of two empty lists, because saving that deletes the key. A list that
loses entries is a `Pick` of the positions that stay (by position, since two equal
entries may meet different fates). Order is kept
since `load_lock_record` reverses what it reads and `remove_lock` unlinks only
every other one of neighbouring entries with its token (`Unlinked`). A lock that
a hook hands out (`HandedLock`) carries what is read of it again: a partial
indirect lock has neither timeout nor depth, its memory is zeroed, and zero is
`DAV_TIMEOUT_INFINITE`.

`DavLocking` has one action per hook call, or per run of calls during which the
worker holds the lock file and nobody can see the difference: `Lock` validates,
creates and appends; `InheritMember` is one callback of the walk; `WalkDone`
closes the file. PUT and MKCOL are four actions (`Create`, `CreateValidated`,
`CreateStored`, `CreateNotified`), because the file is closed between them and
other workers come in. `session[w]` is what is on the worker's C stack;
`holder` is the worker whose open DBM is read-write (`lock_local.c:372`, "only
one can be open read/write"). `save_lock_record` deletes the key of an empty record
and does not look at the result of `apr_dbm_delete` (`lock_local.c:493`): `Saved` lets
the record of a path of `Undeletable` stay as it was loaded, when UNLOCK or DELETE
takes the last lock away. The order of the hook calls is that of `mod_dav`
and is external.

A walk may fail below its root. The callback of a member returns an error
(`InheritFails`, `RemoveFails`), or the members of a collection are read in part
or not at all (`Found`): `rclOpenCollection` or `rclReadCollection` fails, or a
name is too long. The walker of the parent drops what it is returned
(`repo.c:1472`), so that the walk goes on and the request is answered as done.
Only a failure at the root of the walk ends it with an error (`WalkFails`).
`Faulty` are the paths where this may happen. `missed`, in the session of a LOCK,
is not in the code: it remembers where calls have failed, for `LockCoversTree`.

### DavSession

`pool` is `davrods_pool` (what it says of the login), `agents` what has become of
each connection to iRODS, `request` the request being served, with the resources
it has found (`handles`). A request goes through `Authenticate` (if the location
asks for basic authentication), `PoolFound`, `PoolAnonymous` or `PoolRefused`
(`get_davrods_pool`), `GetResource` (ticket and stat), for COPY and MOVE the same
again for the destination, then `StartWrite` or `StartMove` and `Answer`.
`StartMove` is a MOVE out of another location, which changes that location too;
both ask `MayWrite`, the macro, which looks at the destination only. `Granted` and
`NotGranted` are `check_rods` with `rods_login` in all its exits, those included
that leave an open connection behind.

### DavUpload

`objects` is the collection in iRODS, each object with its bytes and the worker
that has it open for writing; `stream[w]` is the `dav_stream`. A byte is a pair
of worker and position, so that a byte of another upload, a hole or a byte out of
place can be told apart. Every iRODS call is one step with a failing twin.

### DavWalk

A name is a sequence of letters and a path the sequence of its names, so that
what a glued or doubled slash does to a path can be seen; a URI may have empty
names. `RodsPath` is `set_rods_path_from_uri`, `ParentUri` the cutting of
`dav_repo_get_parent_resource`, `IsParent` `dav_repo_is_parent_resource`.

`stack` holds the calls of `walker`, outermost first, each with what is on its C
stack: the members still to be read, those seen, the locked names. `res` is the
one resource that all of them share. `StartWalk` is `dav_repo_walk`; a call goes
from `visit` (the callback) to `open`, `members`, `lockdb` and `locknull`;
`Member` extends both paths and calls `walker` again, and `Returns` is its
caller's cutting them back, with the result dropped. `VisitCopy` is
`dav_copy_walk_callback`, `Mirror` the name it gives the copy. COPY and MOVE first
remove a destination that is there; COPY and MKCOL look for a parent. Each iRODS
call is one step with a failing twin. `past` is not in the code: it remembers what
was there and locked at some time since the lookup, which the properties refer to.

### DavDownload

`Get` is the lookup (`get_resource`, `set_headers`), `Open` the opening of the object.
The header is read one range at a time, as `ap_set_byterange` does: `FromTo`, `From`
and `Suffix` are the forms of a range, `Satisfiable` takes one up (it opens the range
that is being merged, joins it, or closes it and opens the next, `Joined` and `Push`),
`FromZero` is the form that makes the code forget the others. `First` is the clipping
of a negative start to 0, which comes before the test against the length: of an empty
object no suffix is satisfiable. `Decide` is the end of the function with the limits
and the sum of lengths, and what `deliver_file` makes of them. `Seek`, `Read` and
`EndRange` are `deliver_seek` and the loop of `deliver_file_bytes`; `Read(n)` returns
any number of bytes up to the buffer. A byte is a pair of version and position, so
that a byte of another version or place can be told apart.

### DirConfig

`sections` are the `davrods_dir_conf_t`s of nested sections, `asked` what the
administrator wrote in each, `conf` the configuration of a request as far as
`davrods_merge_dir_config` has merged it. Every directive is an action that sets
the options of its section (`Sets`) or is refused (`Refuses`), with the arithmetic
of its type: `SetServer` (16 bits), `SetAuthTtl` (32 bits), `SetBuffer` (a product
modulo the size of a `size_t`, with the code's test for overflow). The directives
that set one option to their argument are one action, `SetPlain`. `MergeNext`
merges one more section, with `set_exposed_root` and the null string that it may
be handed (`Faults`). `Effective` is `DAVRODS_CONF`.

## 3. Runs

| Run | Question | Result |
|---|---|---|
| `LocksDeep` | Do all records agree on where each lock is, and does LOCK reach its tree, but for where a call failed, while others change it? | holds |
| `LocksFlat` | Is an exclusive lock alone, and does the database implement the lock service, if workers die? | holds |
| `LocksLive` | Is the lock file given up again? | holds under fairness |
| `LocksDangling` | Does every indirect entry resolve? | violated |
| `SessionSafe` | Is everybody served as oneself, under one's own ticket, and nothing written into a read-only location under one? | holds |
| `SessionMove` | Does nothing leave a read-only location under a ticket? | violated |
| `SessionServer` | Is a location served by the server it names? | violated |
| `UploadStored` | Are committed uploads whole, whatever the chunks and failures? | holds |
| `DownloadServed` | Is the answer to a GET the bytes that were asked for, and does it end? | holds, the end under fairness |
| `ConfigMerged` | Is a request served under the options that its sections describe? | holds |
| `WalkTree` | Are responses complete, true, single and at their URI; is a copy faithful and confined; does every request end? | holds, the end under fairness |
| `WalkPartial` | Is a COPY that is answered as done a whole one? | violated |

A violated run states what a comment or the documentation says; the entry of
`PROJECT.json` under `findings` quotes it and tells what the trace shows.

Eight more configurations each show a further entry of `findings` and are run by hand
(`tlc -config LocksRefresh.cfg MCDavLocking`); TLC finds their property violated:
`LocksRefresh` (a refresh of the root's lock does not reach the members),
`LocksPartial` (a LOCK that is answered as done has not reached what lies where a call
of its walk failed), `SessionTicket` (a ticket stays in force in a location without
tickets), `SessionLeak` (a login that fails half way leaves its connection),
`UploadReplace` (an aborted replacement has removed the original), `UploadRollback` (a
rollback removes another client's object), `ConfigDefaults` (with `DavrodsExposedRoot`
left out everywhere, the merge compares a null string, `MCDirConfig`) and
`DownloadStatus` (an answer is 206 although all of the object is sent,
`MCDavDownload`).

What the properties of some of the runs say, in short:

- `LocksDeep` and `LocksPartial`. `OneRootPerToken`: every entry of a token names
  the one path the lock is on. `LockCoversTree`: when a LOCK of depth infinity is
  answered as done, everything below it has an entry, except at or below a path
  where a call of its walk failed. `LockToldWhole` leaves the exception out, as the
  walker's message "Walker callback returned an error, aborting." does, and is
  violated: a LOCK, a failing member, the answer.
- `SessionSafe` and `SessionMove`. `NoWriteIntoReadOnly`: PUT, MKCOL, DELETE, COPY
  and MOVE into a read-only location do not go ahead while the agent of the
  destination or of the source has a ticket. `NoMoveOutOfReadOnly` is about the
  location of the source and is violated: `move_resource` tests the destination.
- `WalkTree`. `ReportsResolve`: the URI and the iRODS path that the walk extends
  and cuts back by hand never part, however a nested call ended. `FlagsTrue`: the
  flags of the shared structure are true of the member that a response is about.
  `NoTwice`: a member that is also locked is listed once. `ListsAll`: an
  undisturbed PROPFIND is complete down to its depth. `CopyFaithful`,
  `SourceSurvives`, `CopyConfined`: the destination becomes what the source was,
  the source stays, nothing else changes, also where the destination lies above or
  below the source. `NeverCopiesItsCopy`: the walk does not reach what it makes.
- `DownloadServed`. `MergeKeepsBytes`: the merged ranges are the bytes asked for.
  `RangesInObject`, `SentInPlace`: no range is empty or outside the object that was
  looked up, of an empty one only `0-` is served, as nothing, and no byte is sent at
  another's place. `ServedAsAsked`: an answer that ends
  well, of an object that nobody changed, has exactly what was asked for, as long
  as its Content-Length. `NoMoreThanThere`: the ranges are together no longer than
  the object. `DownloadEnds`: the loop ends even if the object has become shorter.
- `ConfigMerged`. `NearestWins`: for each directive the innermost section that has
  it decides about all its options, or else the default does. `GroupingDoesNotMatter`:
  the merge may be done when the server starts or at each request.

### Bounds and why they are enough

- Locks: a chain of three paths (a lock, a member that inherits, a member that
  inherits from it: the second handing down is where timeouts are lost) or a
  collection with one member; two workers (one walking, one changing the tree);
  one or two tokens (two are needed for a conflict); lifetimes of at most two
  seconds, infinite included, on a clock that stops at `MaxTime`. The clock
  passes every timeout, with a step to spare. In `LocksDeep`, `LocksFlat` and
  `LocksLive` the record of the collection in the tree is the one that may fail to be
  deleted: its lock comes back while the members' entries of it are removed or not.
  In these and in `LocksPartial` it is also where calls of a walk fail, so that in
  `LocksDeep` there is a member that the failure hides. Lifetimes in `LocksDeep` are
  infinite or two seconds, so that a lock times out during a walk or after it.
- Session: five locations cover both schemes, the three ticket modes, and the
  four combinations of basic and anonymous access; two users with two passwords;
  one ticket and none; three agents, so that two logins can follow a first one.
- Uploads: two workers, one object and one temporary name (so that names do
  collide), bodies of three bytes and a container of two: a chunk is smaller
  than, equal to or larger than the room left and than the container.
- Walks: two trees, up to three deep below the location, so that a call returns
  into a call that has members left; an object and a collection of the same name
  to be replaced by each other; locked names that are free, in use and far down;
  sources and destinations above, below and beside each other; a path length that
  the deepest locked name exceeds; two changes by others, so that one can undo
  the other.
- Downloads: objects of length 0, 1 and 6; four ranges, enough for two closed
  ranges, one being merged and one that joins it; numbers below, at and past the
  length; a buffer of two bytes, so that ranges take one, two and three reads; one
  replacement, longer or shorter.
- Configuration: three sections and three directives, so that an inner, a middle
  and an outer section can each have the same directive, or different ones; a
  `size_t` of 8 bits and a kibibyte of 8, which overflow noticed and unnoticed; an
  `int32_t` of 8 bits; ports on both sides of each bound of 16 bits.

Deadlock is checked in every run. Symmetry is used over workers, tokens and
agents, which the specifications never tell apart, and not in the liveness run.

### Fairness

`FairSpec` of `DavLocking` asks weak fairness of `GoesOn(w)` for every worker:
a request under way goes on, because httpd does not stop a worker between two
calls and a DBM call returns. New requests, the clock and deaths need not happen.
That of `DavWalk` is weak fairness of `Call` (a call of the request under way
comes back, done or failed), that of `DavDownload` of `Worker`. None of them counts
on a call that fails or on what other clients do.

## 4. Proofs

TLAPS proves the following for every value of the constants that the `ASSUME`s
of the modules allow.

**Sessions** (`DavSessionProofs`; assumption `ConfigAssumption`, which says what a
configuration can be). `SessionTypes` is the type invariant; `OwnCredentials` proves
`ServedAsSelf`, `OwnTicket` proves `TicketInForce`, `ReadOnlyTickets` proves
`NoWriteIntoReadOnly`, `SourceAgentOpen` proves `HandleStaysOpen`. None of these is
inductive: that the session serves a user is decided from what the *pool* says of a
login, often many requests after the login was made. `IInv` adds what the pool may be
believed for: while a session is kept its agent is open, has the login and the scheme
the pool names, and has the ticket the pool remembers unless iRODS failed a ticket
call (`PoolTells`); when the request's flag is set, a session that is not anonymous
has the request's own credentials (`FlagTells`); what holds in each phase of a request
(`Reached`); and that a source's agent is the one still kept wherever the location
logs in as the source's does (`SourceKept`). For `ReadOnlyTickets` it adds `OneAgent`:
what a request has looked up and whose agent is still open was looked up on the agent
the session has now, so that testing one record of the ticket tests it for the source
as well; a new login closes the agents of everything found before (`GrantedCloses`).
`Invariance` is `Spec => []IInv`, one lemma per action.

**Locks** (`PickingProofs`, `LockRecordsProofs`, `DavLockingProofs`; assumptions
`TreeAssumption`, `WorkerAssumption`, `TimeAssumption`). `LockingTypes` is the type
invariant and `ExclusiveLocksAlone` proves `RecordExclusive`. The argument is about
lists: every operator of `LockRecords` builds its new list of direct locks from
entries of the old one, each from a position of its own (`Embeds`). For `Pick` that
needs the n-th smallest element of a set of positions to exist (`RankTaken`) and no
position to be left out (`PickKeeps`). A list whose entries embed in an exclusive one
is exclusive (`EmbedsExclusive`); time only helps (`LaterExclusive`); and what
`load_lock_record` returns is alive throughout, so that of an exclusive record it is
one lock or all shared ones (`LoadShared`), which lets a refresh move any timeout. The
one step that adds a direct lock is `Lock`: it was validated against records read at
one time and is appended to a record loaded at a later one, and `LoadedFromBefore`
says that nothing loaded then was not seen before. `IInv` adds to the two invariants
that what is being created has its parent among the paths, without which the locks it
inherits would not be any.

`OneRoot` proves `OneRootPerToken`. No record knows the others, so
the argument needs something that all of them follow: a map `root` from tokens to
paths (`Roots`) such that a direct lock of a token lies at its root and an indirect
entry has the root as its key and lies below it (`AgreeOn`), in the database and in
what a worker carries on its stack to hand down or to remove (`HandsRooted`).
`RootInvariance` proves that there always is one. Loading, purging, refreshing and
removing draw from what was there (`Drawn`), so they keep the map, and a delete that
fails keeps what followed it before; the one step that changes the map is `Lock`,
whose token is new, so that no record says anything of it. That what is below the
parent is below the parent's ancestors is `AboveMembers`; it is why `Ancestors` is
defined as the least set closed under parents.

`LockServiceKept` proves `LockServiceSpec`, that `DavLocking` implements `LockService`
with the locks that the records keep (`Kept`) for its locks and the tokens in use for
those granted. Each action is first brought to one of four kinds of step, stated about
the database alone: entries of one token, or expired ones, go (`Loss`), a path is
cleared (`Clearing`), the expiry of a token's entries is moved (`Moving`), or a lock
with a new token is added next to what it is compatible with (`Granting`). These are
then a `Release` or a `Pass`, a `Clear`, a `Refresh` and a `Grant`. A refresh moves
one lock of the service only if a record has its token once (`RecordsApart`) and no
other record has it (the map `root` above), so `SInv`, proved by `ServiceInvariance`,
is the invariant of the refinement. What a load drops on the way has expired, which
`Forget` allows; a delete that fails unnoticed brings back only what was there.

`LockReachesTree` proves `LockCoversTree` where `Mortal = {}`, as in `LocksDeep`: a
worker that dies between the creation of a path and `dav_notify_created` leaves a path
without the lock. `CInv` says that who walks has the lock file (`WalkerHolds`), that
whatever exists has its parent (`TreeClosed`), and, of every LOCK under way, that each
path below the locked one has its entry, or lies at or below a path that the walk is
still to come to, or where a call of it has failed, or at or below one that another
worker has created and is still to tell of (`Covers`). The last lets PUT and MKCOL
come in between two calls of the walk; as the walk has the file, they can only inherit
once it is over.

**Walks** (`DavWalkProofs`; assumptions `NameAssumption`, `TreeAssumption`,
`BoundAssumption`). Every property of `WalkTree` but `WalkEnds` is a theorem, for any
trees, locked names, locations and depth, and any number of changes by others. The
argument is in layers, each an invariant that uses those before it:

- `Fits` (`StackSound`): the types (`TypeCorrect`), the stack and the request.
  `StackFits` says that each call was made by the one before it, for a member that
  this has read, that its path and its URI go one name further, its depth one less,
  and that the one resource all calls share has the two paths of the innermost.
  As the URI of the request leads to its path (`LookedUp`), so does the URI of every
  response: `ReportsResolveHolds`. The step that matters is a return: the caller cuts
  both paths back to where its own frame says they were.
- `PastTrue` (`PastSound`) and `FlagsFit` (`FlagsSound`): what the model remembers of
  the request is so, and what the calls hold on their C stacks was so at some time
  since the lookup. Together they give `FlagsTrueHolds`.
- `OnceFits`: no step that a call on the stack has still to make is for a path that
  has a response (`Avoids`); `NoTwiceHolds` follows. A locked name that is also a
  member is left out because the call has seen the member.
- `ListFits`: what is to be listed either has a response or lies ahead of some call on
  the stack; when the stack is empty it has one: `ListsAllHolds`.
- `CopyAllowed`: `mod_dav` has made sure that source and destination are apart;
  `NeverCopiesItsCopyHolds` follows. `ElsewhereSame`: outside the destination the tree
  is as it was; `SourceSurvivesHolds` follows, and of each step `CopyConfinedHolds`.
- `CopyFits`: the copy of a path of the source is in place as soon as the walk is not
  to come to it any more (`Pending`), and nothing else is at the destination;
  `CopyFaithfulHolds` follows when there is nothing left to come to.

`ListsAllHolds` and the theorems about COPY have the hypothesis `Root # Empty`: what is
exposed is not `"/"` but a zone or something in one. Of `"/"` the lock database finds
no locked names, `dav_repo_is_parent_resource` takes it for the parent of nothing, and
its copy would get the members' names glued to its own. `NeverCopiesItsCopy` is about
collections: the copy of an object is one call.

**Uploads** (`DavUploadProofs`; assumptions `PathAssumption`, `WorkerAssumption`,
`SizeAssumption`). `UploadTypes` is the type invariant, `ContainerBound` proves
`ContainerFits`, `StoresWhatIsSent` proves `StoredAsSent` and `KeepsUploadsWhole`
proves `OnlyWholeUploads`. A commit says nothing of the bytes written before it, so
`IInv` carries what an open stream has achieved (`Ordered`): the bytes of the object
up to the handle's position, followed by those in the container, are the body as far
as it was read, from the offset of the PUT. `SendsAll` says that what
`dav_repo_write_stream` ships and what it keeps are together what it held and what
came in, in that order, and `InOrderAdvances` that `Ordered` follows. The other half
is that nobody else touches what a stream `Relies` on: an object it has open is
locked by iRODS (`OwnOpen`, `NobodyOpen`, `NotThere`), and a temporary file, once
closed, is known to its upload alone (`TempsApart`), although nothing locks it and its
name is anything but unique; creating a file that exists fails, and that is what the
argument rests on.

**Downloads** (`DavDownloadProofs`; assumptions `LengthAssumption`,
`BufferAssumption`, `BoundAssumption`, `LimitAssumption`). `MergesExactly` proves
`MergeKeepsBytes`, `RangesLieInObject` proves `RangesInObject`, `SendsInPlace` proves
`SentInPlace`, `SendsNoMore` proves `NoMoreThanThere`, `ServesAsAsked` proves
`ServedAsAsked` and `DownloadTypes` is the type invariant, for objects of any length,
headers of any number of ranges, any limits and any number of replacements. `IInv`
says of the scan that its table and the range being merged lie in the object
(`ScanFits`) and cover what was asked for; that a range is not empty unless the object
is makes joining exact (`JoinBytes`: two ranges that touch are together the range from
the lower start to the higher end). Of an empty object `EmptyInv` says that nothing is
taken up until `0-` ends the header (`EmptyInvariance`). `ScanTakes` is the step of
the merge, `ClosedCovers` its end. Of each part that was sent `PartOK` says that it
lies in its range and in place, which `PartGrows` shows of one more read. That the
answer as a whole is what was asked for needs more than that (`SInv`): the version and
the length of the request are the object's until somebody replaces it (`FreshInv`);
from the decision about the header on, the ranges to send together are what was asked
for and the announced length is theirs, each part that was begun is one of them, and,
as long as the object is the one looked up, every part before the one being read is
complete and of that version (`PlanInv`). `DecidePlans` shows that the decision makes
such a plan whichever of its branches is taken; in `EndRangeServes` a range that ends
because the object does is complete, as it lies in the object and the object is
unchanged. For `NoMoreThanThere`, `SumInv` says that the scan's `sum_lengths` is the
sum of the ranges in its table, that the ranges of a table that is sent are together
no longer than the object, and that the parts sent are its ranges in order. What `Sum`
is takes an induction over the length of a sequence, which the lemmas replace by
taking the first position at which a statement fails (`FirstFailure`): running sums
exist (`SumsExist`), they are unique (`SumsUnique`), and no larger numbers have no
larger sum (`SumBelow`).

**Configuration** (`DirConfigProofs`; assumptions `TextAssumption`,
`NumberAssumption`, `NameAssumption`). `GroupingNeverMatters` proves
`GroupingDoesNotMatter` from the associativity of the merge (`MergeAssociative`);
`InnermostDecides` proves `NearestWins` and `ConfigTypes` the type invariant, for
any sections, directives, arguments and sizes of the types. `IInv` says of every
section that its options are what its directives ask for (`Follows`), unless a
buffer size has overflowed unnoticed, and of the merged configuration that it has of
every option what the innermost section so far has (`FromNearest`). The type of the
exposed root is worked out anew by the merge; that it still goes with the root is
`RootFits`, of every section and of the configuration. One lemma per directive shows
that what it sets is what it asks for (`ServerGood`, `BufferGood` and their like).

Left to TLC: liveness (`LockFileReleased`, `DownloadEnds`, `WalkEnds`), which is
beyond the prover, and the properties that the code breaks, of which a counterexample
says all. Every other property of a passing run is a theorem.

## 5. What is not modelled, and assumptions

- `mod_dav`, httpd and iRODS are external: the model has the hook calls
  `mod_dav` makes of each method and, for iRODS, calls that happen at once or
  fail. A successful `rcDataObjWrite` has stored every byte; an object open for
  writing is locked (iRODS 4.2.9 and later).
- Of the DBM calls, a delete by UNLOCK or DELETE may fail unnoticed (`Saved`). The
  delete of a record that a load has found expired succeeds: if it did not, the next
  load would find it expired again. A failing open, load or store at the path of the
  request ends it with an error and the file closed, which leaves the database as a
  worker's death does; below, in a walk, it is dropped, which is modelled. Only one
  worker has the file open at a time; that is the locking of the DBM type in use, not
  of `lock_local.c`.
- A refresh names one token (an `If` header may name more; the code treats each
  in the same way). The order of the lists of a record that one refresh saves
  more than once is that of one save.
- `append_locks` can also link an indirect lock that it is handed as it is
  (`lock_local.c:1006-1016`, `make_indirect` 0). `mod_dav` hands it new direct locks
  only, so that `AppendDirect` has no such case.
- The time between validating a request and appending its lock is that of one action,
  which reads the clock twice: the worker holds the file throughout.
- A path is taken to lie in a location if the location's names are its first ones;
  `strstr` (`repo.c:266`) also finds them followed by more letters. httpd matches a
  location up to a slash as well, and the destination of a COPY is looked up as a
  request to its own location.
- Formatting, parsing and logging: the XML of `get_supportedlock`, lock token
  strings, HTML listings, ETags.
- Walks: the members of a collection are read at once when it is opened, in any
  order afterwards; iRODS does not list a collection twice. A tree of DELETE and
  the removal before a COPY is removed at once (one iRODS call). The exposed root
  is one constant; which one it is for a user is `get_rods_root`, by the
  configuration of `DirConfig`.
- Downloads: the text of the header and of the boundaries of a multipart answer;
  conditional requests, which httpd decides.
- Property database (`propdb.c`) and live properties (`prop.c`): dead properties
  are not kept, every change is refused, and what is left formats a fixed list of
  names, one per call. There is no state for a property to be about.
- Directory listing (`listing.c`): HTML from one read of a collection.
- Registration of the hooks and logging (`mod_davrods.c`, `common.c`); build
  files, packaging, containers and the integration tests.

## 6. Plan

1. Done: locks, sessions and tickets, uploads, walks, downloads, configuration;
   deletes of lock records that fail unnoticed; proofs about all of them, and that
   `DavLocking` implements `LockService`.
2. Open: a lock database that is opened again by one request and fails to open
   (`lock_local.c:416`).
3. Open, for the proofs: abstract specifications of an upload (an object is replaced as
   a whole or not at all) and of a download, with the modules shown to implement them.
