------------------------------- MODULE DavWalk -------------------------------
(***************************************************************************)
(* Collections (repo.c): how a URI becomes an iRODS path, the walk over a  *)
(* collection and what lies below it, and the operations that use them:    *)
(* PROPFIND, COPY, MOVE, DELETE and MKCOL.                                 *)
(*                                                                         *)
(* One request is served at a time; other clients of iRODS create and      *)
(* remove members and lock names while it is.                              *)
(*                                                                         *)
(* A name is a sequence of letters and a path the sequence of its names: a *)
(* URI may also have empty names (a trailing slash, or one that the walk   *)
(* has put after it).                                                      *)
(*                                                                         *)
(* External: mod_dav, which looks up source and destination and refuses    *)
(* what it can; and iRODS, each call of which is one step that may fail.   *)
(***************************************************************************)
EXTENDS Picking, Bags

CONSTANTS Letter,      \* what names are made of
          Root,        \* rods_root, the exposed collection
          Base,        \* root_dir, the location that Davrods serves
          MaxLength,   \* MAX_NAME_LEN, as a number of names
          Infinity,    \* DAV_INFINITY, more than any tree is deep
          Trees,       \* the trees that may be there when a request comes
          Locks,       \* the sets of paths that may be locked then
          PropfindUri, SourceUri, TargetUri,  \* what requests ask for
          OtherPaths,  \* the paths that other clients create or remove
          MaxOthers    \* bound: what they do during a request

Empty == <<>>

\* An empty name is in URIs only.
Name == Seq(Letter) \ {Empty}
Path == Seq(Name)
Uri  == Seq(Seq(Letter))

Last(s) == s[Len(s)]

Front(s) == SubSeq(s, 1, Len(s) - 1)

Collection == "collection"

\* Whatever there is lies in a collection.
Closed(t) == \A p \in DOMAIN t : p # Empty => /\ Front(p) \in DOMAIN t
                                            /\ t[Front(p)] = Collection

ASSUME BoundAssumption ==
  MaxLength \in Nat /\ Infinity \in Nat \ {0, 1} /\ MaxOthers \in Nat

ASSUME NameAssumption ==
  /\ Root \in Path /\ Base \in Path /\ OtherPaths \subseteq Path
  /\ PropfindUri \cup SourceUri \cup TargetUri \subseteq Uri
  /\ \A names \in Locks : names \subseteq Path

\* No path in iRODS is as long as DAV_INFINITY, which is an int's largest.
ASSUME TreeAssumption ==
  \A t \in Trees : /\ Closed(t)
                   /\ \A p \in DOMAIN t : p \in Path /\ Len(p) <= Infinity

VARIABLES tree,      \* iRODS: what there is at each path in use
          locked,    \* the paths with a record in the lock database
          op,        \* the request
          stack,     \* the calls of walker, outermost first
          res,       \* the resource that all of them share
          reported,  \* the responses of a PROPFIND
          past       \* what has happened since the request was looked up

vars == <<tree, locked, op, stack, res, reported, past>>

-----------------------------------------------------------------------------
(* Paths and resources.                                                    *)

IsPrefixOf(s, t) == Len(s) <= Len(t) /\ SubSeq(t, 1, Len(s)) = s

TooLong(path) == Len(path) > MaxLength

InLocation(uri) == IsPrefixOf(Base, uri)

\* set_rods_path_from_uri puts the root before what follows the location in the
\* URI, and fails if that is too long.
Resolves(uri) ==
  InLocation(uri) /\ ~ TooLong(Root \o SubSeq(uri, Len(Base) + 1, Len(uri)))

\* parseRodsPathStr drops the empty names.
RodsPath(uri) ==
  Root \o Pick(uri, {i \in Len(Base) + 1 .. Len(uri) : uri[i] # Empty})

\* dav_repo_get_parent_resource cuts the last name off, and leaves the slash.
ParentUri(uri) ==
  LET t == IF Last(uri) = Empty /\ Len(uri) > 1 THEN Front(uri) ELSE uri
  IN  Front(t) \o <<Empty>>

There(path) == path \in DOMAIN tree

IsCollection(path) == There(path) /\ tree[path] = Collection

\* A collection to put path into.
HasParent(path) == path # Empty /\ IsCollection(Front(path))

Below(path) == {p \in DOMAIN tree : IsPrefixOf(path, p)}

\* get_dav_resource_rods_info.
Lookup(uri) == [uri |-> uri, rods |-> RodsPath(uri),
                exists |-> There(RodsPath(uri)),
                collection |-> IsCollection(RodsPath(uri))]

IsSame(r1, r2) == r1.rods = r2.rods

\* Mutant: only the collection that the child is a member of is its parent.
IsParentDirect(parent, child) ==
  parent.rods # Empty /\ parent.rods = Front(child.rods)

\* dav_repo_is_parent_resource: the path of the root, "/", is no prefix that a
\* slash follows.
IsParent(parent, child) ==
  /\ parent.rods # Empty /\ parent.rods # child.rods
  /\ IsPrefixOf(parent.rods, child.rods)

-----------------------------------------------------------------------------
(* State.                                                                  *)

None == [kind |-> "none"]

\* No response, or no resource that is being walked over.
NoResource == [uri |-> <<Empty>>, rods |-> Empty, exists |-> FALSE,
               collection |-> FALSE]

Frame(r, depth) == [phase |-> "visit", uri |-> r.uri, rods |-> r.rods,
                    depth |-> depth, left |-> {}, seen |-> {}, names |-> {}]

\* What is remembered of a request: whether all went well and nobody else did
\* anything so far, what there was and was locked at some time, and the tree
\* when it was looked up.
Looked == [calm |-> TRUE, others |-> 0, tree |-> tree,
           there |-> {<<p, IsCollection(p)>> : p \in DOMAIN tree},
           locked |-> locked]

Depth == {0, 1, Infinity}

Resource == [uri : Uri, rods : Path, exists : BOOLEAN, collection : BOOLEAN]

Requests ==
  [kind : {"PROPFIND", "COPY", "MOVE", "DELETE", "MKCOL"},
   phase : {"remove", "parent", "create", "rename", "walk", "done"},
   src : Resource, dst : Resource, depth : Depth,
   reply : {"none", "ok", "error", "fault"}]

Calls ==
  [phase : {"visit", "open", "members", "lockdb", "locknull"},
   uri : Uri, rods : Path, depth : 0 .. Infinity,
   left : SUBSET (Name \X BOOLEAN), seen : SUBSET Path, names : SUBSET Path]

Pasts ==
  [calm : BOOLEAN, others : 0 .. MaxOthers, tree : Trees \cup {<<>>},
   there : SUBSET (Path \X BOOLEAN), locked : SUBSET Path]

TypeOK ==
  /\ DOMAIN tree \subseteq Path /\ Closed(tree) /\ locked \subseteq Path
  /\ op \in Requests \cup {None}
  /\ stack \in Seq(Calls)
  /\ \A i \in 1 .. Len(stack) : ~ TooLong(stack[i].uri) /\ ~ TooLong(stack[i].rods)
  /\ stack # <<>> => op # None /\ op.phase = "walk"
  /\ res \in Resource
  /\ reported \in [BagToSet(reported) -> Nat] /\ BagToSet(reported) \subseteq Resource
  /\ past \in Pasts

-----------------------------------------------------------------------------
(* Requests.                                                               *)

Begin(kind, phase, src, dst, depth) ==
  /\ op = None
  /\ op' = [kind |-> kind, phase |-> phase, src |-> src, dst |-> dst,
            depth |-> depth, reply |-> "none"]
  /\ past' = Looked
  /\ UNCHANGED <<tree, locked, reported>>

\* dav_repo_walk from r, whose path is worked out once more.
StartWalk(r, depth) ==
  /\ ~ TooLong(r.uri)
  /\ res' = [r EXCEPT !.rods = RodsPath(r.uri)]
  /\ stack' = <<Frame(res', depth)>>

Propfind(uri, depth) ==
  LET r == Lookup(uri)
  IN  /\ Resolves(uri)
      /\ r.exists \/ r.rods \in locked
      /\ Begin("PROPFIND", "walk", r, r, depth)
      /\ StartWalk(r, depth)

\* mod_dav looks up both resources and refuses to put a collection into itself
\* or in the place of one that contains it.
Allowed(src, dst, depth, overwrite) ==
  /\ src.exists /\ ~ IsSame(src, dst)
  /\ dst.exists => overwrite
  /\ src.collection /\ depth = Infinity => ~ IsParent(src, dst)
  /\ src.collection => ~ IsParent(dst, src)

Copy(uri, target, depth, overwrite) ==
  LET src == Lookup(uri)
      dst == Lookup(target)
  IN  /\ Resolves(uri) /\ Resolves(target)
      /\ Allowed(src, dst, depth, overwrite)
      /\ Begin("COPY", IF dst.exists THEN "remove" ELSE "parent",
               src, dst, depth)
      /\ UNCHANGED <<stack, res>>

Move(uri, target, overwrite) ==
  LET src == Lookup(uri)
      dst == Lookup(target)
  IN  /\ Resolves(uri) /\ Resolves(target)
      /\ Allowed(src, dst, Infinity, overwrite)
      /\ Begin("MOVE", IF dst.exists THEN "remove" ELSE "rename",
               src, dst, Infinity)
      /\ UNCHANGED <<stack, res>>

Delete(uri) ==
  LET r == Lookup(uri)
  IN  /\ Resolves(uri) /\ r.exists
      /\ Begin("DELETE", "remove", r, r, Infinity)
      /\ UNCHANGED <<stack, res>>

Mkcol(uri) ==
  LET r == Lookup(uri)
  IN  /\ Resolves(uri) /\ ~ r.exists
      /\ Begin("MKCOL", "parent", r, r, 0)
      /\ UNCHANGED <<stack, res>>

-----------------------------------------------------------------------------
(* Removing, renaming, creating.                                           *)

Phase(phase) == op' = [op EXCEPT !.phase = phase]

Ended(reply) == [op EXCEPT !.phase = "done", !.reply = reply]

Done(reply) == op' = Ended(reply)

\* The request ends with an error, in phase.
Gives(phase, reply) ==
  /\ op.phase = phase
  /\ Done(reply)
  /\ past' = [past EXCEPT !.calm = FALSE]
  /\ UNCHANGED <<tree, locked, stack, res, reported>>

Without(paths) == [p \in DOMAIN tree \ paths |-> tree[p]]

With(path, node) == [p \in DOMAIN tree \cup {path} |->
                       IF p = path THEN node ELSE tree[p]]

\* dav_repo_remove_resource: a collection goes with all it has, an object alone.
Remove ==
  /\ op.kind # "none" /\ op.phase = "remove"
  /\ There(op.dst.rods) /\ op.dst.collection = IsCollection(op.dst.rods)
  /\ tree' = Without(Below(op.dst.rods))
  /\ IF op.kind = "DELETE" THEN Done("ok")
     ELSE Phase(IF op.kind = "COPY" THEN "parent" ELSE "rename")
  /\ UNCHANGED <<locked, stack, res, reported, past>>

RemoveFails == op.kind # "none" /\ Gives("remove", "error")

\* rcDataObjRename, of the kind of thing that was looked up.
Rename ==
  /\ op.kind = "MOVE" /\ op.phase = "rename"
  /\ There(op.src.rods) /\ op.src.collection = IsCollection(op.src.rods)
  /\ ~ There(op.dst.rods) /\ HasParent(op.dst.rods)
  /\ ~ IsPrefixOf(op.src.rods, op.dst.rods)
  /\ LET Moved(p) == op.dst.rods \o SubSeq(p, Len(op.src.rods) + 1, Len(p))
         from == Below(op.src.rods)
         rest == DOMAIN tree \ from
     IN  tree' = [p \in rest \cup {Moved(q) : q \in from} |->
                    IF p \in rest THEN tree[p]
                    ELSE tree[CHOOSE q \in from : Moved(q) = p]]
  /\ Done("ok")
  /\ UNCHANGED <<locked, stack, res, reported, past>>

RenameFails == op.kind = "MOVE" /\ Gives("rename", "error")

\* COPY and MKCOL look at the parent of what they make; "/" has none, and
\* neither looks whether there is one.
GetParent ==
  /\ op.kind \in {"COPY", "MKCOL"} /\ op.phase = "parent"
  /\ op.dst.uri # <<Empty>>
  /\ InLocation(ParentUri(op.dst.uri))
  /\ There(RodsPath(ParentUri(op.dst.uri)))
  /\ IF op.kind = "COPY" THEN Phase("walk") /\ StartWalk(op.src, op.depth)
     ELSE Phase("create") /\ UNCHANGED <<stack, res>>
  /\ UNCHANGED <<tree, locked, reported, past>>

NoParent ==
  /\ op.kind \in {"COPY", "MKCOL"}
  /\ IF op.dst.uri = <<Empty>> THEN Gives("parent", "fault")
     ELSE Gives("parent", "error")

Create ==
  /\ op.kind = "MKCOL" /\ op.phase = "create"
  /\ ~ There(op.dst.rods) /\ HasParent(op.dst.rods)
  /\ tree' = With(op.dst.rods, Collection)
  /\ Done("ok")
  /\ UNCHANGED <<locked, stack, res, reported, past>>

CreateFails == op.kind = "MKCOL" /\ Gives("create", "error")

-----------------------------------------------------------------------------
(* The walk.                                                               *)

Walking == stack # <<>>

Top == stack[Len(stack)]

TopBecomes(frame) == stack' = [stack EXCEPT ![Len(stack)] = frame]

\* Mutant: the path in iRODS is cut back, the URI is not.
ReturnsToPath(reply) ==
  IF Len(stack) = 1
  THEN Done(reply) /\ stack' = <<>> /\ UNCHANGED res
  ELSE /\ stack' = Front(stack)
       /\ res' = [res EXCEPT !.rods = stack[Len(stack) - 1].rods]
       /\ UNCHANGED op

CutBack(frame) == [res EXCEPT !.uri = frame.uri, !.rods = frame.rods]

\* The innermost walker returns.  Its caller cuts the paths back to its own, and
\* does not look at what it returned.
Returns(reply) ==
  IF Len(stack) = 1
  THEN Done(reply) /\ stack' = <<>> /\ UNCHANGED res
  ELSE LET caller == stack[Len(stack) - 1]
       IN  /\ stack' = Front(stack)
           /\ res' = CutBack(caller)
           /\ UNCHANGED op

\* The same, for a reason that is remembered.
ReturnsError ==
  /\ Returns("error")
  /\ past' = [past EXCEPT !.calm = FALSE]
  /\ UNCHANGED <<tree, locked, reported>>

\* Mutant: only an object ends the walk.
EndsAtObjects(depth) == ~ res.collection

EndsHere(depth) == depth = 0 \/ ~ res.collection

\* After the callback.
GoesOn ==
  IF EndsHere(Top.depth) THEN Returns("ok")
  ELSE TopBecomes([Top EXCEPT !.phase = "open"]) /\ UNCHANGED <<op, res>>

Visiting(kind) == Walking /\ op.kind = kind /\ Top.phase = "visit"

\* mod_dav's callback for PROPFIND.
VisitPropfind ==
  /\ Visiting("PROPFIND")
  /\ reported' = reported (+) SetToBag({res})
  /\ GoesOn
  /\ UNCHANGED <<tree, locked, past>>

\* Mutant: all that is copied comes to lie in the destination itself.
MirrorFlat(path) ==
  IF path = op.src.rods THEN op.dst.rods ELSE Append(op.dst.rods, Last(path))

\* Mutant: the rest of the path without the slash before it.
MirrorGlued(path) ==
  LET rest == SubSeq(path, Len(op.src.rods) + 1, Len(path))
  IN  IF rest = <<>> THEN op.dst.rods
      ELSE Front(op.dst.rods) \o <<Last(op.dst.rods) \o Head(rest)>> \o Tail(rest)

\* Where dav_copy_walk_callback copies path to.  After the root of iRODS, which
\* ends in its slash, the rest of the path has none.
Mirror(path) ==
  LET rest == SubSeq(path, Len(op.src.rods) + 1, Len(path))
  IN  IF op.src.rods = Empty /\ rest # <<>> /\ op.dst.rods # Empty
      THEN Front(op.dst.rods) \o <<Last(op.dst.rods) \o Head(rest)>> \o Tail(rest)
      ELSE op.dst.rods \o rest

\* rcCollCreate, or rcDataObjCopy with the force flag.
VisitCopy ==
  /\ Visiting("COPY")
  /\ LET to == Mirror(res.rods)
     IN  /\ ~ TooLong(to) /\ HasParent(to)
         /\ \/ res.collection /\ ~ There(to) /\ tree' = With(to, Collection)
            \/ /\ ~ res.collection /\ ~ IsCollection(to)
               /\ There(res.rods) /\ ~ IsCollection(res.rods)
               /\ tree' = With(to, tree[res.rods])
  /\ GoesOn
  /\ UNCHANGED <<locked, reported, past>>

VisitFails == Visiting("COPY") /\ ReturnsError

Members(path) == {p \in Below(path) : Len(p) = Len(path) + 1}

\* rclOpenCollection; what is read from it is what there is now.
Open ==
  /\ Walking /\ Top.phase = "open"
  /\ IsCollection(res.rods)
  /\ TopBecomes([Top EXCEPT !.phase = "members",
                   !.left = {<<Last(p), IsCollection(p)>> : p \in Members(res.rods)}])
  /\ UNCHANGED <<tree, locked, op, res, reported, past>>

OpenFails == Walking /\ Top.phase = "open" /\ ReturnsError

Reading == Walking /\ Top.phase = "members"

\* The path of a member; nothing is put between the slash "/" and a name.
Join(path, name) == IF path = <<Empty>> THEN <<name>> ELSE Append(path, name)

TooLongWith(name) ==
  TooLong(Append(res.uri, name)) \/ TooLong(Append(res.rods, name))

\* Mutant: the walk of a member may go as deep as that of the collection.
MemberDepthSame(depth) == depth

MemberDepth(depth) == depth - 1

\* The shared resource becomes the member, and a walker is called for it.
Member(entry) ==
  LET name == entry[1]
  IN  /\ Reading /\ entry \in Top.left /\ ~ TooLongWith(name)
      /\ res' = [uri |-> Join(res.uri, name), rods |-> Append(res.rods, name),
                 exists |-> TRUE, collection |-> entry[2]]
      /\ stack' = Front(stack) \o
           <<[Top EXCEPT !.left = @ \ {entry}, !.seen = @ \cup {res'.rods}],
             Frame(res', MemberDepth(Top.depth))>>
      /\ UNCHANGED <<tree, locked, op, reported, past>>

\* rclReadCollection fails, or the path of the member is too long.
ReadFails == Reading /\ ReturnsError

\* A member whose path is too long is always an error.
EndMembers ==
  /\ Reading /\ Top.left = {}
  /\ IF op.kind = "PROPFIND"
     THEN TopBecomes([Top EXCEPT !.phase = "lockdb"]) /\ UNCHANGED <<op, res>>
     ELSE Returns("ok")
  /\ UNCHANGED <<tree, locked, reported, past>>

-----------------------------------------------------------------------------
(* Names that are locked and not there, listed after the members.          *)

\* davrods_locklocal_get_locked_entries: of the root, "/", none is found.
LockedEntries(path) ==
  {p \in locked : path # Empty /\ IsPrefixOf(path, p) /\ Len(p) = Len(path) + 1}

LockDb ==
  /\ Walking /\ Top.phase = "lockdb"
  /\ TopBecomes([Top EXCEPT !.phase = "locknull",
                             !.names = LockedEntries(res.rods)])
  /\ UNCHANGED <<tree, locked, op, res, reported, past>>

LockDbFails == Walking /\ Top.phase = "lockdb" /\ ReturnsError

\* Mutant: no name is taken for a member that has been listed.
SeenNone(frame, path) == FALSE

Seen(frame, path) == path \in frame.seen

\* Mutant: the loop goes on to the next name only after a response.
NamesUnseen(frame, path) ==
  IF Seen(frame, path) THEN frame.names ELSE frame.names \ {path}

NamesAfter(frame, path) == frame.names \ {path}

\* Mutant: the resource still exists if the member before it did.
NullAs(path) == [res EXCEPT !.uri = Join(res.uri, Last(path)), !.rods = path,
                            !.collection = FALSE]

NullResource(path) == [uri |-> Join(res.uri, Last(path)), rods |-> path,
                       exists |-> FALSE, collection |-> FALSE]

LockNull(path) ==
  /\ Walking /\ Top.phase = "locknull" /\ path \in Top.names
  /\ TopBecomes([Top EXCEPT !.names = NamesAfter(Top, path)])
  /\ IF Seen(Top, path) THEN UNCHANGED <<res, reported>>
     ELSE /\ ~ TooLongWith(Last(path))
          /\ reported' = reported (+) SetToBag({NullResource(path)})
          /\ res' = [res EXCEPT !.exists = FALSE, !.collection = FALSE]
  /\ UNCHANGED <<tree, locked, op, past>>

LockNullTooLong ==
  /\ Walking /\ Top.phase = "locknull"
  /\ \E path \in Top.names : ~ Seen(Top, path) /\ TooLongWith(Last(path))
  /\ ReturnsError

EndLockNull ==
  /\ Walking /\ Top.phase = "locknull" /\ Top.names = {}
  /\ Returns("ok")
  /\ UNCHANGED <<tree, locked, reported, past>>

-----------------------------------------------------------------------------
(* Other clients, and the next request.                                    *)

OtherStep ==
  /\ op # None /\ op.phase # "done" /\ past.others < MaxOthers
  /\ UNCHANGED <<op, stack, res, reported>>

\* What is there and locked afterwards has been so at some time.
Happens(paths) ==
  past' = [past EXCEPT !.calm = FALSE, !.others = @ + 1,
             !.there = @ \cup paths, !.locked = @ \cup locked']

OtherCreates(path, node) ==
  /\ OtherStep
  /\ ~ There(path) /\ HasParent(path)
  /\ tree' = With(path, node)
  /\ UNCHANGED locked
  /\ Happens({<<path, node = Collection>>})

OtherRemoves(path) ==
  /\ OtherStep
  /\ There(path)
  /\ tree' = Without(Below(path))
  /\ UNCHANGED locked
  /\ Happens({})

OtherLocks(path) ==
  /\ OtherStep
  /\ path \notin locked
  /\ locked' = locked \cup {path}
  /\ UNCHANGED tree
  /\ Happens({})

Others ==
  \E path \in OtherPaths :
    \/ \E node \in {Collection, "new"} : OtherCreates(path, node)
    \/ OtherRemoves(path)
    \/ OtherLocks(path)

Nothing == [calm |-> TRUE, others |-> 0, tree |-> <<>>, there |-> {}, locked |-> {}]

\* The answer is sent; what is there when the next request comes is anything.
Answer ==
  /\ op # None /\ op.phase = "done"
  /\ tree' \in Trees /\ locked' \in Locks
  /\ op' = None /\ res' = NoResource /\ reported' = EmptyBag /\ past' = Nothing
  /\ UNCHANGED stack

-----------------------------------------------------------------------------

Init ==
  /\ tree \in Trees /\ locked \in Locks
  /\ op = None /\ stack = <<>> /\ res = NoResource
  /\ reported = EmptyBag /\ past = Nothing

Request ==
  \/ \E uri \in PropfindUri, depth \in Depth : Propfind(uri, depth)
  \/ \E uri \in SourceUri, target \in TargetUri, overwrite \in BOOLEAN :
       \/ \E depth \in {0, Infinity} : Copy(uri, target, depth, overwrite)
       \/ Move(uri, target, overwrite)
  \/ \E uri \in SourceUri : Delete(uri)
  \/ \E uri \in TargetUri : Mkcol(uri)

\* A call for the request under way: each of iRODS's comes back, done or failed.
Call ==
  \/ Remove \/ RemoveFails \/ Rename \/ RenameFails
  \/ GetParent \/ NoParent \/ Create \/ CreateFails
  \/ VisitPropfind \/ VisitCopy \/ VisitFails
  \/ Open \/ OpenFails
  \/ Walking /\ \E entry \in Top.left : Member(entry)
  \/ ReadFails \/ EndMembers
  \/ LockDb \/ LockDbFails
  \/ Walking /\ \E path \in Top.names : LockNull(path)
  \/ LockNullTooLong \/ EndLockNull

Next == Request \/ Call \/ Others \/ Answer

Spec == Init /\ [][Next]_vars

FairSpec == Spec /\ WF_vars(Call)

-----------------------------------------------------------------------------
(* Properties.                                                             *)

Answered(kind) == op # None /\ op.kind = kind /\ op.phase = "done"

\* The URI of every response of a PROPFIND leads back to the resource that the
\* response is about: the two paths that the walk extends and cuts back by hand
\* never part, however deep a walker has returned from, and however it ended.
ReportsResolve ==
  \A r \in BagToSet(reported) : InLocation(r.uri) /\ RodsPath(r.uri) = r.rods

\* Every response says of its resource what was so at some time during the
\* request: that there was such an object or collection, or that there was none
\* but its name was locked.  (The walk writes all responses from one structure,
\* whose flags are left as the last member had them.)
FlagsTrue ==
  \A r \in BagToSet(reported) :
    IF r.exists THEN <<r.rods, r.collection>> \in past.there
    ELSE r.rods \in past.locked /\ (There(r.rods) => past.others > 0)

\* No resource has two responses, whatever is locked, created or removed while
\* its collection is read.
NoTwice ==
  \A r, s \in BagToSet(reported) :
    r.rods = s.rods => r = s /\ reported[r] = 1

\* How deep below the resource of the request path lies.
DepthOf(path) == Len(path) - Len(op.src.rods)

\* A PROPFIND that nothing disturbed lists all that the tree and the lock
\* database have, down to its depth, and nothing else.
ListsAll ==
  Answered("PROPFIND") /\ past.calm =>
    LET InDepth(p) == IsPrefixOf(op.src.rods, p) /\ DepthOf(p) <= op.depth
        LockedName(p) == ~ There(p) /\ (p = op.src.rods \/ HasParent(p))
    IN  {r.rods : r \in BagToSet(reported)} =
          {p \in DOMAIN tree : InDepth(p)}
            \cup {p \in locked : InDepth(p) /\ LockedName(p)}

\* Where path comes to lie when the source becomes the destination.
Target(path) ==
  op.dst.rods \o SubSeq(path, Len(op.src.rods) + 1, Len(path))

\* The destination has all of the source, each thing at its place and of its
\* kind, and nothing else.
Whole ==
  LET source == {p \in DOMAIN past.tree :
                   IsPrefixOf(op.src.rods, p) /\ DepthOf(p) <= op.depth}
  IN  /\ Below(op.dst.rods) = {Target(p) : p \in source}
      /\ \A p \in source : tree[Target(p)] = past.tree[p]

\* A COPY or MOVE that nothing disturbed makes the destination what the source
\* was when it was looked up, also where the destination was replaced.
CopyFaithful ==
  (Answered("COPY") \/ Answered("MOVE")) /\ past.calm => Whole

\* A request changes nothing but the destination and what lies below it (the
\* source too, if it is a MOVE), also where a call of it fails or where others
\* change what it has looked up.
CopyConfined ==
  [][op # None /\ op.phase # "done" /\ past'.others = past.others =>
       \A p \in DOMAIN tree \cup DOMAIN tree' :
         \/ p \in DOMAIN tree \cap DOMAIN tree' /\ tree'[p] = tree[p]
         \/ IsPrefixOf(op.dst.rods, p)
         \/ op.kind = "MOVE" /\ IsPrefixOf(op.src.rods, p)]_vars

\* The walk over a collection that is being copied never comes to the copy, so
\* that it ends (the test for it compares the paths as strings).
NeverCopiesItsCopy ==
  op # None /\ op.kind = "COPY" /\ op.src.collection =>
    \A i \in 1 .. Len(stack) : ~ IsPrefixOf(op.dst.rods, stack[i].rods)

\* Copying a collection leaves it as it is, also where the destination that is
\* removed before it lies above or below it, and also if the copy fails.
SourceSurvives ==
  op # None /\ op.kind = "COPY" /\ op.src.collection /\ past.others = 0 =>
    \A p \in DOMAIN past.tree :
      IsPrefixOf(op.src.rods, p) /\ DepthOf(p) <= op.depth =>
        There(p) /\ tree[p] = past.tree[p]

\* Every request is answered, whatever others do meanwhile (their number is
\* bounded only because a collection that grows for ever is read for ever).
WalkEnds == (op # None) ~> (op = None \/ op.phase = "done")

\* "Aborting copy." (the message of dav_copy_walk_callback): a COPY of a whole
\* collection that is answered as done has copied all of it.  Broken: the walk
\* ignores what the walk of a member returns.
CopyToldWhole ==
  Answered("COPY") /\ op.reply = "ok" /\ past.others = 0 => Whole
=============================================================================
