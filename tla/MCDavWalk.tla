------------------------------ MODULE MCDavWalk ------------------------------
(* Instances of DavWalk: the location /dav serves the collection /z.       *)
EXTENDS DavWalk, TLC

Letters == {"d", "z", "a", "b", "c"}

Dav == <<"d">>
Zone == <<"z">>
A == <<"a">>
B == <<"b">>
C == <<"c">>

RootPath == <<Zone>>
BasePath == <<Dav>>

InZone(paths) == {<<Zone>> \o p : p \in paths}

Above == {<<>>, <<Zone>>}

\* The objects, each path with its content, and the collections.
Tree(objects, collections) ==
  [p \in Above \cup InZone(DOMAIN objects \cup collections) |->
     IF p \in Above \cup InZone(collections) THEN Collection
     ELSE objects[Tail(p)]]

\* A collection in a collection beside an object, another collection with some
\* deep in it; an object beside a collection that it could replace.
SomeTrees == {
  Tree(<<A, A>> :> "one" @@ <<A, B, A>> :> "two",
       {<<A>>, <<A, B>>, <<B>>, <<B, B>>, <<B, B, B>>}),
  Tree(<<A>> :> "one" @@ <<B, A>> :> "two", {<<B>>})}

\* Nothing; names that are free, one of them far down, and one in use.
SomeLocks ==
  {{}, {<<Zone, A, C>>, <<Zone, A, A>>, <<Zone, C>>, <<Zone, B, B, B, C>>}}

\* A slash at the end, the location itself, a name that is not there.
PropfindUris == {<<Dav, Empty>>, <<Dav, A>>, <<Dav, C>>}
SourceUris == {<<Dav, A>>, <<Dav, A, B>>, <<Dav, B, Empty>>}
TargetUris == {<<Dav>>, <<Dav, A>>, <<Dav, A, B, C>>, <<Dav, B>>, <<Dav, C>>,
               <<Dav, C, C>>}

Disturbed == {<<Zone, A, B>>, <<Zone, A, C>>}
=============================================================================
