--------------------------- MODULE MCDavLocking ---------------------------
(***************************************************************************)
(* Instances of DavLocking: `file' in `coll' in `home', or `file' and      *)
(* `coll' side by side in `home'.                                          *)
(***************************************************************************)
EXTENDS DavLocking, TLC

CONSTANTS home, coll, file

Deep == (home :> NoPath) @@ (coll :> home) @@ (file :> coll)
Flat == (home :> NoPath) @@ (coll :> home)

Symmetric == Permutations(Token) \cup Permutations(Worker)
=============================================================================
