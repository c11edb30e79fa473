---------------------------- MODULE MCDavUpload ----------------------------
(***************************************************************************)
(* Instances of DavUpload.  Bodies of three bytes and a container of two   *)
(* make every way a chunk can meet the container happen.                   *)
(***************************************************************************)
EXTENDS DavUpload, TLC

Symmetric == Permutations(Worker)
=============================================================================
