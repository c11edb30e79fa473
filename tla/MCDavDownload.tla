---------------------------- MODULE MCDavDownload ----------------------------
(* Instances of DavDownload.                                               *)
EXTENDS DavDownload

\* Limits far above what the bounded headers reach, and limits that they do.
SomeLimits == {[ranges |-> Unlimited, overlaps |-> 20, reversals |-> 20],
               [ranges |-> 1, overlaps |-> 1, reversals |-> 0]}
=============================================================================
