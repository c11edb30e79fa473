---------------------------- MODULE MCDavSession ----------------------------
(***************************************************************************)
(* Locations of one virtual host: three with basic authentication, which   *)
(* differ in their scheme and their tickets, an anonymous one, one that is *)
(* both, one without either (the configuration error get_davrods_pool      *)
(* expects), and one in another zone.                                      *)
(***************************************************************************)
EXTENDS DavSession, TLC

CONSTANTS alice, guest, secret, other, here, there

Guest == [user |-> guest, password |-> secret]

Basic(server, scheme, tickets) ==
  [server |-> server, scheme |-> scheme, basic |-> TRUE, anon |-> FALSE,
   login |-> Guest, tickets |-> tickets]

\* The configurations of the locations that a run may name.
Site ==
  [loc \in Location |->
     CASE loc = "home"   -> Basic(here, "native", "readonly")
       [] loc = "pam"    -> Basic(here, "pam", "off")
       [] loc = "rest"   -> Basic(here, "native", "off")
       [] loc = "zone"   -> Basic(there, "native", "off")
       [] loc = "public" -> [Basic(here, "native", "readonly") EXCEPT
                               !.basic = FALSE, !.anon = TRUE]
       [] loc = "both"   -> [Basic(here, "native", "readwrite") EXCEPT
                               !.anon = TRUE]
       [] loc = "none"   -> [Basic(here, "native", "off") EXCEPT
                               !.basic = FALSE]]
Symmetric == Permutations(Agent)
=============================================================================
