------------------------------ MODULE DirConfig ------------------------------
(***************************************************************************)
(* The configuration (config.c, config.h): the directives of the sections  *)
(* of the configuration file, each of which sets options of its section,   *)
(* and the merge of the sections that apply to a request, outermost first. *)
(* An option that is not set is zero or NULL; whoever reads one falls back *)
(* to the default then (DAVRODS_CONF).                                     *)
(*                                                                         *)
(* External: httpd, which starts only if every directive is accepted, and  *)
(* merges, for each request, the sections that have directives of Davrods  *)
(* into that of the server, which has an empty one at least.               *)
(***************************************************************************)
EXTENDS Integers, Sequences, FiniteSets

CONSTANTS Plain,      \* the directives that set one option to their argument
          Accepted,   \* the arguments they accept
          Malformed,  \* the arguments they refuse
          Host, Port, UserName, Password,
          RootPath,   \* absolute paths of collections
          RootWord,   \* other words than Zone, Home and User
          Ttl, MaxTtl, \* the largest value of an int32_t
          Kbs, Kib,   \* buffer sizes that are asked for; 1024
          SizeLimit,  \* the values of a size_t are 0 .. SizeLimit - 1
          NULL,
          MaxSections, MaxDirectives  \* bounds

ASSUME TextAssumption ==
  NULL \notin Accepted \cup Malformed \cup Host \cup UserName \cup Password
              \cup RootPath \cup RootWord \cup {"Zone", "Home", "User", ""}

ASSUME NumberAssumption ==
  /\ Port \subseteq Int /\ Ttl \subseteq Int /\ Kbs \subseteq Nat
  /\ MaxTtl \in Nat /\ Kib \in Nat \ {0} /\ SizeLimit \in Nat \ {0}
  /\ MaxSections \in Nat \ {0} /\ MaxDirectives \in Nat

ASSUME NameAssumption ==
  /\ Plain \cap {"Server", "AnonymousLogin", "ExposedRoot", "AuthTTL",
                 "TxBuffer", "RxBuffer"} = {}
  /\ Plain \cap {"host", "port", "username", "password", "root", "root_type",
                 "ttl", "tx", "rx"} = {}

VARIABLES phase,     \* of the server: reading, refused, merging, fault
          sections,  \* the options of each section, outermost first
          asked,     \* what the directives of each section asked for
          conf,      \* the configuration of the request, as far as it is merged
          merged     \* the sections that are merged into it

vars == <<phase, sections, asked, conf, merged>>

-----------------------------------------------------------------------------
(* Options.                                                                *)

Number == {"port", "root_type", "ttl", "tx", "rx"}

Option == Plain \cup {"host", "username", "password", "root"} \cup Number

Unset(o) == IF o \in Number THEN 0 ELSE NULL

Empty == [o \in Option |-> Unset(o)]

\* DAVRODS_ROOT_CUSTOM_DIR, _ZONE_DIR, _HOME_DIR and _USER_DIR.
RootType(root) == CASE root = "Zone" -> 2 [] root = "Home" -> 3
                    [] root = "User" -> 4 [] OTHER -> 1

\* default_config.
Default(o) == CASE o = "host" -> "localhost" [] o = "port" -> 1247
                [] o = "username" -> "anonymous" [] o = "password" -> ""
                [] o = "root" -> "User" [] o = "root_type" -> RootType("User")
                [] o = "ttl" -> 1
                [] o \in {"tx", "rx"} -> 4096 * Kib
                [] OTHER -> "default"

\* DAVRODS_CONF.
Effective(c, o) == IF c[o] # Unset(o) THEN c[o] ELSE Default(o)

-----------------------------------------------------------------------------
(* Merging.                                                                *)

MergeOption(parent, child, o) ==
  IF child[o] # Unset(o) THEN child[o] ELSE parent[o]

\* Mutant: an option that neither has is given its default.
MergeDefaulted(parent, child) ==
  [o \in Option |->
     IF MergeOption(parent, child, o) # Unset(o)
     THEN MergeOption(parent, child, o) ELSE Default(o)]

\* Mutant: the type is taken from the inner section, set or not.
MergeTypeOfChild(parent, child) ==
  [o \in Option |-> IF o = "root_type" THEN child[o]
                    ELSE MergeOption(parent, child, o)]

\* davrods_merge_dir_config; set_exposed_root works the type out anew.
Merge(parent, child) ==
  [o \in Option |-> IF o = "root_type"
                    THEN RootType(MergeOption(parent, child, "root"))
                    ELSE MergeOption(parent, child, o)]

\* set_exposed_root compares the name that neither section has.
Faults(parent, child) == MergeOption(parent, child, "root") = NULL

-----------------------------------------------------------------------------
(* Directives.                                                             *)

Directive == Plain \cup {"Server", "AnonymousLogin", "ExposedRoot", "AuthTTL",
                         "TxBuffer", "RxBuffer"}

OptionsOf(d) == CASE d = "Server" -> {"host", "port"}
                  [] d = "AnonymousLogin" -> {"username", "password"}
                  [] d = "ExposedRoot" -> {"root", "root_type"}
                  [] d = "AuthTTL" -> {"ttl"}
                  [] d = "TxBuffer" -> {"tx"}
                  [] d = "RxBuffer" -> {"rx"}
                  [] OTHER -> {d}

NotAsked == <<>>

NothingAsked == [d \in Directive |-> NotAsked]

Last == Len(sections)

Given == {s \in (1 .. Last) \X Directive : asked[s[1]][s[2]] # NotAsked}

Reading == phase = "reading" /\ Cardinality(Given) < MaxDirectives

HasDirectives(i) == \E d \in Directive : asked[i][d] # NotAsked

\* Directive d is accepted: it gives the options the values in opts, for what
\* the administrator meant by it.
Sets(d, opts, meant) ==
  /\ Reading
  /\ sections' = [sections EXCEPT ![Last] =
       [o \in Option |-> IF o \in DOMAIN opts THEN opts[o] ELSE @[o]]]
  /\ asked' = [asked EXCEPT ![Last][d] = meant]
  /\ UNCHANGED <<phase, conf, merged>>

\* httpd reports what a directive returns, and does not start.
Refuses ==
  /\ Reading
  /\ phase' = "refused"
  /\ UNCHANGED <<sections, asked, conf, merged>>

\* The directives of one option, up to what their arguments may be.
SetPlain(d, text) ==
  \/ text \in Accepted /\ Sets(d, [o \in {d} |-> text], [o \in {d} |-> text])
  \/ text \in Malformed /\ Refuses

\* The port is a uint16_t.
MaxPort == 65535

PortInRange(port) == 1 <= port /\ port <= MaxPort

SetServer(host, port) ==
  LET opts == [host |-> host, port |-> port % (MaxPort + 1)]
  IN  \/ PortInRange(port)
         /\ Sets("Server", opts, [host |-> host, port |-> port])
      \/ ~ PortInRange(port) /\ Refuses

\* A login without a password (here, one that is empty) has an empty one: it
\* does not leave the password to an outer section.
SetAnonymousLogin(username, password) ==
  LET opts == [username |-> username, password |-> password]
  IN  \/ username # "" /\ Sets("AnonymousLogin", opts, opts)
      \/ username = "" /\ Refuses

SetExposedRoot(root) ==
  LET opts == [root |-> root, root_type |-> RootType(root)]
  IN  \/ root \notin RootWord /\ Sets("ExposedRoot", opts, opts)
      \/ root \in RootWord /\ Refuses

\* Mutant: a lifetime that does not fit an int32_t is accepted.
TtlPositive(ttl) == 0 < ttl

TtlInRange(ttl) == 0 < ttl /\ ttl <= MaxTtl

SetAuthTtl(ttl) ==
  \/ TtlInRange(ttl) /\ Sets("AuthTTL", [ttl |-> ttl], [ttl |-> ttl])
  \/ ~ TtlInRange(ttl) /\ Refuses

\* A number of kibibytes, as a size_t; asking for none is not asking.  The
\* product is refused if it came out smaller than the number, which tells some
\* of the overflows.
SetBuffer(d, o, kb) ==
  LET size == (kb * Kib) % SizeLimit
  IN  \/ /\ kb < SizeLimit /\ size >= kb
         /\ Sets(d, [x \in {o} |-> size],
                 IF kb = 0 THEN NotAsked ELSE [x \in {o} |-> kb * Kib])
      \/ (kb >= SizeLimit \/ size < kb) /\ Refuses

\* The next section, inside the last one.  One without a directive of Davrods
\* has no configuration to merge.
Section ==
  /\ Reading /\ Last < MaxSections /\ (Last = 1 \/ HasDirectives(Last))
  /\ sections' = Append(sections, Empty)
  /\ asked' = Append(asked, NothingAsked)
  /\ UNCHANGED <<phase, conf, merged>>

-----------------------------------------------------------------------------
(* Requests.                                                               *)

\* The server has started, or the next request comes in.
Request ==
  /\ phase = "reading" \/ (phase = "merging" /\ merged = Last)
  /\ \A i \in 2 .. Last : HasDirectives(i)
  /\ phase' = "merging"
  /\ conf' = sections[1] /\ merged' = 1
  /\ UNCHANGED <<sections, asked>>

MergeNext ==
  /\ phase = "merging" /\ merged < Last
  /\ IF Faults(conf, sections[merged + 1])
     THEN phase' = "fault" /\ UNCHANGED <<conf, merged>>
     ELSE /\ conf' = Merge(conf, sections[merged + 1])
          /\ merged' = merged + 1
          /\ UNCHANGED phase
  /\ UNCHANGED <<sections, asked>>

\* The administrator starts over.
Restart ==
  /\ phase \in {"refused", "fault"}
  /\ phase' = "reading" /\ sections' = <<Empty>> /\ asked' = <<NothingAsked>>
  /\ conf' = Empty /\ merged' = 0

Init ==
  /\ phase = "reading" /\ sections = <<Empty>> /\ asked = <<NothingAsked>>
  /\ conf = Empty /\ merged = 0

ReadDirective ==
  \/ \E d \in Plain, text \in Accepted \cup Malformed : SetPlain(d, text)
  \/ \E host \in Host, port \in Port : SetServer(host, port)
  \/ \E u \in UserName \cup {""}, p \in Password : SetAnonymousLogin(u, p)
  \/ \E root \in RootPath \cup RootWord \cup {"Zone", "Home", "User"} :
       SetExposedRoot(root)
  \/ \E ttl \in Ttl : SetAuthTtl(ttl)
  \/ \E kb \in Kbs : SetBuffer("TxBuffer", "tx", kb) \/ SetBuffer("RxBuffer", "rx", kb)

Next == ReadDirective \/ Section \/ Request \/ MergeNext \/ Restart

Spec == Init /\ [][Next]_vars

-----------------------------------------------------------------------------
(* Properties.                                                             *)

TypeOK ==
  /\ phase \in {"reading", "refused", "merging", "fault"}
  /\ \A i \in 1 .. Last :
       /\ DOMAIN sections[i] = Option
       /\ sections[i]["port"] \in 0 .. MaxPort
       /\ sections[i]["root_type"] \in 0 .. 4
       /\ sections[i]["ttl"] \in 0 .. MaxTtl
       /\ {sections[i]["tx"], sections[i]["rx"]} \subseteq 0 .. SizeLimit - 1
  /\ Len(asked) = Last /\ merged \in 0 .. Last
  /\ DOMAIN conf = Option

\* What directive d asks for in the innermost section that has it, or nothing.
Nearest(d) ==
  LET having == {i \in 1 .. Last : asked[i][d] # NotAsked}
  IN  IF having = {} THEN NotAsked
      ELSE asked[CHOOSE i \in having : \A j \in having : j <= i][d]

\* The configuration of a request is the one its sections describe: the
\* innermost section that has a directive decides about all options of it
\* together (a host is never served with another server's port, a login with
\* another login's password, a root as the kind of another), and where none
\* has it the documented default is in force.  A buffer size that has
\* overflowed unnoticed is left out.
NearestWins ==
  phase = "merging" /\ merged = Last =>
    \A d \in Directive, o \in Option :
      o \in OptionsOf(d) =>
        \/ Nearest(d) = NotAsked /\ Effective(conf, o) = Default(o)
        \/ Nearest(d) # NotAsked /\ Effective(conf, o) = Nearest(d)[o]
        \/ d \in {"TxBuffer", "RxBuffer"} /\ Nearest(d) # NotAsked
           /\ Nearest(d)[o] >= SizeLimit

\* It does not matter in which order httpd merges the sections (those of the
\* server and a virtual host when it starts, the locations for each request).
GroupingDoesNotMatter ==
  \A i, j, k \in 1 .. Last :
    i < j /\ j < k /\ ~ Faults(sections[i], sections[j])
    /\ ~ Faults(sections[j], sections[k]) =>
      Merge(Merge(sections[i], sections[j]), sections[k])
        = Merge(sections[i], Merge(sections[j], sections[k]))

\* "Having these directives commented out has the effect of enabling the listed
\* default option" (aux/rpm/davrods-vhost.conf): a request is served whichever
\* directives its sections have.  Broken: where no section has ExposedRoot and
\* there is something to merge, set_exposed_root compares a null string.
DefaultsServe == phase # "fault"
=============================================================================
