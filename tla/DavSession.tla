----------------------------- MODULE DavSession -----------------------------
(***************************************************************************)
(* The iRODS session of one keepalive connection of a client: the Davrods  *)
(* memory pool that is kept in the connection (auth.c), the agents it has  *)
(* logged in to, and the requests that reuse them, each in some <Location> *)
(* with a configuration of its own (repo.c, get_davrods_pool and           *)
(* dav_repo_get_resource).                                                 *)
(*                                                                         *)
(* A request looks up one resource, or, for COPY and MOVE, two: mod_dav    *)
(* looks the destination up with a subrequest, which httpd authenticates   *)
(* anew when it falls in another location (external).  Requests of one     *)
(* connection are served one after the other.                              *)
(***************************************************************************)
EXTENDS Naturals

CONSTANTS Location, Server, User, Password, Ticket, NoTicket, NoCredential,
          NoLocation,
          Agent,   \* the connections to iRODS opened on behalf of the client
          Config   \* the configuration of each location

Credential == [user : User, password : Password]

Scheme == {"native", "pam"}

\* server: host, port and zone; basic: the location asks for Davrods' basic
\* authentication; login: the anonymous credentials.
LocationConfig ==
  [server : Server, scheme : Scheme, basic : BOOLEAN, anon : BOOLEAN,
   login : Credential, tickets : {"off", "readonly", "readwrite"}]

ASSUME ConfigAssumption ==
  /\ Config \in [Location -> LocationConfig]
  /\ NoLocation \notin Location
  /\ NoCredential \notin Credential
  /\ NoTicket \notin Ticket

VARIABLES client,   \* whether the client's TCP connection is open
          pool,     \* the session kept in davrods_pool
          agents,   \* what has become of each agent
          request   \* the request being served

vars == <<client, pool, agents, request>>

\* No davrods_pool yet, or one that was cleared.
NoSession == [kept |-> FALSE]

Session == [kept : {TRUE}, agent : Agent, login : Credential, scheme : Scheme,
            anon : BOOLEAN, active_ticket : Ticket \cup {NoTicket}]

Unborn == [state |-> "unborn"]
Gone   == [state |-> "gone"]

\* An agent keeps one active ticket; "refused" once it failed a ticket call.
OpenAgent == [state : {"open"}, server : Server, login : Credential,
              scheme : Scheme, ticket : Ticket \cup {NoTicket},
              refused : BOOLEAN]

Idle == [phase |-> "idle"]

\* at: the location whose resource is being looked up, or was last;
\* next: that of the destination; handles: the resources found so far, with
\* the rods_conn each was given; flag: davrods_request_was_basic_authed.
Request ==
  [phase : {"authn", "pool", "ticket", "act", "write", "move"}, at : Location,
   next : Location \cup {NoLocation}, creds : Credential \cup {NoCredential},
   ticket : Ticket \cup {NoTicket}, flag : BOOLEAN,
   handles : SUBSET (Location \X Agent)]

TypeOK == /\ client \in {"open", "closed"}
          /\ pool \in Session \cup {NoSession}
          /\ agents \in [Agent -> OpenAgent \cup {Unborn, Gone}]
          /\ request \in Request \cup {Idle}

-----------------------------------------------------------------------------
(* Logging in.                                                             *)

\* davrods_user_can_reuse_connection, without and with credentials.
CanReuseMaybe(loc) == /\ pool.kept
                      /\ pool.anon = Config[loc].anon
                      /\ pool.scheme = Config[loc].scheme

\* Mutant: the password is not compared.
CanReuseUser(loc, creds) == CanReuseMaybe(loc) /\ pool.login.user = creds.user

\* Mutant: no open connection will do.
CanReuseNone(loc, creds) == FALSE

CanReuse(loc, creds) == CanReuseMaybe(loc) /\ pool.login = creds

\* apr_pool_clear runs rods_conn_cleanup.
Cleared == IF pool.kept THEN [agents EXCEPT ![pool.agent] = Gone] ELSE agents

LoggedIn(loc, creds) ==
  [state |-> "open", server |-> Config[loc].server, login |-> creds,
   scheme |-> Config[loc].scheme, ticket |-> NoTicket, refused |-> FALSE]

\* Mutant: active_ticket outlives the pool that is cleared.
GrantedKeepTicket(loc, creds, a) ==
  /\ ~ CanReuse(loc, creds)
  /\ Cleared[a] = Unborn
  /\ agents' = [Cleared EXCEPT ![a] = LoggedIn(loc, creds)]
  /\ pool' = [kept |-> TRUE, agent |-> a, login |-> creds,
              scheme |-> Config[loc].scheme, anon |-> Config[loc].anon,
              active_ticket |-> IF pool.kept THEN pool.active_ticket
                                ELSE NoTicket]

\* check_rods opens a connection, and keeps it with what it is good for.
Granted(loc, creds, a) ==
  /\ ~ CanReuse(loc, creds)
  /\ Cleared[a] = Unborn
  /\ agents' = [Cleared EXCEPT ![a] = LoggedIn(loc, creds)]
  /\ pool' = [kept |-> TRUE, agent |-> a, login |-> creds,
              scheme |-> Config[loc].scheme, anon |-> Config[loc].anon,
              active_ticket |-> NoTicket]

\* It fails: the name or the password is too long, iRODS is not there, or
\* denies the login and is disconnected; or a return between rcConnect and
\* the end (SSL is not as negotiated, sslStart or sslEnd fails) leaves the
\* agent behind.
NotGranted(loc, creds) ==
  /\ ~ CanReuse(loc, creds)
  /\ \/ agents' = Cleared
     \/ \E a \in Agent : /\ Cleared[a] = Unborn
                         /\ agents' = [Cleared EXCEPT ![a] = LoggedIn(loc, creds)]
  /\ pool' = NoSession

-----------------------------------------------------------------------------
(* The steps of a request.                                                 *)

\* httpd reads a request.  One that needs credentials and has none is
\* refused before Davrods sees it.
Receive(loc, dest, creds, ticket) ==
  /\ client = "open" /\ request = Idle
  /\ Config[loc].basic => creds # NoCredential
  /\ request' = [phase |-> IF Config[loc].basic THEN "authn" ELSE "pool",
                 at |-> loc, next |-> dest, creds |-> creds,
                 ticket |-> ticket, flag |-> FALSE, handles |-> {}]
  /\ UNCHANGED <<client, pool, agents>>

\* basic_auth_irods.  The flag is set on the (sub)request that is being
\* authenticated, and read from the main request only.
Authenticated ==
  request' = [request EXCEPT !.phase = "pool",
                             !.flag = @ \/ request.handles = {}]

Authenticate ==
  /\ request.phase = "authn"
  /\ \/ /\ CanReuse(request.at, request.creds)
        /\ Authenticated
        /\ UNCHANGED <<pool, agents>>
     \/ /\ \E a \in Agent : Granted(request.at, request.creds, a)
        /\ Authenticated
     \/ /\ NotGranted(request.at, request.creds)
        /\ request' = Idle
  /\ UNCHANGED client

\* Mutant: the flag of the request is not looked at.
PoolFoundUnflagged ==
  /\ request.phase = "pool"
  /\ LET c == Config[request.at]
     IN  IF c.anon THEN CanReuse(request.at, c.login)
         ELSE CanReuseMaybe(request.at)
  /\ request' = [request EXCEPT !.phase = "ticket"]
  /\ UNCHANGED <<client, pool, agents>>

\* get_davrods_pool finds a session it may use.
PoolFound ==
  /\ request.phase = "pool"
  /\ LET c == Config[request.at]
     IN  IF c.anon THEN CanReuse(request.at, c.login)
         ELSE CanReuseMaybe(request.at) /\ request.flag
  /\ request' = [request EXCEPT !.phase = "ticket"]
  /\ UNCHANGED <<client, pool, agents>>

\* It logs in as the anonymous user ...
PoolAnonymous ==
  /\ request.phase = "pool" /\ Config[request.at].anon
  /\ LET login == Config[request.at].login
     IN  \/ /\ \E a \in Agent : Granted(request.at, login, a)
            /\ request' = [request EXCEPT !.phase = "ticket"]
         \/ /\ NotGranted(request.at, login)
            /\ request' = Idle
  /\ UNCHANGED client

\* ... or fails the request.
PoolRefused ==
  /\ request.phase = "pool" /\ ~ Config[request.at].anon
  /\ ~ (CanReuseMaybe(request.at) /\ request.flag)
  /\ request' = Idle
  /\ UNCHANGED <<client, pool, agents>>

\* set_session_ticket, when tickets are not off: the call is made if the
\* ticket is not the one kept, which it then is, whatever became of the call.
SetTicket ==
  IF Config[request.at].tickets = "off" \/ request.ticket = pool.active_ticket
  THEN UNCHANGED <<pool, agents>>
  ELSE /\ pool' = [pool EXCEPT !.active_ticket = request.ticket]
       /\ \/ agents' = [agents EXCEPT ![pool.agent].ticket = request.ticket]
          \/ agents' = [agents EXCEPT ![pool.agent].refused = TRUE]

\* The rest of dav_repo_get_resource.  A destination is next: its subrequest
\* is authenticated when it is in another location that asks for it.
GetResource ==
  /\ request.phase = "ticket"
  /\ SetTicket
  /\ LET found == request.handles \cup {<<request.at, pool.agent>>}
         dest  == request.next
     IN  \/ request' = Idle    \* rcObjStat fails
         \/ /\ dest = NoLocation
            /\ request' = [request EXCEPT !.phase = "act", !.handles = found]
         \/ /\ dest # NoLocation
            /\ IF Config[dest].basic /\ dest # request.at
               THEN IF request.creds = NoCredential THEN request' = Idle
                    ELSE request' = [request EXCEPT
                           !.phase = "authn", !.handles = found,
                           !.at = dest, !.next = NoLocation]
               ELSE request' = [request EXCEPT
                           !.phase = "pool", !.handles = found,
                           !.at = dest, !.next = NoLocation]
  /\ UNCHANGED client

\* Mutant: tickets are only refused when they are of use.
MayWriteOff ==
  \/ Config[request.at].tickets # "off"
  \/ pool.active_ticket = NoTicket

\* What RETURN_ERROR_IF_TICKET_ACTIVE_AND_READONLY lets through.  COPY and
\* MOVE hand it their destination, which is looked up last.
MayWrite ==
  \/ Config[request.at].tickets # "readonly"
  \/ pool.active_ticket = NoTicket

\* PUT, MKCOL, DELETE, COPY, and a MOVE within one location.
StartWrite ==
  /\ request.phase = "act" /\ MayWrite
  /\ request' = [request EXCEPT !.phase = "write"]
  /\ UNCHANGED <<client, pool, agents>>

\* A MOVE out of another location, which takes the source away from there.
StartMove ==
  /\ request.phase = "act" /\ MayWrite
  /\ \E h \in request.handles : h[1] # request.at
  /\ request' = [request EXCEPT !.phase = "move"]
  /\ UNCHANGED <<client, pool, agents>>

\* Mutant: what the request has looked up outlives its answer.
AnswerKeeps ==
  /\ request.phase \in {"act", "write", "move"}
  /\ request' = [request EXCEPT !.phase = "idle"]
  /\ UNCHANGED <<client, pool, agents>>

Answer ==
  /\ request.phase \in {"act", "write", "move"}
  /\ request' = Idle
  /\ UNCHANGED <<client, pool, agents>>

\* The client closes, or the keepalive timeout passes: the connection pool is
\* destroyed, and with it davrods_pool.
Close ==
  /\ client = "open" /\ request = Idle
  /\ client' = "closed"
  /\ agents' = Cleared
  /\ pool' = NoSession
  /\ UNCHANGED request

Connect == /\ client = "closed"
           /\ client' = "open"
           /\ UNCHANGED <<pool, agents, request>>

Init == /\ client = "open"
        /\ pool = NoSession
        /\ agents = [a \in Agent |-> Unborn]
        /\ request = Idle

Next ==
  \/ \E loc \in Location, dest \in Location \cup {NoLocation},
        creds \in Credential \cup {NoCredential},
        ticket \in Ticket \cup {NoTicket} : Receive(loc, dest, creds, ticket)
  \/ Authenticate \/ PoolFound \/ PoolAnonymous \/ PoolRefused
  \/ GetResource \/ StartWrite \/ StartMove \/ Answer \/ Close \/ Connect

Spec == Init /\ [][Next]_vars

-----------------------------------------------------------------------------
(* Properties.                                                             *)

\* Whom a location serves: the preset user, or who the request says it is.
Demanded(loc) == IF Config[loc].anon THEN Config[loc].login ELSE request.creds

\* Whatever requests a connection has served before, to whatever locations
\* and with whatever outcome, a resource is looked up on an agent that is
\* logged in as the user its own request demands there, with the password and
\* under the scheme that go with it (check_rods, get_davrods_pool).
ServedAsSelf ==
  request # Idle =>
    \A h \in request.handles :
      LET agent == agents[h[2]]
      IN  agent # Gone => /\ agent.login = Demanded(h[1])
                          /\ agent.scheme = Config[h[1]].scheme

\* The agent h was looked up on has a ticket.  What the macro tests is
\* Davrods' record of it, what counts is the one the agent has; nothing is
\* said of an agent that failed a ticket call, or is closed.
UnderTicket(h) == LET agent == agents[h[2]]
                  IN  /\ agent # Gone
                      /\ agent.ticket # NoTicket
                      /\ ~ agent.refused

\* PUT, MKCOL, DELETE, COPY and MOVE to a read-only location do not go ahead
\* under a ticket, neither on the agent the destination was looked up on nor
\* on that of the source, wherever the source is
\* (RETURN_ERROR_IF_TICKET_ACTIVE_AND_READONLY).
NoWriteIntoReadOnly ==
  /\ request # Idle /\ request.phase \in {"write", "move"}
  /\ Config[request.at].tickets = "readonly"
  => \A h \in request.handles : ~ UnderTicket(h)

\* "destructive operations such as PUT, COPY, MOVE, DELETE are disallowed with
\* a 403 response" in a read-only location: no resource of one is moved away
\* under a ticket either.
NoMoveOutOfReadOnly ==
  request # Idle /\ request.phase = "move" =>
    \A h \in request.handles :
      Config[h[1]].tickets = "readonly" => ~ UnderTicket(h)

\* Where tickets are on, the agent acts under the ticket the request bears, or
\* under none if it bears none, unless iRODS failed a ticket call: what
\* set_session_ticket keeps from one request to the next, to spare a call, is
\* never the ticket of another agent.
TicketInForce ==
  request.phase = "act" /\ Config[request.at].tickets # "off" =>
    \/ agents[pool.agent].ticket = request.ticket
    \/ agents[pool.agent].refused

\* A request that bears no ticket is not served under the one of an earlier
\* request ("it's important that we clear the session ticket if a keepalive
\* request no longer bears a ticket").
TicketCleared ==
  request.phase = "act" /\ request.ticket = NoTicket =>
    agents[pool.agent].ticket = NoTicket

\* A destination that logs in as the source's location does.
Alike(loc, dest) ==
  /\ Config[dest].anon = Config[loc].anon
  /\ Config[dest].scheme = Config[loc].scheme
  /\ Config[dest].anon => /\ Config[dest].login = Config[loc].login
                          /\ ~ Config[dest].basic

\* The agent a source was looked up on is still there when the request acts on
\* it, if the destination's location logs in as the source's does.  (If it
\* does not, check_rods closes the agent under the source.)
HandleStaysOpen ==
  request # Idle /\ request.phase \in {"act", "write", "move"} =>
    \A h \in request.handles :
      Alike(h[1], request.at) => agents[h[2]] # Gone

\* A resource is looked up on the server its location names (DavrodsServer,
\* DavrodsZone).
ServedByOwnServer ==
  request.phase = "act" =>
    \A h \in request.handles :
      agents[h[2]] # Gone => agents[h[2]].server = Config[h[1]].server

\* "iRODS sessions last at most as long as the client's TCP connection."
SessionEndsWithClient ==
  client = "closed" => \A a \in Agent : agents[a].state # "open"

=============================================================================
