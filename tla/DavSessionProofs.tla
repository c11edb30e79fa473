-------------------------- MODULE DavSessionProofs --------------------------
(***************************************************************************)
(* Proofs of the invariants of DavSession for any locations, users and     *)
(* tickets.  The agents stand for connections, so that a handle kept by a  *)
(* request must not come to mean another one: the invariant says that no   *)
(* handle names an agent that is yet to be opened.                         *)
(***************************************************************************)
EXTENDS DavSession, TLAPS

\* The session kept describes its agent: it is open, logged in as the session
\* says, and has the ticket the session remembers unless it failed a call.
PoolTells ==
  pool.kept =>
    LET agent == agents[pool.agent]
    IN  /\ agent \in OpenAgent
        /\ agent.login = pool.login
        /\ agent.scheme = pool.scheme
        /\ agent.ticket = pool.active_ticket \/ agent.refused

\* A request that was authenticated and a session that is not anonymous agree
\* about the user.
FlagTells ==
  request # Idle /\ request.flag /\ pool.kept /\ ~ pool.anon =>
    pool.login = request.creds

\* What a request has reached.
Reached ==
  request # Idle =>
    /\ request.phase = "authn" =>
         request.creds # NoCredential /\ Config[request.at].basic
    /\ request.phase \in {"ticket", "act", "write", "move"} =>
         /\ pool.kept
         /\ pool.login = Demanded(request.at)
         /\ pool.scheme = Config[request.at].scheme
         /\ pool.anon = Config[request.at].anon
    /\ request.phase \in {"act", "write", "move"}
       /\ Config[request.at].tickets # "off" =>
         pool.active_ticket = request.ticket
    /\ request.phase \in {"write", "move"}
       /\ Config[request.at].tickets = "readonly" =>
         pool.active_ticket = NoTicket

HandlesBorn ==
  request # Idle => \A h \in request.handles : agents[h[2]] # Unborn

\* The session a source was looked up in is still the one kept, as far as the
\* location the request is at logs in alike.
SourceKept ==
  request # Idle =>
    /\ request.next # NoLocation => request.handles = {}
    /\ \A h \in request.handles :
         Alike(h[1], request.at) =>
           /\ pool.kept /\ pool.agent = h[2]
           /\ pool.login = Demanded(h[1])
           /\ pool.scheme = Config[h[1]].scheme
           /\ pool.anon = Config[h[1]].anon

\* What a request has looked up is on the agent kept, or on one that is closed.
OneAgent ==
  request # Idle => \A h \in request.handles :
    agents[h[2]] # Gone => pool.kept /\ pool.agent = h[2]

IInv == /\ TypeOK /\ PoolTells /\ FlagTells /\ Reached
        /\ HandlesBorn /\ ServedAsSelf /\ SourceKept /\ OneAgent

-----------------------------------------------------------------------------

\* What a request may do to the agents: a new one appears, or one goes.
AgentsMove ==
  \A b \in Agent : agents[b] # Unborn => agents'[b] \in {agents[b], Gone}

LEMMA ClearedType ==
  ASSUME TypeOK
  PROVE  /\ Cleared \in [Agent -> OpenAgent \cup {Unborn, Gone}]
         /\ \A b \in Agent : agents[b] # Unborn =>
              Cleared[b] # Unborn /\ Cleared[b] \in {agents[b], Gone}
         /\ \A b \in Agent : Cleared[b] = Unborn => agents[b] = Unborn
<1>1. Gone # Unborn  BY DEF Gone, Unborn
<1>2. CASE pool.kept
  <2>1. pool \in Session  BY <1>2 DEF TypeOK, NoSession
  <2>2. pool.agent \in Agent  BY <2>1 DEF Session
  <2>. QED  BY <1>1, <1>2, <2>2 DEF Cleared, TypeOK
<1>3. CASE ~ pool.kept  BY <1>1, <1>3 DEF Cleared, TypeOK
<1>. QED  BY <1>2, <1>3

LEMMA LoggedInType ==
  ASSUME NEW loc \in Location, NEW creds \in Credential
  PROVE  LoggedIn(loc, creds) \in OpenAgent /\ LoggedIn(loc, creds).login = creds
         /\ LoggedIn(loc, creds).scheme = Config[loc].scheme
         /\ LoggedIn(loc, creds).ticket = NoTicket
BY ConfigAssumption DEF LoggedIn, OpenAgent, LocationConfig

LEMMA GrantedStep ==
  ASSUME TypeOK, NEW loc \in Location, NEW creds \in Credential,
         NEW a \in Agent, Granted(loc, creds, a)
  PROVE  /\ pool' \in Session /\ pool'.kept
         /\ pool'.login = creds
         /\ pool'.scheme = Config[loc].scheme /\ pool'.anon = Config[loc].anon
         /\ agents' \in [Agent -> OpenAgent \cup {Unborn, Gone}]
         /\ PoolTells' /\ AgentsMove
<1>1. Cleared \in [Agent -> OpenAgent \cup {Unborn, Gone}]  BY ClearedType
<1>2. agents' \in [Agent -> OpenAgent \cup {Unborn, Gone}]
  BY <1>1, LoggedInType DEF Granted
<1>3. pool' \in Session /\ pool'.kept /\ pool'.login = creds /\ pool'.agent = a
      /\ pool'.scheme = Config[loc].scheme /\ pool'.anon = Config[loc].anon
      /\ pool'.active_ticket = NoTicket
  BY ConfigAssumption DEF Granted, Session, LocationConfig
<1>4. agents'[a] = LoggedIn(loc, creds)  BY <1>1 DEF Granted
<1>5. PoolTells'  BY <1>3, <1>4, LoggedInType DEF PoolTells
<1>6. AgentsMove  BY <1>1, ClearedType DEF Granted, AgentsMove
<1>. QED  BY <1>2, <1>3, <1>5, <1>6

\* Logging in anew closes the agent that was kept, and with it what a request
\* has looked up so far.
LEMMA GrantedCloses ==
  ASSUME IInv, request # Idle, NEW loc, NEW creds, NEW a \in Agent,
         Granted(loc, creds, a)
  PROVE  \A h \in request.handles : agents'[h[2]] = Gone
<1>. SUFFICES ASSUME NEW h \in request.handles PROVE agents'[h[2]] = Gone
  OBVIOUS
<1>1. h[2] \in Agent /\ agents[h[2]] # Unborn
  BY DEF IInv, TypeOK, Request, HandlesBorn, Idle
<1>2. Cleared \in [Agent -> OpenAgent \cup {Unborn, Gone}]
      /\ Cleared[h[2]] # Unborn
  BY <1>1, ClearedType DEF IInv
<1>3. agents'[h[2]] = Cleared[h[2]]  BY <1>1, <1>2 DEF Granted
<1>4. Cleared[h[2]] = Gone
  <2>1. CASE agents[h[2]] = Gone
    BY <1>1, <2>1 DEF Cleared, IInv, TypeOK
  <2>2. CASE agents[h[2]] # Gone
    <3>1. pool.kept /\ pool.agent = h[2]  BY <2>2 DEF IInv, OneAgent
    <3>. QED  BY <1>1, <3>1 DEF Cleared, IInv, TypeOK
  <2>. QED  BY <2>1, <2>2
<1>. QED  BY <1>3, <1>4

LEMMA NotGrantedStep ==
  ASSUME TypeOK, NEW loc \in Location, NEW creds \in Credential,
         NotGranted(loc, creds)
  PROVE  /\ pool' = NoSession
         /\ agents' \in [Agent -> OpenAgent \cup {Unborn, Gone}]
BY ClearedType, LoggedInType DEF NotGranted

\* A request that ends says nothing any more.
LEMMA Ended ==
  ASSUME request' = Idle, client' \in {"open", "closed"},
         pool' \in Session \cup {NoSession}, PoolTells',
         agents' \in [Agent -> OpenAgent \cup {Unborn, Gone}]
  PROVE  IInv'
BY DEF IInv, TypeOK, FlagTells, Reached, HandlesBorn, ServedAsSelf, SourceKept,
       OneAgent

\* Handles keep their meaning while the request goes on.
LEMMA HandlesKept ==
  ASSUME TypeOK, HandlesBorn, ServedAsSelf, AgentsMove, request # Idle,
         request'.handles = request.handles, request'.creds = request.creds
  PROVE  (request # Idle => HandlesBorn' /\ ServedAsSelf')
<1>1. \A h \in request.handles : h[1] \in Location /\ h[2] \in Agent
  BY DEF TypeOK, Request
<1>2. Gone # Unborn  BY DEF Gone, Unborn
<1>3. \A h \in request.handles : agents'[h[2]] \in {agents[h[2]], Gone}
                                 /\ agents[h[2]] # Unborn
  BY <1>1 DEF AgentsMove, HandlesBorn
<1>4. HandlesBorn'  BY <1>2, <1>3 DEF HandlesBorn
<1>5. ServedAsSelf'  BY <1>3 DEF ServedAsSelf, Demanded
<1>. QED  BY <1>4, <1>5

-----------------------------------------------------------------------------

LEMMA Initial == Init => IInv
<1>. SUFFICES ASSUME Init PROVE IInv  OBVIOUS
<1>1. TypeOK  BY DEF Init, TypeOK
<1>2. PoolTells  BY DEF Init, PoolTells, NoSession
<1>. QED  BY <1>1, <1>2
  DEF Init, IInv, FlagTells, Reached, HandlesBorn, ServedAsSelf, SourceKept,
      OneAgent

LEMMA ReceiveStep ==
  ASSUME IInv, NEW loc \in Location, NEW dest \in Location \cup {NoLocation},
         NEW creds \in Credential \cup {NoCredential},
         NEW ticket \in Ticket \cup {NoTicket}, Receive(loc, dest, creds, ticket)
  PROVE  IInv'
<1>1. request' \in Request  BY DEF Receive, Request
<1>2. TypeOK'  BY <1>1 DEF Receive, IInv, TypeOK
<1>3. PoolTells'  BY DEF Receive, IInv, PoolTells
<1>4. FlagTells'  BY DEF Receive, FlagTells
<1>5. Reached'  BY DEF Receive, Reached
<1>6. HandlesBorn' /\ ServedAsSelf' /\ SourceKept' /\ OneAgent'
  BY DEF Receive, HandlesBorn, ServedAsSelf, SourceKept, OneAgent
<1>. QED  BY <1>2, <1>3, <1>4, <1>5, <1>6 DEF IInv

\* The request stays where it is while its phase becomes "pool" or "ticket".
LEMMA AuthenticateStep ==
  ASSUME IInv, Authenticate
  PROVE  IInv'
<1>1. request \in Request /\ request # Idle /\ request.at \in Location
      /\ request.creds \in Credential
  BY DEF Authenticate, IInv, TypeOK, Reached, Request, Idle
<1>2. client' \in {"open", "closed"}  BY DEF Authenticate, IInv, TypeOK
<1>3. ASSUME Authenticated
      PROVE  /\ request' \in Request /\ request' # Idle
             /\ request'.handles = request.handles
             /\ request'.creds = request.creds /\ request'.phase = "pool"
             /\ request'.at = request.at /\ request'.next = request.next
  BY <1>1, <1>3 DEF Authenticated, Request, Idle
<1>4. CASE CanReuse(request.at, request.creds) /\ Authenticated
           /\ UNCHANGED <<pool, agents>>
  <2>1. AgentsMove  BY <1>4 DEF AgentsMove
  <2>2. TypeOK' /\ PoolTells'
    BY <1>2, <1>3, <1>4 DEF IInv, TypeOK, PoolTells
  <2>3. FlagTells'  BY <1>3, <1>4 DEF FlagTells, CanReuse
  <2>4. Reached'  BY <1>3, <1>4 DEF Reached
  <2>5. SourceKept'
    BY <1>1, <1>3, <1>4 DEF IInv, SourceKept, Demanded
  <2>6. OneAgent'  BY <1>1, <1>3, <1>4 DEF IInv, OneAgent
  <2>. QED  BY <1>1, <1>3, <1>4, <2>1, <2>2, <2>3, <2>4, <2>5, <2>6, HandlesKept
            DEF IInv
<1>5. ASSUME NEW a \in Agent, Granted(request.at, request.creds, a), Authenticated
      PROVE  IInv'
  <2>1. /\ pool' \in Session /\ pool'.login = request.creds
        /\ agents' \in [Agent -> OpenAgent \cup {Unborn, Gone}]
        /\ PoolTells' /\ AgentsMove
    BY <1>1, <1>5, GrantedStep DEF IInv
  <2>2. TypeOK'  BY <1>2, <1>3, <1>5, <2>1 DEF TypeOK
  <2>3. FlagTells'  BY <1>3, <1>5, <2>1 DEF FlagTells
  <2>4. Reached'  BY <1>3, <1>5 DEF Reached
  <2>5. \A h \in request.handles : ~ Alike(h[1], request.at)
    <3>. SUFFICES ASSUME NEW h \in request.handles, Alike(h[1], request.at)
                  PROVE  FALSE
      OBVIOUS
    <3>1. Config[request.at].basic  BY <1>1 DEF Authenticate, IInv, Reached
    <3>2. ~ Config[request.at].anon /\ ~ Config[h[1]].anon
      BY <1>1, <3>1, ConfigAssumption DEF Alike, LocationConfig
    <3>3. CanReuse(request.at, request.creds)
      BY <1>1, <3>2 DEF IInv, SourceKept, Alike, CanReuse, CanReuseMaybe, Demanded
    <3>. QED  BY <1>5, <3>3 DEF Granted
  <2>6. SourceKept'  BY <1>1, <1>3, <1>5, <2>5 DEF IInv, SourceKept, Alike
  <2>7. OneAgent'  BY <1>1, <1>3, <1>5, GrantedCloses DEF OneAgent
  <2>. QED  BY <1>1, <1>3, <1>5, <2>1, <2>2, <2>3, <2>4, <2>6, <2>7, HandlesKept
            DEF IInv
<1>6. CASE NotGranted(request.at, request.creds) /\ request' = Idle
  <2>1. /\ pool' = NoSession
        /\ agents' \in [Agent -> OpenAgent \cup {Unborn, Gone}]
    BY <1>1, <1>6, NotGrantedStep DEF IInv
  <2>2. PoolTells'  BY <2>1 DEF PoolTells, NoSession
  <2>. QED  BY <1>2, <1>6, <2>1, <2>2, Ended
<1>. QED  BY <1>4, <1>5, <1>6 DEF Authenticate

LEMMA PoolFoundStep ==
  ASSUME IInv, PoolFound
  PROVE  IInv'
<1>1. request \in Request /\ request # Idle /\ request.at \in Location
  BY DEF PoolFound, IInv, TypeOK, Request, Idle
<1>2. /\ request' \in Request /\ request' # Idle
      /\ request' = [request EXCEPT !.phase = "ticket"]
      /\ request'.handles = request.handles /\ request'.creds = request.creds
      /\ request'.phase = "ticket" /\ request'.at = request.at
      /\ request'.flag = request.flag /\ request'.next = request.next
  BY <1>1 DEF PoolFound, Request, Idle
<1>3. TypeOK' /\ PoolTells' /\ AgentsMove
  BY <1>2 DEF PoolFound, IInv, TypeOK, PoolTells, AgentsMove
<1>4. FlagTells'  BY <1>1, <1>2 DEF PoolFound, IInv, FlagTells
<1>5. pool.kept /\ pool.login = Demanded(request.at)
      /\ pool.scheme = Config[request.at].scheme
      /\ pool.anon = Config[request.at].anon
  BY <1>1 DEF PoolFound, CanReuse, CanReuseMaybe, Demanded, IInv, FlagTells
<1>6. Reached'  BY <1>2, <1>5 DEF PoolFound, Reached, Demanded
<1>7. SourceKept'  BY <1>1, <1>2 DEF PoolFound, IInv, SourceKept, Alike, Demanded
<1>8. OneAgent'  BY <1>1, <1>2 DEF PoolFound, IInv, OneAgent
<1>. QED  BY <1>1, <1>2, <1>3, <1>4, <1>6, <1>7, <1>8, HandlesKept DEF IInv

LEMMA PoolAnonymousStep ==
  ASSUME IInv, PoolAnonymous
  PROVE  IInv'
<1>. DEFINE login == Config[request.at].login
<1>1. request \in Request /\ request # Idle /\ request.at \in Location
  BY DEF PoolAnonymous, IInv, TypeOK, Request, Idle
<1>2. login \in Credential  BY <1>1, ConfigAssumption DEF LocationConfig
<1>3. client' \in {"open", "closed"}  BY DEF PoolAnonymous, IInv, TypeOK
<1>4. ASSUME NEW a \in Agent, Granted(request.at, login, a),
             request' = [request EXCEPT !.phase = "ticket"]
      PROVE  IInv'
  <2>1. /\ pool' \in Session /\ pool'.kept /\ pool'.login = login
        /\ pool'.scheme = Config[request.at].scheme
        /\ pool'.anon = Config[request.at].anon
        /\ agents' \in [Agent -> OpenAgent \cup {Unborn, Gone}]
        /\ PoolTells' /\ AgentsMove
    BY <1>1, <1>2, <1>4, GrantedStep DEF IInv
  <2>2. /\ request' \in Request /\ request' # Idle
        /\ request'.handles = request.handles /\ request'.creds = request.creds
        /\ request'.phase = "ticket" /\ request'.at = request.at
        /\ request'.next = request.next
    BY <1>1, <1>4 DEF Request, Idle
  <2>3. TypeOK'  BY <1>3, <2>1, <2>2 DEF TypeOK
  <2>4. FlagTells'  BY <2>1, <2>2 DEF FlagTells, PoolAnonymous
  <2>5. Reached'  BY <2>1, <2>2 DEF Reached, Demanded, PoolAnonymous
  <2>6. \A h \in request.handles : ~ Alike(h[1], request.at)
    <3>. SUFFICES ASSUME NEW h \in request.handles, Alike(h[1], request.at)
                  PROVE  FALSE
      OBVIOUS
    <3>1. Config[request.at].anon  BY DEF PoolAnonymous
    <3>2. CanReuse(request.at, login)
      BY <1>1, <3>1 DEF IInv, SourceKept, Alike, CanReuse, CanReuseMaybe, Demanded
    <3>. QED  BY <1>4, <3>2 DEF Granted
  <2>7. SourceKept'  BY <1>1, <2>2, <2>6 DEF IInv, SourceKept, Alike
  <2>8. OneAgent'  BY <1>1, <1>4, <2>2, GrantedCloses DEF OneAgent
  <2>. QED  BY <1>1, <2>1, <2>2, <2>3, <2>4, <2>5, <2>7, <2>8, HandlesKept DEF IInv
<1>5. CASE NotGranted(request.at, login) /\ request' = Idle
  <2>1. /\ pool' = NoSession
        /\ agents' \in [Agent -> OpenAgent \cup {Unborn, Gone}]
    BY <1>1, <1>2, <1>5, NotGrantedStep DEF IInv
  <2>2. PoolTells'  BY <2>1 DEF PoolTells, NoSession
  <2>. QED  BY <1>3, <1>5, <2>1, <2>2, Ended
<1>. QED  BY <1>4, <1>5 DEF PoolAnonymous

LEMMA SessionKept ==
  ASSUME IInv, request # Idle, request.phase \in {"ticket", "act", "write", "move"}
  PROVE  pool.kept /\ pool \in Session /\ pool.agent \in Agent
<1>1. pool.kept  BY DEF IInv, Reached
<1>2. pool \in Session  BY <1>1 DEF IInv, TypeOK, NoSession
<1>. QED  BY <1>1, <1>2 DEF Session

\* set_session_ticket leaves the agent and the record of its ticket in step.
LEMMA SetTicketStep ==
  ASSUME IInv, request # Idle, request.phase = "ticket", SetTicket
  PROVE  /\ pool' \in Session /\ pool'.kept
         /\ pool'.agent = pool.agent /\ pool'.login = pool.login
         /\ pool'.scheme = pool.scheme /\ pool'.anon = pool.anon
         /\ Config[request.at].tickets # "off" =>
              pool'.active_ticket = request.ticket
         /\ agents' \in [Agent -> OpenAgent \cup {Unborn, Gone}]
         /\ PoolTells'
         /\ \A b \in Agent : agents[b] \in {Unborn, Gone} => agents'[b] = agents[b]
         /\ \A b \in Agent : agents[b] \in OpenAgent =>
              /\ agents'[b] \in OpenAgent
              /\ agents'[b].login = agents[b].login
              /\ agents'[b].scheme = agents[b].scheme
<1>1. pool.kept /\ pool \in Session /\ pool.agent \in Agent  BY SessionKept
<1>2. agents \in [Agent -> OpenAgent \cup {Unborn, Gone}]  BY DEF IInv, TypeOK
<1>3. agents[pool.agent] \in OpenAgent  BY <1>1 DEF IInv, PoolTells
<1>4. request.ticket \in Ticket \cup {NoTicket}
  BY DEF IInv, TypeOK, Request
<1>5. agents[pool.agent] \notin {Unborn, Gone}
  BY <1>3 DEF OpenAgent, Unborn, Gone
<1>6. CASE UNCHANGED <<pool, agents>>
           /\ (Config[request.at].tickets = "off"
               \/ request.ticket = pool.active_ticket)
  BY <1>1, <1>2, <1>6 DEF IInv, PoolTells
<1>7. ASSUME pool' = [pool EXCEPT !.active_ticket = request.ticket],
             NEW agent \in OpenAgent,
             agent.login = agents[pool.agent].login,
             agent.scheme = agents[pool.agent].scheme,
             agent.ticket = request.ticket \/ agent.refused,
             agents' = [agents EXCEPT ![pool.agent] = agent]
      PROVE  /\ pool' \in Session /\ pool'.kept
             /\ pool'.agent = pool.agent /\ pool'.login = pool.login
             /\ pool'.scheme = pool.scheme /\ pool'.anon = pool.anon
             /\ pool'.active_ticket = request.ticket
             /\ agents' \in [Agent -> OpenAgent \cup {Unborn, Gone}]
             /\ PoolTells'
             /\ \A b \in Agent : agents[b] \in {Unborn, Gone} => agents'[b] = agents[b]
             /\ \A b \in Agent : agents[b] \in OpenAgent =>
                  /\ agents'[b] \in OpenAgent
                  /\ agents'[b].login = agents[b].login
                  /\ agents'[b].scheme = agents[b].scheme
  <2>1. /\ pool' \in Session /\ pool'.kept
        /\ pool'.agent = pool.agent /\ pool'.login = pool.login
        /\ pool'.scheme = pool.scheme /\ pool'.anon = pool.anon
        /\ pool'.active_ticket = request.ticket
    BY <1>1, <1>4, <1>7 DEF Session
  <2>2. /\ agents'[pool.agent] = agent
        /\ \A b \in Agent \ {pool.agent} : agents'[b] = agents[b]
    BY <1>1, <1>2, <1>7
  <2>6. agents' \in [Agent -> OpenAgent \cup {Unborn, Gone}]
    BY <1>2, <1>7
  <2>3. PoolTells'  BY <1>1, <1>7, <2>1, <2>2 DEF IInv, PoolTells
  <2>4. \A b \in Agent : agents[b] \in {Unborn, Gone} => agents'[b] = agents[b]
    BY <1>5, <2>2
  <2>5. \A b \in Agent : agents[b] \in OpenAgent =>
          /\ agents'[b] \in OpenAgent
          /\ agents'[b].login = agents[b].login
          /\ agents'[b].scheme = agents[b].scheme
    BY <1>7, <2>2
  <2>. QED  BY <2>1, <2>3, <2>4, <2>5, <2>6
<1>8. CASE agents' = [agents EXCEPT ![pool.agent].ticket = request.ticket]
           /\ pool' = [pool EXCEPT !.active_ticket = request.ticket]
  <2>. DEFINE agent == [agents[pool.agent] EXCEPT !.ticket = request.ticket]
  <2>1. agent \in OpenAgent /\ agent.login = agents[pool.agent].login
        /\ agent.scheme = agents[pool.agent].scheme
        /\ agent.ticket = request.ticket
    BY <1>3, <1>4 DEF OpenAgent
  <2>2. agents' = [agents EXCEPT ![pool.agent] = agent]  BY <1>8
  <2>. HIDE DEF agent
  <2>. QED  BY <1>7, <1>8, <2>1, <2>2
<1>9. CASE agents' = [agents EXCEPT ![pool.agent].refused = TRUE]
           /\ pool' = [pool EXCEPT !.active_ticket = request.ticket]
  <2>. DEFINE agent == [agents[pool.agent] EXCEPT !.refused = TRUE]
  <2>1. agent \in OpenAgent /\ agent.login = agents[pool.agent].login
        /\ agent.scheme = agents[pool.agent].scheme
        /\ agent.refused
    BY <1>3, <1>4 DEF OpenAgent
  <2>2. agents' = [agents EXCEPT ![pool.agent] = agent]  BY <1>9
  <2>. HIDE DEF agent
  <2>. QED  BY <1>7, <1>9, <2>1, <2>2
<1>. QED  BY <1>6, <1>8, <1>9 DEF SetTicket

LEMMA GetResourceStep ==
  ASSUME IInv, GetResource
  PROVE  IInv'
<1>. DEFINE found == request.handles \cup {<<request.at, pool.agent>>}
<1>1. request \in Request /\ request # Idle /\ request.at \in Location
      /\ request.phase = "ticket"
  BY DEF GetResource, IInv, TypeOK, Request, Idle
<1>2. SetTicket /\ client' \in {"open", "closed"}
  BY DEF GetResource, IInv, TypeOK
<1>3. /\ pool' \in Session /\ pool'.kept
      /\ pool'.agent = pool.agent /\ pool'.login = pool.login
      /\ pool'.scheme = pool.scheme /\ pool'.anon = pool.anon
      /\ Config[request.at].tickets # "off" =>
           pool'.active_ticket = request.ticket
      /\ agents' \in [Agent -> OpenAgent \cup {Unborn, Gone}]
      /\ PoolTells'
  BY <1>1, <1>2, SetTicketStep
<1>4. /\ \A b \in Agent : agents[b] \in {Unborn, Gone} => agents'[b] = agents[b]
      /\ \A b \in Agent : agents[b] \in OpenAgent =>
           /\ agents'[b] \in OpenAgent
           /\ agents'[b].login = agents[b].login
           /\ agents'[b].scheme = agents[b].scheme
  BY <1>1, <1>2, SetTicketStep
<1>0. pool.kept /\ pool.agent \in Agent  BY <1>1, SessionKept
<1>5. pool.kept /\ pool.agent \in Agent /\ pool.login = Demanded(request.at)
      /\ pool.scheme = Config[request.at].scheme
      /\ pool.anon = Config[request.at].anon /\ agents[pool.agent] \in OpenAgent
      /\ agents[pool.agent].login = pool.login
      /\ agents[pool.agent].scheme = pool.scheme
  BY <1>0, <1>1 DEF IInv, Reached, PoolTells
<1>6. \A h \in request.handles : h[1] \in Location /\ h[2] \in Agent
  BY <1>1 DEF Request
<1>7. \A h \in found : /\ h[1] \in Location /\ h[2] \in Agent
                       /\ agents[h[2]] \in OpenAgent \cup {Gone}
                       /\ agents[h[2]] # Gone =>
                            /\ agents[h[2]].login = Demanded(h[1])
                            /\ agents[h[2]].scheme = Config[h[1]].scheme
  BY <1>1, <1>5, <1>6 DEF IInv, TypeOK, HandlesBorn, ServedAsSelf
<1>8. \A r \in OpenAgent : r # Unborn /\ r # Gone
  BY DEF OpenAgent, Unborn, Gone
<1>9. Unborn # Gone  BY DEF Unborn, Gone
<1>10. \A h \in found : /\ agents'[h[2]] # Unborn
                        /\ agents'[h[2]] # Gone =>
                             /\ agents'[h[2]].login = Demanded(h[1])
                             /\ agents'[h[2]].scheme = Config[h[1]].scheme
  BY <1>4, <1>7, <1>8, <1>9
<1>11. CASE request' = Idle
  BY <1>2, <1>3, <1>11, Ended
<1>12. ASSUME request' \in Request, request'.creds = request.creds,
              request'.flag = request.flag, request'.ticket = request.ticket,
              request'.handles = found,
              request'.next = NoLocation,
              \/ /\ request'.phase = "act" /\ request'.at = request.at
              \/ /\ request.next # NoLocation
                 /\ request'.phase = "authn" =>
                      /\ request'.creds # NoCredential
                      /\ Config[request'.at].basic
                 /\ request'.phase \in {"authn", "pool"}
       PROVE  IInv'
  <2>. HIDE DEF found
  <2>1. request' # Idle  BY <1>12 DEF Request, Idle
  <2>2. TypeOK'  BY <1>2, <1>3, <1>12 DEF TypeOK
  <2>3. FlagTells'  BY <1>1, <1>3, <1>5, <1>12 DEF IInv, FlagTells
  <2>4. Reached'
    <3>1. CASE request'.phase = "act" /\ request'.at = request.at
      <4>1. pool'.login = Demanded(request.at)'
        BY <1>3, <1>5, <1>12, <3>1 DEF Demanded
      <4>2. Config[request'.at].tickets # "off" => pool'.active_ticket = request'.ticket
        BY <1>3, <1>12, <3>1
      <4>. QED  BY <1>3, <1>5, <3>1, <4>1, <4>2 DEF Reached
    <3>2. CASE request'.phase \in {"authn", "pool"}
      BY <1>12, <3>2 DEF Reached
    <3>. QED  BY <1>12, <3>1, <3>2
  <2>5. HandlesBorn' /\ ServedAsSelf'
    BY <1>10, <1>12 DEF HandlesBorn, ServedAsSelf, Demanded
  <2>6. \A h \in found : Alike(h[1], request'.at) =>
          /\ pool.agent = h[2]
          /\ pool.login = Demanded(h[1])
          /\ pool.scheme = Config[h[1]].scheme
          /\ pool.anon = Config[h[1]].anon
    <3>1. CASE request.next # NoLocation
      BY <1>1, <1>5, <3>1 DEF IInv, SourceKept, found
    <3>2. CASE request'.at = request.at
      BY <1>1, <1>5, <3>2 DEF IInv, SourceKept, found
    <3>. QED  BY <1>12, <3>1, <3>2
  <2>7. SourceKept'
    BY <1>3, <1>12, <2>6 DEF SourceKept, Demanded
  <2>8. \A h \in found : agents'[h[2]] # Gone => pool.agent = h[2]
    BY <1>1, <1>4, <1>7 DEF IInv, OneAgent, found
  <2>9. OneAgent'  BY <1>3, <1>12, <2>8 DEF OneAgent
  <2>. QED  BY <1>3, <2>2, <2>3, <2>4, <2>5, <2>7, <2>9 DEF IInv
<1>13. found \in SUBSET (Location \X Agent)  BY <1>1, <1>5 DEF Request
<1>14. CASE request.next = NoLocation
            /\ request' = [request EXCEPT !.phase = "act", !.handles = found]
  <2>. HIDE DEF found
  <2>1. request' \in Request /\ request'.creds = request.creds
        /\ request'.flag = request.flag /\ request'.ticket = request.ticket
        /\ request'.handles = found
        /\ request'.next = NoLocation /\ request'.phase = "act"
        /\ request'.at = request.at
    BY <1>1, <1>13, <1>14 DEF Request
  <2>. QED  BY <1>12, <2>1
<1>15. ASSUME NEW phase \in {"authn", "pool"}, request.next # NoLocation,
              phase = "authn" => /\ request.creds # NoCredential
                                 /\ Config[request.next].basic,
              request' = [request EXCEPT !.phase = phase, !.handles = found,
                            !.at = request.next, !.next = NoLocation]
       PROVE  IInv'
  <2>. HIDE DEF found
  <2>0. request.next \in Location  BY <1>1, <1>15 DEF Request
  <2>1. request' \in Request /\ request'.creds = request.creds
        /\ request'.flag = request.flag /\ request'.ticket = request.ticket
        /\ request'.handles = found
        /\ request'.next = NoLocation /\ request'.phase = phase
        /\ request'.at = request.next
    BY <1>1, <1>13, <1>15, <2>0 DEF Request
  <2>. QED  BY <1>12, <1>15, <2>1
<1>. QED  BY <1>11, <1>14, <1>15 DEF GetResource

LEMMA OtherSteps ==
  ASSUME IInv, \/ PoolRefused \/ StartWrite \/ StartMove \/ Answer \/ Close
               \/ Connect \/ UNCHANGED vars
  PROVE  IInv'
<1>1. CASE PoolRefused \/ Answer
  <2>1. request' = Idle /\ UNCHANGED <<client, pool, agents>>
    BY <1>1 DEF PoolRefused, Answer
  <2>2. PoolTells'  BY <2>1 DEF IInv, PoolTells
  <2>. QED  BY <2>1, <2>2, Ended DEF IInv, TypeOK
<1>2. CASE StartWrite \/ StartMove
  <2>1. request \in Request /\ request # Idle
        /\ UNCHANGED <<client, pool, agents>>
    BY <1>2 DEF StartWrite, StartMove, IInv, TypeOK, Request, Idle
  <2>2. /\ request' \in Request /\ request' # Idle
        /\ request'.phase \in {"write", "move"}
        /\ request'.at = request.at /\ request'.next = request.next
        /\ request'.creds = request.creds /\ request'.ticket = request.ticket
        /\ request'.flag = request.flag /\ request'.handles = request.handles
    BY <1>2, <2>1 DEF StartWrite, StartMove, Request, Idle
  <2>3. TypeOK' /\ PoolTells' /\ FlagTells'
    BY <2>1, <2>2 DEF IInv, TypeOK, PoolTells, FlagTells
  <2>4. Reached'
    BY <1>2, <2>1, <2>2 DEF StartWrite, StartMove, MayWrite, IInv, Reached,
                                   Demanded
  <2>5. HandlesBorn' /\ ServedAsSelf'
    BY <2>1, <2>2 DEF IInv, HandlesBorn, ServedAsSelf, Demanded
  <2>6. SourceKept' /\ OneAgent'
    BY <2>1, <2>2 DEF IInv, SourceKept, OneAgent, Demanded
  <2>. QED  BY <2>3, <2>4, <2>5, <2>6 DEF IInv
<1>3. CASE Close
  <2>1. request' = Idle /\ client' = "closed" /\ pool' = NoSession
        /\ agents' = Cleared
    BY <1>3 DEF Close
  <2>2. PoolTells'  BY <2>1 DEF PoolTells, NoSession
  <2>3. Cleared \in [Agent -> OpenAgent \cup {Unborn, Gone}]
    BY ClearedType DEF IInv
  <2>. QED  BY <2>1, <2>2, <2>3, Ended
<1>4. CASE Connect \/ UNCHANGED vars
  <2>1. UNCHANGED <<pool, agents, request>> /\ client' \in {"open", "closed"}
    BY <1>4 DEF Connect, vars, IInv, TypeOK
  <2>2. TypeOK' /\ PoolTells' /\ FlagTells' /\ Reached'
    BY <2>1 DEF IInv, TypeOK, PoolTells, FlagTells, Reached, Demanded
  <2>3. HandlesBorn' /\ ServedAsSelf' /\ SourceKept' /\ OneAgent'
    BY <2>1 DEF IInv, HandlesBorn, ServedAsSelf, SourceKept, OneAgent, Demanded
  <2>. QED  BY <2>2, <2>3 DEF IInv
<1>. QED  BY <1>1, <1>2, <1>3, <1>4

\* The invariant from which the properties below follow.
THEOREM Invariance == Spec => []IInv
<1>1. Init => IInv  BY Initial
<1>2. IInv /\ [Next]_vars => IInv'
  BY ReceiveStep, AuthenticateStep, PoolFoundStep, PoolAnonymousStep,
     GetResourceStep, OtherSteps DEF Next
<1>. QED  BY <1>1, <1>2, PTL DEF Spec

\* The values of the session, of the agents and of the request are the ones
\* DavSession lists.
THEOREM SessionTypes == Spec => []TypeOK
<1>1. IInv => TypeOK  BY DEF IInv
<1>. QED  BY <1>1, Invariance, PTL

\* Whatever a connection was used for before, a request is served on an agent
\* logged in with the credentials and the scheme its own location demands.
THEOREM OwnCredentials == Spec => []ServedAsSelf
<1>1. IInv => ServedAsSelf  BY DEF IInv
<1>. QED  BY <1>1, Invariance, PTL

\* Davrods' record of the agent's ticket is right, so that where tickets are on
\* a request is served under its own.
THEOREM OwnTicket == Spec => []TicketInForce
<1>1. IInv => TicketInForce
  <2>. SUFFICES ASSUME IInv, request.phase = "act", request # Idle,
                       Config[request.at].tickets # "off"
                PROVE  \/ agents[pool.agent].ticket = request.ticket
                       \/ agents[pool.agent].refused
    BY DEF TicketInForce, Idle
  <2>. QED  BY SessionKept DEF IInv, Reached, PoolTells
<1>. QED  BY <1>1, Invariance, PTL

\* A write into a read-only location that the macro lets through is not made
\* under a ticket, on whichever agent its resources were looked up.
THEOREM ReadOnlyTickets == Spec => []NoWriteIntoReadOnly
<1>1. IInv => NoWriteIntoReadOnly
  <2>. SUFFICES ASSUME IInv, request # Idle, request.phase \in {"write", "move"},
                       Config[request.at].tickets = "readonly",
                       NEW h \in request.handles, agents[h[2]] # Gone
                PROVE  \/ agents[h[2]].ticket = NoTicket
                       \/ agents[h[2]].refused
    BY DEF NoWriteIntoReadOnly, UnderTicket
  <2>1. pool.kept /\ pool.agent = h[2]  BY DEF IInv, OneAgent
  <2>. QED  BY <2>1 DEF IInv, Reached, PoolTells
<1>. QED  BY <1>1, Invariance, PTL

\* The agent of a source outlives the lookup of a destination whose location
\* logs in alike.
THEOREM SourceAgentOpen == Spec => []HandleStaysOpen
<1>1. IInv => HandleStaysOpen
  <2>. SUFFICES ASSUME IInv, request # Idle, NEW h \in request.handles,
                       Alike(h[1], request.at)
                PROVE  agents[h[2]] # Gone
    BY DEF HandleStaysOpen
  <2>1. pool.kept /\ pool.agent = h[2]  BY DEF IInv, SourceKept
  <2>. QED  BY <2>1 DEF IInv, PoolTells, OpenAgent, Gone
<1>. QED  BY <1>1, Invariance, PTL

=============================================================================
