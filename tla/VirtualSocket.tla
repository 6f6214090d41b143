---------------------------- MODULE VirtualSocket ----------------------------
(***************************************************************************)
(* The whole system: one proxy server, the service proxies and the client  *)
(* proxies, joined by the connections of module Transport.                 *)
(***************************************************************************)
EXTENDS Server, ServiceProxy, ClientProxy

ASSUME ProcessAssumption ==
  /\ serviceID \in [Service -> ServerID]
  /\ wantedID \in [Client -> ServerID]

transportVars == <<hostVars, netVars>>
vars == <<transportVars, serverVars, serviceVars, client>>

Init == TransportInit /\ ServerInit /\ ServiceInit /\ ClientInit

-----------------------------------------------------------------------------
(* Events that are no step of the three programs *)

\* A RST from the network or the peer's host before spd received a request.
ResetConnection(c) ==
  /\ "reset" \in Events
  /\ peer[c] = "open" /\ inq[c] = <<>> /\ outq[c] = <<>>
  /\ \/ \E i \in DOMAIN backlog : backlog[i] = c
     \/ requestFd # NoFd /\ request = c
  /\ peer' = [peer EXCEPT ![c] = "closed"]
  /\ rst' = [rst EXCEPT ![c] = "reset"]
  /\ UNCHANGED <<hostVars, backlog, inq, outq, serverVars, serviceVars, client>>

\* Some other program connects, sends a JSON packet and stays.
StrayRequest(c) ==
  /\ "stray" \in Events
  /\ Dial(c)
  /\ inq' = [inq EXCEPT ![c] = <<makeResponse(TRUE)>>]
  /\ UNCHANGED <<hostVars, outq, rst, serverVars, serviceVars, client>>

\* Who starts spd again may wait until the service proxies have ended.
RestartAwaits == Run => "hasty" \in Events \/ \A s \in Service : ~Alive(s)

Next ==
  \/ ServerStep /\ RestartAwaits /\ UNCHANGED <<serviceVars, client>>
  \/ ServiceStep /\ UNCHANGED <<serverVars, client>>
  \/ ClientStep /\ UNCHANGED <<serverVars, serviceVars>>
  \/ \E c \in Conn : ResetConnection(c) \/ StrayRequest(c)

Spec == Init /\ [][Next]_vars

-----------------------------------------------------------------------------
(* Fairness: each process is scheduled, and the calls it waits in return.  *)
(* Not fair: what users start and stop (Connect, ClientConnect, Interrupt, *)
(* ClientListenFails, ClientAccept), how long a relayed connection lasts   *)
(* (ClientDone, HelperDone, ChildRelayed), starting spd again, and every   *)
(* failure of Events.                                                      *)

SpdLoop ==
  \/ AcceptConnection \/ RecvError \/ ParseThrows
  \/ HandleRegister \/ HandleUnregister
  \/ HandleConnect \/ HandleConnectUnknown \/ HandleConnectKilled
  \/ HandleAnswer \/ HandleUnexpected

ServiceLoop(s) ==
  \/ SendRegister(s) \/ ReadRegisterResponse(s) \/ ReadConnectRequest(s)
  \/ ReadThrows(s) \/ DialProxy(s) \/ DialProxyFails(s) \/ Fork(s)
  \/ SendUnregister(s)

HelperAnswers(s, a) == HelperConnected(s, a) \/ HelperFailed(s, a)
ChildNotifies(a) == ChildNotify(a) \/ ChildKilled(a)
ClientLoop(k) ==
  SendConnect(k) \/ ReadConnectResponse(k) \/ ClientReadThrows(k) \/ ClientRecvFails(k)

Fairness ==
  /\ WF_vars(SpdLoop /\ UNCHANGED <<serviceVars, client>>)
  /\ \A a \in Conn : WF_vars(ChildNotifies(a) /\ UNCHANGED <<serviceVars, client>>)
  /\ \A s \in Service :
       /\ WF_vars(ServiceLoop(s) /\ UNCHANGED <<serverVars, client>>)
       /\ \A a \in Conn :
            /\ WF_vars(a \in svc[s].children /\ HelperAnswers(s, a)
                       /\ UNCHANGED <<serverVars, client>>)
            /\ WF_vars(a \in svc[s].children /\ HelperUnregister(s, a)
                       /\ UNCHANGED <<serverVars, client>>)
  /\ \A k \in Client : WF_vars(ClientLoop(k) /\ UNCHANGED <<serverVars, serviceVars>>)

FairSpec == Spec /\ Fairness

-----------------------------------------------------------------------------
(* Type invariant *)

NodeID == ServerID \cup ClientID
Request == [kind : {"request"}, node_id : NodeID,
            type : {REGISTER, UNREGISTER, CONNECT, CONNECTION_CREATED, CONNECTION_FAILED}]
Response == [kind : {"response"}, status : {OK, ERROR}]
Packet == Request \cup Response \cup {Payload}

TransportTypeOK ==
  /\ spd \in {"up", "down"}
  /\ fdTable \in [FD -> Conn \cup {NoConn}]
  /\ inherited \in [Conn -> SUBSET Conn]
  /\ backlog \in Seq(Conn)
  /\ inq \in [Conn -> Seq(Packet)]
  /\ outq \in [Conn -> Seq(Packet)]
  /\ peer \in [Conn -> {"none", "open", "closed"}]
  /\ rst \in [Conn -> {"no", "reset", "pipe"}]

ServerTypeOK ==
  /\ requestFd \in FD \cup {NoFd}
  /\ serverMap \in [ServerID -> FD \cup {NoFd}]
  /\ pendingConnections \subseteq ClientID
  /\ child \in [Conn -> [pc : {"none", "notify", "relay", "exited"}, ok : BOOLEAN,
                         client : Conn \cup {NoConn}]]
  /\ starts \in 1 .. MaxStarts

ServiceTypeOK ==
  /\ svc \in [Service ->
       [pc : {"off", "dialled", "awaiting", "serving", "dialling", "forking",
              "stopping", "exited"},
        connection : Conn \cup {NoConn}, clientID : NodeID \cup {<<>>},
        newProxyConnection : Conn \cup {NoConn}, farewell : Conn \cup {NoConn},
        children : SUBSET Conn]]
  /\ helper \in [Conn ->
       [pc : {"none", "connecting", "relay", "relayed", "stopping", "exited"},
        clientID : NodeID \cup {<<>>}, reached : BOOLEAN, farewell : Conn \cup {NoConn}]]

ClientTypeOK ==
  client \in [Client ->
    [pc : {"off", "dialled", "waiting", "connected", "relaying", "refused", "exited"},
     connection : Conn \cup {NoConn}]]

\* Every variable has values of its type: the packets are those of
\* protocol.cpp, the descriptors those of spd's table.
TypeOK == TransportTypeOK /\ ServerTypeOK /\ ServiceTypeOK /\ ClientTypeOK

-----------------------------------------------------------------------------
(* Safety *)

OpenAt(f, c) == c \in Conn /\ f \in FD /\ fdTable[f] = c

\* spd keeps numbers in serverMap and pendingConnections, and numbers are
\* reused: each still denotes the connection it was stored for, that of a
\* service proxy with this id, or that of a client.
RegistryNotStale ==
  \A id \in ServerID : Registered(id) =>
    \E s \in Service : serviceID[s] = id /\ OpenAt(serverMap[id], svc[s].connection)
PendingNotStale ==
  \A x \in pendingConnections :
    \E k \in Client : OpenAt(atoi(x), client[k].connection)
DescriptorsNotStale == RegistryNotStale /\ PendingNotStale

\* The client that a child reports success to, and relays, is one that asked
\* for the service whose helper answered.
PairedWithRequestedService ==
  \A a \in Conn : child[a].pc # "none" /\ child[a].ok =>
    \E s \in Service, k \in Client :
      /\ a \in svc[s].children
      /\ client[k].connection = child[a].client
      /\ serviceID[s] = wantedID[k]

\* No client is answered twice: one child for each, and none for a client
\* that is still pending.
AnsweredOnce ==
  /\ \A a, b \in Conn :
       a # b /\ child[a].pc # "none" => child[a].client # child[b].client
  /\ \A x \in pendingConnections, a \in Conn : child[a].client # fdTable[atoi(x)]

\* A client told that it is connected, or that relays already, has a helper whose
\* dial of the service succeeded.
ConnectedIsBacked ==
  \A k \in Client : client[k].pc \in {"connected", "relaying"} =>
    \E a \in Conn : /\ child[a].ok
                    /\ child[a].client = client[k].connection
                    /\ helper[a].reached

\* Between two requests spd has open only what is registered or pending: whoever
\* handled a request has answered it and closed the socket.
Known(f) ==
  f = requestFd \/ (\E id \in ServerID : serverMap[id] = f) \/ to_string(f) \in pendingConnections
HandledIsClosed == spd = "up" => \A f \in FD : fdTable[f] # NoConn => Known(f)

\* spd forgets a descriptor it leaves open in no other case than these: it
\* refuses to register an id that is taken, or the recv of the request fails.
Forgotten(f) == fdTable[f] # NoConn /\ ~Known(f)
RefusesRegister ==
  /\ inq[request] # <<>>
  /\ \E id \in ServerID :
       Registered(id) /\ Head(inq[request]) = makeRegisterRequest(id)
RecvFails == inq[request] = <<>> /\ rst[request] = "reset"
ForgetsOnlyRefused ==
  [][\A f \in FD : Forgotten(f)' /\ ~Forgotten(f) =>
       f = requestFd /\ (RefusesRegister \/ RecvFails)]_vars

\* A service proxy that took spd's response for a yes, and has not ended, holds
\* the registration of its id: what clients ask for reaches it.
Serves(s) == svc[s].pc \in {"serving", "dialling", "forking", "stopping"}
ServingIsRegistered ==
  spd = "up" => \A s \in Service : Serves(s) =>
    Registered(serviceID[s]) /\ fdTable[serverMap[serviceID[s]]] = svc[s].connection

\* spd never ends of its own: every request it receives is one it can parse
\* and every send goes to a connection that stands.
SpdStaysUp == spd = "up"

\* As long as no service proxy was interrupted spd does not end: every request
\* it receives parses, and every send goes to a connection that stands.
OnlyInterruptsEndSpd ==
  spd = "down" => \E s \in Service : svc[s].farewell # NoConn

\* A client is taken off pendingConnections, by an spd that goes on, only in
\* the step that forks the child that will tell it.
ResolvedIsNotified ==
  [][\A f \in FD :
       (to_string(f) \in pendingConnections /\ to_string(f) \notin pendingConnections'
          /\ spd' = "up")
       => \E a \in Conn : /\ child[a].pc = "none" /\ child'[a].pc = "notify"
                          /\ child'[a].client = fdTable[f]]_vars

\* A registration is only removed at the request of the service proxy that
\* made it.
UnregistersOwnService ==
  [][\A id \in ServerID :
       Registered(id) /\ serverMap'[id] = NoFd /\ spd' = "up"
       => \E s \in Service : /\ svc[s].pc = "exited"
                             /\ svc[s].connection = fdTable[serverMap[id]]]_vars

\* A service proxy that serves ends, uninterrupted, only with its connection:
\* whatever spd sends it is read as requests.
ServesUntilInterrupted ==
  [][\A s \in Service :
       svc[s].pc = "serving" /\ svc'[s].pc = "exited" => ~SpdHolds(svc[s].connection)]_vars

-----------------------------------------------------------------------------
(* Liveness *)

\* A client that asked is told, whoever else asks and waits, unless a service
\* proxy was interrupted.
AnsweredUnlessInterrupted ==
  \A k \in Client : client[k].pc = "waiting"
    ~> \/ client[k].pc \in {"connected", "refused"}
       \/ \E s \in Service : svc[s].farewell # NoConn

\* spd gets to every connection that is queued, however its requests and the
\* answers to them depend on each other.
QueueServed ==
  \A c \in Conn : (\E i \in DOMAIN backlog : backlog[i] = c)
    ~> spd = "down" \/ \A i \in DOMAIN backlog : backlog[i] # c

\* A service proxy that is interrupted ends up unregistered.
ShutdownUnregisters ==
  \A s \in Service :
    svc[s].pc = "stopping" ~> \A id \in ServerID : Registered(id) =>
                                fdTable[serverMap[id]] # svc[s].connection
=============================================================================
