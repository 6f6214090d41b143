-------------------------- MODULE VirtualSocketInv --------------------------
(***************************************************************************)
(* The inductive invariants behind the safety properties.  First that of   *)
(* DescriptorsNotStale: why the numbers spd keeps always denote the        *)
(* connection they were stored for, although the kernel reuses numbers and *)
(* although every process may fail.                                        *)
(***************************************************************************)
EXTENDS VirtualSocket

\* A service proxy that runs has its connection, and one that answers, or
\* whose helper does, knows whom.
SvcReady(r) ==
  /\ r.pc \notin {"off", "exited"} => r.connection # NoConn
  /\ r.pc \in {"dialling", "forking"} => r.clientID \in NodeID
  /\ r.pc = "forking" => r.newProxyConnection # NoConn
HelperReady(h) == h.pc = "connecting" => h.clientID \in NodeID
HandlesKnown ==
  /\ \A s \in Service : SvcReady(svc[s])
  /\ \A a \in Conn : HelperReady(helper[a])

Used(c) == peer[c] # "none"

\* A connection is at one place on the spd host: queued, or open at one number.
HostConsistent ==
  /\ \A f, g \in FD : fdTable[f] = fdTable[g] /\ fdTable[f] # NoConn => f = g
  /\ \A i, j \in DOMAIN backlog : backlog[i] = backlog[j] => i = j
  /\ \A i \in DOMAIN backlog, f \in FD : backlog[i] # fdTable[f]
  /\ \A f \in FD : fdTable[f] # NoConn => Used(fdTable[f])
  /\ \A i \in DOMAIN backlog : Used(backlog[i])

\* Each proxy's connection is one it dialled, and no other proxy's.
OwnersDistinct ==
  /\ \A s \in Service : svc[s].connection # NoConn =>
       svc[s].pc # "off" /\ Used(svc[s].connection)
  /\ \A k \in Client : client[k].connection # NoConn =>
       client[k].pc # "off" /\ Used(client[k].connection)
  /\ \A s, t \in Service :
       svc[s].connection = svc[t].connection /\ svc[s].connection # NoConn => s = t
  /\ \A j, k \in Client :
       client[j].connection = client[k].connection /\ client[j].connection # NoConn
         => j = k
  /\ \A s \in Service, k \in Client :
       svc[s].connection = client[k].connection => svc[s].connection = NoConn

\* Who sends what: register requests come from service proxies, connect
\* requests from client proxies, on the connections they keep.
PacketsOwned ==
  \A c \in Conn : \A i \in DOMAIN inq[c], id \in ServerID :
    /\ inq[c][i] = makeRegisterRequest(id) =>
         \E s \in Service : serviceID[s] = id /\ svc[s].connection = c
    /\ inq[c][i] = makeConnectRequest(id) =>
         \E k \in Client : wantedID[k] = id /\ client[k].connection = c

\* The request that is handled has an open descriptor nothing refers to yet.
HandlingFresh ==
  requestFd # NoFd =>
    /\ fdTable[requestFd] # NoConn
    /\ \A id \in ServerID : serverMap[id] # requestFd
    /\ to_string(requestFd) \notin pendingConnections

\* A process that ended keeps nothing.
DownIsEmpty ==
  spd = "down" =>
    /\ requestFd = NoFd
    /\ pendingConnections = {}
    /\ \A id \in ServerID : serverMap[id] = NoFd
    /\ \A f \in FD : fdTable[f] = NoConn

\* The inductive invariant that spd's descriptor numbers are safe.
RegistryInv ==
  /\ TypeOK
  /\ HandlesKnown
  /\ HostConsistent
  /\ OwnersDistinct
  /\ PacketsOwned
  /\ HandlingFresh
  /\ DownIsEmpty
  /\ DescriptorsNotStale

-----------------------------------------------------------------------------
\* A connection that spd is done with: it was used, and is neither queued nor open.
Settled(c) ==
  /\ c \in Conn /\ Used(c)
  /\ \A f \in FD : fdTable[f] # c
  /\ \A i \in DOMAIN backlog : backlog[i] # c

\* The inductive invariant of the relay processes: spd has closed both
\* connections that a child got, no two children got the same client, and
\* before a child there is no client for it.
ChildrenApart ==
  /\ \A a \in Conn : child[a].pc = "none" => child[a].client = NoConn
  /\ \A a \in Conn : child[a].pc # "none" => Settled(a) /\ Settled(child[a].client)
  /\ \A a, b \in Conn :
       a # b /\ child[a].pc # "none" => child[a].client # child[b].client

-----------------------------------------------------------------------------
(* Why answers reach the client they are for, while spd is started again     *)
(* only after the service proxies: a client id is at one place between       *)
(* pendingConnections and the answer, and in the hands of a service that the *)
(* client asked for.                                                         *)

Has(q, P) == \E i \in DOMAIN q : q[i] \in P
Once(q, P) == \A i, j \in DOMAIN q : q[i] \in P /\ q[j] \in P => i = j

Asks(x) == {makeProxyConnectRequest(x)}
Answers(x) == {makeConnectionCreatedRequest(x), makeConnectionFailedRequest(x)}

\* The id is queued for a service proxy that can still read it, or it makes a
\* helper for it.
Reads(s) == svc[s].pc # "exited" /\ svc[s].connection \in Conn
Asked(s, x) == Reads(s) /\ Has(outq[svc[s].connection], Asks(x))
Making(s, x) == svc[s].pc \in {"dialling", "forking"} /\ svc[s].clientID = x
Bears(s, x) == Asked(s, x) \/ Making(s, x)

\* A helper has the id, or has sent its answer, on a connection to this spd.
Helping(a, x) == helper[a].pc = "connecting" /\ helper[a].clientID = x
Answered(a, x) == Has(inq[a], Answers(x))
Carries(a, x) == ~Settled(a) /\ (Helping(a, x) \/ Answered(a, x))

\* x is the number of a client that waits for service id.
Wanted(x, id) ==
  /\ x \in pendingConnections
  /\ \E k \in Client : wantedID[k] = id /\ OpenAt(atoi(x), client[k].connection)

\* A service proxy, and a connection, have the id in one form, once.
ServiceOnce(s, x) ==
  /\ ~(Asked(s, x) /\ Making(s, x))
  /\ Reads(s) => Once(outq[svc[s].connection], Asks(x))
AnswerOnce(a, x) ==
  Settled(a) \/ (~(Helping(a, x) /\ Answered(a, x)) /\ Once(inq[a], Answers(x)))

\* Who has an id that spd sent has it alone, and serves the id's client.
OneBearer(x) ==
  /\ \A s, t \in Service : Bears(s, x) /\ Bears(t, x) => s = t
  /\ \A a, b \in Conn : Carries(a, x) /\ Carries(b, x) => a = b
  /\ \A s \in Service, a \in Conn : ~(Bears(s, x) /\ Carries(a, x))
  /\ \A s \in Service : ServiceOnce(s, x)
  /\ \A a \in Conn : AnswerOnce(a, x)
BearerWanted(x) ==
  /\ \A s \in Service : Bears(s, x) => Wanted(x, serviceID[s])
  /\ \A a \in Conn : Carries(a, x) =>
       \E s \in Service : a \in svc[s].children /\ Wanted(x, serviceID[s])

\* A new spd finds nothing of the last one's: the queue went with the listening
\* socket, and what is still to be dialled has no packets and no helper.
NothingLeft ==
  /\ ~Listening => backlog = <<>>
  /\ \A c \in Conn : ~Used(c) => inq[c] = <<>> /\ helper[c].pc = "none"
  /\ \A s \in Service :
       svc[s].newProxyConnection # NoConn => Used(svc[s].newProxyConnection)

\* Nothing is queued on a connection nobody dialled.
UnusedEmpty == \A c \in Conn : ~Used(c) => outq[c] = <<>>

\* A child answers a client.
ChildrenOfClients ==
  \A a \in Conn : child[a].pc # "none" =>
    \E k \in Client : client[k].connection = child[a].client

\* The inductive invariant behind PairedWithRequestedService.
PairingInv ==
  /\ UnusedEmpty
  /\ ChildrenOfClients
  /\ PairedWithRequestedService
  /\ spd = "up" => \A x \in NodeID : OneBearer(x) /\ BearerWanted(x)

-----------------------------------------------------------------------------
(* What the proof that Rendezvous is implemented needs besides *)

\* The connections a service proxy opened to answer with.
Opened(s) == svc[s].children \cup ({svc[s].newProxyConnection} \ {NoConn})

\* Each was opened by one service proxy, for one helper, and is no connection
\* to register or to ask on; and spd only joins those whose helper answered.
LinesApart ==
  /\ \A s \in Service : \A a \in Opened(s) :
       /\ Used(a)
       /\ \A t \in Service : svc[t].connection # a
       /\ \A k \in Client : client[k].connection # a
  /\ \A s, t \in Service : Opened(s) \cap Opened(t) # {} => s = t
  /\ \A s \in Service : svc[s].newProxyConnection \notin svc[s].children
  /\ \A a \in Conn : child[a].pc # "none" => \E s \in Service : a \in svc[s].children

-----------------------------------------------------------------------------
(* What the proofs below need to know of the start of a connection.          *)

Okay == {makeResponse(TRUE)}
Registers == {makeRegisterRequest(id) : id \in ServerID}

\* spd has answered nobody on c yet.
Early(c) ==
  \/ ~Used(c)
  \/ requestFd # NoFd /\ request = c
  \/ \E i \in DOMAIN backlog : backlog[i] = c

\* Who has dialled has not asked yet.
UnaskedInv ==
  \A s \in Service : svc[s].pc = "dialled" => ~Has(inq[svc[s].connection], Registers)

-----------------------------------------------------------------------------
(* Why a registration ends at the request of the service proxy that made it, *)
(* while spd is started again only after the service proxies and no helper   *)
(* gets a signal.                                                            *)

Unregisters == {makeUnregisterRequest(id) : id \in ServerID}

\* The registration of s's id is that of s.
Holds(s) ==
  /\ svc[s].connection # NoConn
  /\ Registered(serviceID[s])
  /\ fdTable[serverMap[serviceID[s]]] = svc[s].connection

\* s knows that it is registered, or will when it reads the response.
Told(s) == svc[s].pc \in {"dialled", "awaiting"} /\ Has(outq[svc[s].connection], Okay)
HoldersKnown == \A s \in Service : Serves(s) \/ Told(s) => Holds(s)

\* What a service proxy dialled to unregister is no other's, and no connection
\* to register on.
FarewellsApart ==
  \A s \in Service : svc[s].farewell # NoConn =>
    /\ Used(svc[s].farewell)
    /\ \A t \in Service : svc[t].farewell = svc[s].farewell => s = t
    /\ \A t \in Service : svc[t].connection # svc[s].farewell

\* A request to unregister is that of a service proxy that was registered, and
\* still is; it sent one and ended.
Leaver(s, id, c) ==
  serviceID[s] = id /\ svc[s].pc = "exited" /\ svc[s].farewell = c /\ Holds(s)
Leaving ==
  \A c \in Conn : ~Settled(c) =>
    /\ Once(inq[c], Unregisters)
    /\ \A id \in ServerID : Has(inq[c], {makeUnregisterRequest(id)}) =>
         \E s \in Service : Leaver(s, id, c)

\* The inductive invariant behind ServingIsRegistered and UnregistersOwnService.
HolderInv ==
  /\ FarewellsApart
  /\ \A a \in Conn : helper[a].pc # "stopping"
  /\ spd = "up" => HoldersKnown /\ Leaving

-----------------------------------------------------------------------------
(* Why a client that is told it is connected has a helper that reached its   *)
(* service: who may send a success on a client's connection.                 *)

Created == {makeConnectionCreatedRequest(x) : x \in NodeID}

\* A helper whose dial of its service succeeded.
Reached(a) == helper[a].reached
Backed(c) == \E a \in Conn : child[a].ok /\ child[a].client = c /\ Reached(a)

\* Nothing was said on a connection, and no helper has it.
Silent(c) == inq[c] = <<>> /\ outq[c] = <<>> /\ helper[c].pc = "none"

\* A connection that was dialled for a helper, which is not forked yet.
Unhelped(s) ==
  LET a == svc[s].newProxyConnection IN
  a # NoConn =>
    /\ Used(a) /\ helper[a].pc = "none"
    /\ \A t \in Service : svc[t].newProxyConnection = a => s = t

\* What was dialled to unregister is no client's connection.
NoClients(c) == c # NoConn => Used(c) /\ \A k \in Client : client[k].connection # c

\* No client's connection carries a request to unregister, and each that
\* carries a success is backed.
Promised(k) ==
  LET c == client[k].connection IN
  /\ client[k].pc \in {"dialled", "waiting"} => c # NoConn
  /\ c # NoConn => ~Has(inq[c], Unregisters) /\ (Has(outq[c], Okay) => Backed(c))
  /\ client[k].pc \in {"connected", "relaying"} => Backed(c)

\* The inductive invariant behind ConnectedIsBacked.
BackedInv ==
  /\ \A c \in Conn : ~Used(c) => Silent(c)
  /\ \A s \in Service : Unhelped(s) /\ NoClients(svc[s].farewell)
  /\ \A a \in Conn :
       /\ NoClients(helper[a].farewell)
       /\ Has(inq[a], Created) => Reached(a)
       /\ child[a].ok => Reached(a) /\ child[a].pc # "none"
       /\ child[a].pc = "relay" => child[a].ok
  /\ \A k \in Client : Promised(k)
-----------------------------------------------------------------------------
(* Why spd goes on as long as no service proxy is interrupted and no process *)
(* fails: what it receives parses, and where it sends somebody listens.      *)

Interrupted == \E s \in Service : svc[s].farewell # NoConn

\* What spd will handle, if it is there, starts with a packet, and comes.
Receivable(c) ==
  /\ outq[c] = <<>>
  /\ inq[c] = <<>> => peer[c] # "closed"
  /\ inq[c] # <<>> => inq[c][1] # Payload

\* Who is about to close a connection has spoken on it.
Spoke(c) == inq[c] # <<>> \/ ~Early(c)
Spoken ==
  /\ \A s \in Service : svc[s].pc \notin {"off", "dialled"} /\ svc[s].connection # NoConn
       => Spoke(svc[s].connection)
  /\ \A k \in Client : client[k].pc \notin {"off", "dialled"} /\ client[k].connection # NoConn
       => Spoke(client[k].connection)
  /\ \A a \in Conn : helper[a].pc \notin {"none", "connecting"} => Spoke(a)

\* A service proxy waits until spd answers it, and listens once it is registered.
Held(s) ==
  LET c == svc[s].connection IN
  /\ peer[c] = "open"
  /\ svc[s].pc \in {"awaiting", "serving", "dialling", "forking"}
  /\ svc[s].pc = "awaiting" => outq[c] # <<>> /\ outq[c][1] \in Okay
Listens(s) ==
  LET c == svc[s].connection IN
  /\ svc[s].pc # "stopping"
  /\ c # NoConn /\ Early(c) => svc[s].pc \in {"dialled", "awaiting"} /\ peer[c] = "open"
  /\ Holds(s) => Held(s)

\* What helpers answer with is no connection to register on.
LinesUsed ==
  \A s \in Service : \A a \in Opened(s) : Used(a) /\ \A t \in Service : svc[t].connection # a

Going ==
  /\ spd = "up"
  /\ \A c \in Conn : Early(c) => Receivable(c)
  /\ \A c \in Conn : rst[c] # "no" => peer[c] = "closed"
  /\ \A s \in Service : Listens(s)
  /\ LinesUsed
  /\ \A a \in Conn : helper[a].pc # "stopping"
  /\ Spoken

\* The inductive invariant behind OnlyInterruptsEndSpd.
GoingInv == Interrupted \/ Going
=============================================================================
