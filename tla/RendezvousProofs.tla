-------------------------- MODULE RendezvousProofs --------------------------
(***************************************************************************)
(* Proof that VirtualSocket implements Rendezvous, as long as spd is       *)
(* started again only after the service proxies have ended.                *)
(***************************************************************************)
EXTENDS PairedProofs, VirtualSocketRefinement

-----------------------------------------------------------------------------
(* The connections that helpers answer with *)

\* The proxies keep their connections, and open none to answer with.
SameLines ==
  /\ \A k \in Client : client'[k].connection = client[k].connection
  /\ \A s \in Service :
       /\ svc'[s].connection = svc[s].connection
       /\ svc'[s].children = svc[s].children
       /\ svc'[s].newProxyConnection \in {svc[s].newProxyConnection, NoConn}

\* Such a step keeps the lines apart.
LEMMA LinesSame ==
  ASSUME TypeOK, LinesApart, SameLines, StaysUsed, UNCHANGED child
  PROVE  LinesApart'
<1>1. \A s \in Service : svc[s].children \in SUBSET Conn
  BY SvcType DEF TypeOK, SvcRecord
<1>2. \A s \in Service : Opened(s)' \subseteq Opened(s)
  BY DEF Opened, SameLines
<1>3. \A s \in Service : Opened(s) \subseteq Conn
  <2>1. \A s \in Service : svc[s].newProxyConnection \in Conn \cup {NoConn}
    BY SvcType DEF TypeOK, SvcRecord
  <2> QED
    BY <1>1, <2>1 DEF Opened
<1>4. \A s \in Service : svc'[s].newProxyConnection \notin svc'[s].children
  BY <1>1, NumberTypes DEF LinesApart, SameLines
<1>5. \A s \in Service : \A a \in Opened(s)' :
        /\ peer'[a] # "none"
        /\ \A t \in Service : svc'[t].connection # a
        /\ \A k \in Client : client'[k].connection # a
  BY <1>2, <1>3 DEF LinesApart, SameLines, StaysUsed
<1>6. \A s, t \in Service : Opened(s)' \cap Opened(t)' # {} => s = t
  BY <1>2 DEF LinesApart
<1> QED
  BY <1>4, <1>5, <1>6 DEF LinesApart, SameLines, Used

\* The connection that a proxy dials is none of them: nobody used it.
LEMMA LinesDialled ==
  ASSUME TypeOK, LinesApart, StaysUsed, UNCHANGED child, NEW c \in Conn, ~Used(c),
         \A s \in Service : /\ svc'[s].connection \in {svc[s].connection, c}
                            /\ svc'[s].children = svc[s].children
                            /\ svc'[s].newProxyConnection = svc[s].newProxyConnection,
         \A k \in Client : client'[k].connection \in {client[k].connection, c}
  PROVE  LinesApart'
<1>1. \A s \in Service : Opened(s)' = Opened(s)
  BY DEF Opened
<1>2. \A s \in Service : Opened(s) \subseteq Conn
  BY SvcType DEF TypeOK, SvcRecord, Opened
<1>3. \A s \in Service : \A a \in Opened(s)' :
        /\ peer'[a] # "none"
        /\ \A t \in Service : svc'[t].connection # a
        /\ \A k \in Client : client'[k].connection # a
  BY <1>1, <1>2 DEF LinesApart, StaysUsed
<1> QED
  BY <1>1, <1>3 DEF LinesApart, Used

\* A service proxy that dials spd to answer opens a connection nobody used.
LEMMA LinesDialProxy ==
  ASSUME RegistryInv, LinesApart, NEW s \in Service, DialProxy(s),
         UNCHANGED <<child, client>>
  PROVE  LinesApart'
<1>1. PICK a \in Conn : DialProxy(s)!2!(a)
  BY DEF DialProxy
<1>2. ~Used(a) /\ peer'[a] # "none" /\ StaysUsed
  BY <1>1, DialUses DEF RegistryInv, TypeOK
<1>3. /\ svc'[s].newProxyConnection = a
      /\ svc'[s].connection = svc[s].connection /\ svc'[s].children = svc[s].children
      /\ \A t \in Service \ {s} : svc'[t] = svc[t]
  BY <1>1 DEF RegistryInv, TypeOK, ServiceTypeOK
<1>4. /\ \A t \in Service : svc[t].connection # a
      /\ \A k \in Client : client[k].connection # a
  BY <1>2, NumberTypes DEF RegistryInv, OwnersDistinct
<1>5. \A t \in Service : a \notin Opened(t) /\ Opened(t) \subseteq Conn
  BY <1>2, SvcType DEF LinesApart, RegistryInv, TypeOK, SvcRecord, Opened
<1>6. \A t \in Service : Opened(t)' \subseteq Opened(t) \cup (IF t = s THEN {a} ELSE {})
  BY <1>3 DEF Opened
<1>7. \A t \in Service : \A b \in Opened(t)' :
        /\ peer'[b] # "none"
        /\ \A u \in Service : svc'[u].connection # b
        /\ \A k \in Client : client'[k].connection # b
  BY <1>2, <1>3, <1>4, <1>5, <1>6 DEF LinesApart, StaysUsed
<1>8. \A t, u \in Service : Opened(t)' \cap Opened(u)' # {} => t = u
  BY <1>5, <1>6 DEF LinesApart
<1>9. \A t \in Service : svc'[t].newProxyConnection \notin svc'[t].children
  BY <1>3, <1>5 DEF LinesApart, Opened
<1>10. \A t \in Service : svc'[t].children = svc[t].children
  BY <1>3
<1> QED
  BY <1>7, <1>8, <1>9, <1>10 DEF LinesApart, Used

\* One that forks passes the connection to the helper.
LEMMA LinesFork ==
  ASSUME RegistryInv, LinesApart, NEW s \in Service, Fork(s), UNCHANGED <<child, client>>
  PROVE  LinesApart'
<1> DEFINE a == svc[s].newProxyConnection
<1>0. TypeOK /\ svc[s] \in SvcRecord
  BY SvcType DEF RegistryInv, TypeOK
<1>1. a \in Conn /\ a # NoConn
  BY <1>0 DEF Fork, RegistryInv, HandlesKnown, SvcReady, SvcRecord
<1>2. /\ svc'[s].newProxyConnection = NoConn
      /\ svc'[s].connection = svc[s].connection /\ svc'[s].children = svc[s].children \cup {a}
      /\ \A t \in Service \ {s} : svc'[t] = svc[t]
  BY <1>0 DEF Fork, TypeOK, ServiceTypeOK
<1>3. \A t \in Service : Opened(t)' = Opened(t)
  <2>1. Opened(s)' = Opened(s)
    BY <1>1, <1>2 DEF Opened
  <2> QED
    BY <1>2, <2>1 DEF Opened
<1>4. \A t \in Service : svc'[t].newProxyConnection \notin svc'[t].children
  BY <1>0, <1>1, <1>2, NumberTypes DEF LinesApart, SvcRecord
<1>5. UNCHANGED peer /\ \A t \in Service : svc'[t].connection = svc[t].connection
  BY <1>2 DEF Fork, netVars
<1>6. \A t \in Service : svc[t].children \subseteq svc'[t].children
  BY <1>2
<1> QED
  BY <1>3, <1>4, <1>5, <1>6 DEF LinesApart, Used

\* What else a service proxy does opens nothing.
LEMMA ServiceLines ==
  ASSUME TypeOK, NEW s \in Service, UNCHANGED client,
         \/ ConnectRefused(s) \/ SendRegister(s) \/ ReadRegisterResponse(s)
         \/ ReadConnectRequest(s) \/ ReadThrows(s) \/ DialProxyFails(s) \/ ForkFails(s)
         \/ Interrupt(s) \/ InterruptRefused(s) \/ SendUnregister(s) \/ Crash(s)
  PROVE  SameLines
<1>1. \/ \E pc : Goto(s, pc)
      \/ ReadConnectRequest(s) \/ DialProxyFails(s) \/ ForkFails(s) \/ Interrupt(s)
  BY ExitIsGoto DEF ConnectRefused, SendRegister, ReadRegisterResponse, ReadThrows,
     InterruptRefused, SendUnregister, Crash
<1>2. CASE \E pc : Goto(s, pc)
  BY <1>2 DEF Goto, SameLines, TypeOK, ServiceTypeOK
<1>3. CASE ReadConnectRequest(s) \/ DialProxyFails(s) \/ ForkFails(s)
  BY <1>3 DEF ReadConnectRequest, DialProxyFails, ForkFails, SameLines, TypeOK,
     ServiceTypeOK
<1>4. CASE Interrupt(s)
  <2>1. PICK c \in Conn : Interrupt(s)!3!(c)
    BY <1>4 DEF Interrupt
  <2> QED
    BY <2>1 DEF SameLines, TypeOK, ServiceTypeOK
<1> QED
  BY <1>1, <1>2, <1>3, <1>4

\* Every step of a service proxy keeps the lines apart.
LEMMA LinesService ==
  ASSUME RegistryInv, LinesApart, NEW s \in Service, UNCHANGED <<serverVars, client>>,
         \/ Connect(s) \/ ConnectRefused(s) \/ SendRegister(s)
         \/ ReadRegisterResponse(s) \/ ReadConnectRequest(s) \/ ReadThrows(s)
         \/ DialProxy(s) \/ DialProxyFails(s) \/ Fork(s) \/ ForkFails(s)
         \/ Interrupt(s) \/ InterruptRefused(s) \/ SendUnregister(s) \/ Crash(s)
  PROVE  LinesApart'
<1>0. TypeOK /\ UNCHANGED child
  BY DEF RegistryInv, serverVars
<1>1. StaysUsed
  BY ServicePeer DEF PeerStepOK
<1>2. CASE Connect(s)
  <2>1. PICK c \in Conn : Connect(s)!2!(c)
    BY <1>2 DEF Connect
  <2>2. ~Used(c)
    BY <2>1, DialUses DEF RegistryInv, TypeOK
  <2>3. \A t \in Service : /\ svc'[t].connection \in {svc[t].connection, c}
                           /\ svc'[t].children = svc[t].children
                           /\ svc'[t].newProxyConnection = svc[t].newProxyConnection
    BY <1>0, <2>1 DEF TypeOK, ServiceTypeOK
  <2> QED
    BY <1>0, <1>1, <2>2, <2>3, LinesDialled
<1>3. CASE DialProxy(s)
  BY <1>0, <1>3, LinesDialProxy
<1>4. CASE Fork(s)
  BY <1>0, <1>4, LinesFork
<1>5. CASE ~Connect(s) /\ ~DialProxy(s) /\ ~Fork(s)
  BY <1>0, <1>1, <1>5, ServiceLines, LinesSame
<1> QED
  BY <1>2, <1>3, <1>4, <1>5

\* Every step of a client proxy does.
LEMMA LinesClient ==
  ASSUME RegistryInv, LinesApart, NEW k \in Client, UNCHANGED <<serverVars, serviceVars>>,
         \/ ClientConnect(k) \/ ClientConnectRefused(k) \/ SendConnect(k)
         \/ ReadConnectResponse(k) \/ ClientReadThrows(k) \/ ClientRecvFails(k)
         \/ ClientListenFails(k) \/ ClientAccept(k) \/ ClientDone(k) \/ ClientCrash(k)
  PROVE  LinesApart'
<1>0. TypeOK /\ UNCHANGED <<child, svc>>
  BY DEF RegistryInv, serverVars, serviceVars
<1>1. StaysUsed
  BY <1>0, ClientPeer DEF PeerStepOK
<1>2. CASE ClientConnect(k)
  <2>1. PICK c \in Conn : ClientConnect(k)!2!(c)
    BY <1>2 DEF ClientConnect
  <2>2. ~Used(c)
    BY <2>1, DialUses DEF RegistryInv, TypeOK
  <2>3. \A j \in Client : client'[j].connection \in {client[j].connection, c}
    BY <1>0, <2>1 DEF TypeOK, ClientTypeOK
  <2> QED
    BY <1>0, <1>1, <2>2, <2>3, LinesDialled
<1>3. CASE \E pc : ClientGoto(k, pc)
  <2>1. SameLines
    BY <1>0, <1>3 DEF ClientGoto, SameLines, TypeOK, ClientTypeOK
  <2> QED
    BY <1>0, <1>1, <2>1, LinesSame
<1> QED
  BY <1>2, <1>3 DEF ClientConnectRefused, SendConnect, ReadConnectResponse,
     ClientReadThrows, ClientRecvFails, ClientListenFails, ClientAccept, ClientDone,
     ClientCrash, ClientExit

\* spd forks a child only for a connection that a helper answers with.
LEMMA LinesServer ==
  ASSUME RegistryInv, PairingInv, LinesApart, ServerStep, UNCHANGED <<serviceVars, client>>
  PROVE  LinesApart'
<1> USE DEF RegistryInv, serviceVars
<1>1. UNCHANGED peer
  BY DEF ServerStep, Run, AcceptConnection, RecvError, ParseThrows, HandleRegister,
     HandleUnregister, HandleConnect, HandleConnectUnknown, HandleConnectKilled,
     HandleAnswer, HandleUnexpected, ChildNotify, ChildForward, ChildRelayed, ChildKilled,
     ChildExit, Die, netVars
<1>2. \A a \in Conn : child'[a].pc # "none" /\ child[a].pc = "none" =>
                        \E s \in Service : a \in svc[s].children
  <2>1. CASE HandleAnswer
    <3>1. PICK x \in ClientID, success \in BOOLEAN : HandleAnswer!(x, success)
      BY <2>1 DEF HandleAnswer
    <3> DEFINE p == IF success THEN makeConnectionCreatedRequest(x)
                               ELSE makeConnectionFailedRequest(x)
    <3>2. /\ requestFd \in FD /\ request \in Conn /\ 1 \in DOMAIN inq[request] /\ inq[request][1] = p
          /\ p \in Answers(x) /\ x \in NodeID /\ spd = "up"
      BY <3>1, RequestReceived DEF Answers, NodeID, Receive, Handling
    <3> HIDE DEF p
    <3>3. Carries(request, x)
      BY <3>2, RequestUnsettled DEF Carries, Answered, Has
    <3>4. \E s \in Service : request \in svc[s].children
      BY <3>2, <3>3 DEF PairingInv, BearerWanted
    <3>5. \A a \in Conn \ {request} : child'[a] = child[a]
      BY <3>1 DEF ResolvePending, RefuseAnswer, Forked, TypeOK, ServerTypeOK
    <3> QED
      BY <3>4, <3>5
  <2>2. CASE \E a \in Conn : ChildNotify(a) \/ ChildForward(a) \/ ChildRelayed(a)
                             \/ ChildKilled(a)
    BY <2>2 DEF ChildNotify, ChildForward, ChildRelayed, ChildKilled, ChildExit,
       serverVars, TypeOK, ServerTypeOK
  <2>3. CASE UNCHANGED child
    BY <2>3
  <2> QED
    BY <2>1, <2>2, <2>3 DEF ServerStep, Run, AcceptConnection, RecvError, ParseThrows,
       HandleRegister, HandleUnregister, HandleConnect, HandleConnectUnknown,
       HandleConnectKilled, HandleUnexpected, Die
<1> QED
  BY <1>1, <1>2 DEF LinesApart, Opened, Used

\* LinesApart is inductive, given that answers reach whom they are for.
LEMMA LinesStep ==
  RegistryInv /\ PairingInv /\ LinesApart /\ [Next]_vars => LinesApart'
<1> SUFFICES ASSUME RegistryInv, PairingInv, LinesApart, [Next]_vars
             PROVE  LinesApart'
  OBVIOUS
<1>0. TypeOK
  BY DEF RegistryInv
<1>1. CASE ServerStep /\ UNCHANGED <<serviceVars, client>>
  BY <1>1, LinesServer
<1>2. CASE ServiceStep /\ UNCHANGED <<serverVars, client>>
  <2>1. PICK s \in Service : ServiceStep!(s)
    BY <1>2 DEF ServiceStep
  <2>2. svc[s].children \in SUBSET Conn
    BY <1>0, SvcType DEF TypeOK, SvcRecord
  <2>3. ASSUME NEW a \in svc[s].children,
               \/ HelperConnected(s, a) \/ HelperFailed(s, a) \/ HelperPayload(s, a)
               \/ HelperDone(s, a) \/ HelperInterrupt(s, a) \/ HelperInterruptRefused(s, a)
               \/ HelperUnregister(s, a) \/ HelperCrash(s, a)
        PROVE  LinesApart'
    <3>1. StaysUsed /\ UNCHANGED <<svc, client, child>>
      BY <1>2, <2>2, <2>3, HelperPeer, HelperOut DEF PeerStepOK, serverVars
    <3> QED
      BY <1>0, <3>1, LinesSame DEF SameLines
  <2> QED
    BY <1>2, <2>1, <2>3, LinesService
<1>3. CASE ClientStep /\ UNCHANGED <<serverVars, serviceVars>>
  <2>1. PICK k \in Client : ClientStep!(k)
    BY <1>3 DEF ClientStep
  <2> QED
    BY <1>3, <2>1, LinesClient
<1>4. CASE \E c \in Conn : ResetConnection(c) \/ StrayRequest(c)
  <2>1. StaysUsed /\ UNCHANGED <<svc, client, child>>
    BY <1>4, EventPeer DEF PeerStepOK, serverVars, serviceVars, ResetConnection,
       StrayRequest
  <2> QED
    BY <1>0, <2>1, LinesSame DEF SameLines
<1>5. CASE UNCHANGED vars
  BY <1>5 DEF vars, transportVars, netVars, serverVars, serviceVars, LinesApart, Opened,
     Used
<1> QED
  BY <1>1, <1>2, <1>3, <1>4, <1>5 DEF Next

\* Nobody opened a connection, and no child was forked, at first.
LEMMA LinesInit == Init => LinesApart
BY DEF Init, ServiceInit, ServerInit, LinesApart, Opened

-----------------------------------------------------------------------------
(* Steps that the rendezvous does not notice *)

Unnoticed == UNCHANGED <<registry, waiting, offered, joined>>

\* The mapping is taken value by value.
LEMMA UnnoticedWhen ==
  ASSUME \A id \in ServerID : LineOf(id)' = LineOf(id),
         \A c \in Conn : WaitsFor(c)' = WaitsFor(c),
         \A a \in Conn : OfferedFor(a)' = OfferedFor(a),
         joined' = joined
  PROVE  Unnoticed
BY DEF Unnoticed, registry, waiting, offered

\* Who waits on a connection is the same while its owner keeps it.
LEMMA WaitsKept ==
  ASSUME OwnersDistinct', OwnersKept, NEW c \in Conn, Pending(c)' = Pending(c),
         Pending(c) => \E k \in Client : client[k].connection = c
  PROVE  WaitsFor(c)' = WaitsFor(c)
<1>1. CASE ~Pending(c)
  BY <1>1 DEF WaitsFor
<1>2. CASE Pending(c)
  <2>1. PICK k \in Client : client[k].connection = c
    BY <1>2
  <2>2. \A j \in Client : client[j].connection = c => client'[j].connection = c
    BY NumberTypes DEF OwnersKept
  <2>3. \A j \in Client : client'[j].connection = c => j = k
    BY <2>1, <2>2, NumberTypes DEF OwnersDistinct
  <2>4. \A j \in Client : client'[j].connection = c <=> client[j].connection = c
    BY <2>1, <2>2, <2>3
  <2> QED
    BY <1>2, <2>4 DEF WaitsFor
<1> QED
  BY <1>1, <1>2

\* Who waits is a client.
LEMMA PendingClient ==
  ASSUME RegistryInv, NEW c \in Conn, Pending(c)
  PROVE  \E k \in Client : client[k].connection = c
<1>1. PICK f \in FD : fdTable[f] = c /\ to_string(f) \in pendingConnections
  BY DEF Pending
<1> QED
  BY <1>1, ClientNames DEF RegistryInv, DescriptorsNotStale, PendingNotStale, OpenAt

\* A step of a peer that hands no connection to a helper.
LEMMA PeerUnnoticed ==
  ASSUME RegistryInv, PeerStepOK,
         \A s \in Service : svc'[s].children = svc[s].children
  PROVE  Unnoticed
<1>1. UNCHANGED <<fdTable, serverMap, pendingConnections, child>>
  BY DEF PeerStepOK, hostVars, serverVars
<1>2. \A c \in Conn : Pending(c)' = Pending(c)
  BY <1>1 DEF Pending
<1>3. \A c \in Conn : WaitsFor(c)' = WaitsFor(c)
  BY <1>2, PendingClient, WaitsKept DEF PeerStepOK
<1>4. \A id \in ServerID : LineOf(id)' = LineOf(id)
  BY <1>1 DEF LineOf, Registered
<1>5. \A a \in Conn : OfferedFor(a)' = OfferedFor(a)
  BY DEF OfferedFor
<1>6. joined' = joined
  BY <1>1 DEF joined, Successes
<1> QED
  BY <1>3, <1>4, <1>5, <1>6, UnnoticedWhen

\* What spd forked, and who succeeded, stays.
LEMMA JoinedSame ==
  ASSUME SamePairs
  PROVE  joined' = joined
<1>1. Successes' = Successes
  BY DEF SamePairs, Successes
<1>2. \A a \in Successes : child'[a].client = child[a].client
  BY DEF SamePairs, Successes
<1> QED
  BY <1>1, <1>2 DEF joined

\* The numbers that spd keeps go on denoting what they did.
KeepsNumbers ==
  /\ \A id \in ServerID : Registered(id) => fdTable'[serverMap[id]] = fdTable[serverMap[id]]
  /\ \A x \in pendingConnections : fdTable'[atoi(x)] = fdTable[atoi(x)]

\* A connection that nobody waits on before or after, or at the same number.
LEMMA PendingSame ==
  ASSUME RegistryInv, NEW c \in Conn,
         \A x \in ClientID :
           (x \in pendingConnections /\ fdTable[atoi(x)] = c)
             <=> (x \in pendingConnections' /\ fdTable'[atoi(x)] = c)
  PROVE  Pending(c)' = Pending(c)
BY ClientNames DEF Pending

\* A step of spd that registers, answers and closes nobody it knows.
LEMMA SpdUnnoticed ==
  ASSUME RegistryInv, UNCHANGED <<serverMap, pendingConnections, svc, client>>,
         SamePairs, KeepsNumbers
  PROVE  Unnoticed
<1>1. \A c \in Conn : Pending(c)' = Pending(c)
  BY PendingSame DEF KeepsNumbers
<1>2. \A c \in Conn : WaitsFor(c)' = WaitsFor(c)
  BY <1>1 DEF WaitsFor
<1>3. \A id \in ServerID : LineOf(id)' = LineOf(id)
  BY DEF LineOf, Registered, KeepsNumbers
<1>4. \A a \in Conn : OfferedFor(a)' = OfferedFor(a)
  BY DEF OfferedFor
<1> QED
  BY <1>2, <1>3, <1>4, JoinedSame, UnnoticedWhen

-----------------------------------------------------------------------------
(* Steps that the rendezvous makes *)

\* The parties of the request that spd handles are joined to nobody yet, and
\* no number that spd keeps is the request's.
LEMMA RequestFresh ==
  ASSUME RegistryInv, ChildrenApart, requestFd \in FD, request \in Conn
  PROVE  /\ WaitsFor(request) = {} /\ ~R!IsJoined(request)
         /\ \A id \in ServerID : LineOf(id) # request
<1> USE DEF RegistryInv
<1>1. \A f \in FD : fdTable[f] = request => f = requestFd
  BY NumberTypes DEF HostConsistent, request
<1>2. requestFd # NoFd
  BY NumberTypes
<1>3. ~Pending(request)
  BY <1>1, <1>2 DEF Pending, HandlingFresh
<1>4. WaitsFor(request) = {}
  BY <1>3 DEF WaitsFor
<1>5. ~R!IsJoined(request)
  <2>1. \A a \in Successes : a # request /\ child[a].client # request
    BY DEF Successes, ChildrenApart, Settled, request
  <2> QED
    BY <2>1 DEF R!IsJoined, joined
<1>6. \A id \in ServerID : LineOf(id) # request
  <2>1. \A id \in ServerID : Registered(id) => serverMap[id] \in FD \ {requestFd}
    BY NumbersDistinct DEF DescriptorsNotStale, RegistryNotStale, OpenAt
  <2> QED
    BY <1>1, <2>1, NumberTypes DEF LineOf
<1> QED
  BY <1>4, <1>5, <1>6

\* What a proxy connects with was opened to answer nobody.
LEMMA NotOffered ==
  ASSUME LinesApart, NEW c,
         \/ \E s \in Service : svc[s].connection = c
         \/ \E k \in Client : client[k].connection = c
  PROVE  OfferedFor(c) = {}
BY DEF LinesApart, Opened, OfferedFor

\* A line is registered, or the request is refused and changes nothing.
LEMMA RegisterImplements ==
  ASSUME RegistryInv, ChildrenApart, LinesApart, HandleRegister,
         UNCHANGED <<serviceVars, client>>
  PROVE  Unnoticed \/ R!Next
<1> USE DEF RegistryInv, serviceVars
<1>1. PICK id \in ServerID : HandleRegister!(id)
  BY DEF HandleRegister
<1>2. /\ requestFd \in FD /\ request \in Conn
      /\ 1 \in DOMAIN inq[request] /\ inq[request][1] = makeRegisterRequest(id)
  BY <1>1, RequestReceived
<1>3. UNCHANGED <<fdTable, pendingConnections, child>>
  BY <1>1 DEF hostVars
<1>4. CASE Registered(id)
  <2>1. UNCHANGED serverMap
    BY <1>1, <1>4 DEF registerServer
  <2> QED
    BY <1>3, <2>1, SpdUnnoticed DEF SamePairs, KeepsNumbers
<1>5. CASE ~Registered(id)
  <2>1. PICK c \in Conn : c = request
    BY <1>2
  <2>2. \A jd \in ServerID : LineOf(jd)' = IF jd = id THEN c ELSE LineOf(jd)
    BY <1>1, <1>2, <1>3, <1>5, <2>1, NumberTypes
       DEF registerServer, LineOf, Registered, request, TypeOK, ServerTypeOK
  <2>3. registry' = [registry EXCEPT ![id] = c]
    BY <2>2 DEF registry
  <2>4. UNCHANGED <<waiting, offered, joined>>
    <3>1. \A d \in Conn : Pending(d)' = Pending(d)
      BY <1>3 DEF Pending
    <3>2. \A d \in Conn : WaitsFor(d)' = WaitsFor(d)
      BY <3>1 DEF WaitsFor
    <3>3. \A d \in Conn : OfferedFor(d)' = OfferedFor(d)
      BY DEF OfferedFor
    <3> QED
      BY <1>3, <3>2, <3>3 DEF waiting, offered, joined, Successes
  <2>5. OfferedFor(c) = {}
    BY <1>2, <2>1, NotOffered DEF PacketsOwned
  <2>6. /\ WaitsFor(c) = {} /\ ~R!IsJoined(c)
        /\ \A jd \in ServerID : LineOf(jd) # c
    BY <1>2, <2>1, RequestFresh
  <2>7. R!Register(id, c)
    BY <1>5, <2>3, <2>4, <2>5, <2>6
       DEF R!Register, R!NoLine, registry, waiting, offered, LineOf, NoConn
  <2> QED
    BY <2>7 DEF R!Next
<1> QED
  BY <1>4, <1>5

\* A line is taken off, or its id was not registered.
LEMMA UnregisterImplements ==
  ASSUME RegistryInv, HandleUnregister, UNCHANGED <<serviceVars, client>>
  PROVE  Unnoticed \/ R!Next
<1> USE DEF RegistryInv, serviceVars
<1>1. PICK id \in ServerID : HandleUnregister!(id)
  BY DEF HandleUnregister
<1>2. requestFd \in FD /\ requestFd # NoFd
  BY <1>1, RequestReceived, NumberTypes
<1>3. fdTable' = CloseFds({serverMap[id], requestFd}) /\ UNCHANGED <<pendingConnections, child>>
  BY <1>1 DEF ClosedByUnregister
<1>4. serverMap'[id] = NoFd /\ \A jd \in ServerID \ {id} : serverMap'[jd] = serverMap[jd]
  BY <1>1 DEF Erased, TypeOK, ServerTypeOK
<1>5. \A jd \in ServerID \ {id} : Registered(jd) =>
        fdTable'[serverMap[jd]] = fdTable[serverMap[jd]]
  <2>1. \A jd \in ServerID \ {id} : Registered(jd) =>
          serverMap[jd] \in FD \ {serverMap[id], requestFd}
    BY NumbersDistinct DEF DescriptorsNotStale, RegistryNotStale, OpenAt
  <2> QED
    BY <1>3, <2>1 DEF CloseFds
<1>6. \A x \in pendingConnections : fdTable'[atoi(x)] = fdTable[atoi(x)]
  <2>1. \A x \in pendingConnections : atoi(x) \in FD \ {serverMap[id], requestFd}
    BY <1>2, NumbersDistinct, NumberTypes DEF DescriptorsNotStale, PendingNotStale, OpenAt,
       Registered
  <2> QED
    BY <1>3, <2>1 DEF CloseFds
<1>7. CASE ~Registered(id)
  <2>1. UNCHANGED serverMap
    BY <1>1, <1>7 DEF Erased, Registered, TypeOK, ServerTypeOK
  <2>2. KeepsNumbers
    BY <1>5, <1>6, <1>7 DEF KeepsNumbers
  <2> QED
    BY <1>3, <2>1, <2>2, SpdUnnoticed DEF SamePairs
<1>8. CASE Registered(id)
  <2>1. \A jd \in ServerID : LineOf(jd)' = IF jd = id THEN NoConn ELSE LineOf(jd)
    BY <1>4, <1>5 DEF LineOf, Registered
  <2>2. registry' = [registry EXCEPT ![id] = NoConn]
    BY <2>1 DEF registry
  <2>3. UNCHANGED <<waiting, offered, joined>>
    <3>1. \A c \in Conn : Pending(c)' = Pending(c)
      BY <1>3, <1>6, PendingSame
    <3>2. \A c \in Conn : WaitsFor(c)' = WaitsFor(c)
      BY <3>1 DEF WaitsFor
    <3>3. \A a \in Conn : OfferedFor(a)' = OfferedFor(a)
      BY DEF OfferedFor
    <3> QED
      BY <1>3, <3>2, <3>3 DEF waiting, offered, joined, Successes
  <2>4. LineOf(id) # NoConn
    BY <1>8, NumberTypes DEF LineOf, DescriptorsNotStale, RegistryNotStale, OpenAt
  <2>5. R!Unregister(id)
    BY <2>2, <2>3, <2>4 DEF R!Unregister, R!NoLine, NoConn, registry
  <2> QED
    BY <2>5 DEF R!Next
<1> QED
  BY <1>7, <1>8

\* A client that is passed on to a service waits for it.
LEMMA ConnectImplements ==
  ASSUME RegistryInv, ChildrenApart, LinesApart, HandleConnect,
         UNCHANGED <<serviceVars, client>>
  PROVE  R!Next
<1> USE DEF RegistryInv, serviceVars
<1>1. PICK id \in ServerID : HandleConnect!(id)
  BY DEF HandleConnect
<1>2. /\ requestFd \in FD /\ request \in Conn
      /\ 1 \in DOMAIN inq[request] /\ inq[request][1] = makeConnectRequest(id)
  BY <1>1, RequestReceived
<1>3. PICK k \in Client : wantedID[k] = id /\ client[k].connection = request
  BY <1>2 DEF PacketsOwned
<1>4. /\ UNCHANGED <<fdTable, serverMap, child>>
      /\ pendingConnections' = pendingConnections \cup {to_string(requestFd)}
      /\ Registered(id)
  BY <1>1 DEF hostVars
<1>5. PICK c \in Conn : c = request
  BY <1>2
<1>6. \A f \in FD : to_string(f) \in pendingConnections' <=>
                      to_string(f) \in pendingConnections \/ f = requestFd
  BY <1>4, ClientNames
<1>7. Pending(c)' /\ \A d \in Conn \ {c} : Pending(d)' = Pending(d)
  BY <1>2, <1>4, <1>5, <1>6 DEF Pending, request
<1>8. WaitsFor(c)' = {id}
  <2>1. \A j \in Client : client[j].connection = c <=> j = k
    BY <1>3, <1>5, NumberTypes DEF OwnersDistinct
  <2> QED
    BY <1>3, <1>7, <2>1 DEF WaitsFor
<1>9. \A d \in Conn \ {c} : WaitsFor(d)' = WaitsFor(d)
  BY <1>7 DEF WaitsFor
<1>10. waiting' = [waiting EXCEPT ![c] = {id}]
  BY <1>8, <1>9 DEF waiting
<1>11. UNCHANGED <<registry, offered, joined>>
  <2>1. \A jd \in ServerID : LineOf(jd)' = LineOf(jd)
    BY <1>4 DEF LineOf, Registered
  <2>2. \A a \in Conn : OfferedFor(a)' = OfferedFor(a)
    BY DEF OfferedFor
  <2> QED
    BY <1>4, <2>1, <2>2 DEF registry, offered, joined, Successes
<1>12. WaitsFor(c) = {} /\ ~R!IsJoined(c)
  BY <1>2, <1>5, RequestFresh
<1>13. OfferedFor(c) = {}
  BY <1>3, <1>5, NotOffered
<1>14. LineOf(id) # NoConn
  BY <1>4, NumberTypes DEF LineOf, DescriptorsNotStale, RegistryNotStale, OpenAt
<1>15. R!Ask(c, id)
  BY <1>10, <1>11, <1>12, <1>13, <1>14
     DEF R!Ask, R!NoLine, NoConn, registry, waiting, offered
<1> QED
  BY <1>15 DEF R!Next

\* A client whose service answered stops waiting, and is joined if the service
\* was reached and the child forked.
LEMMA ResolveImplements ==
  ASSUME RegistryInv, ChildrenApart, PairingInv, LinesApart,
         UNCHANGED <<serviceVars, client>>,
         NEW x \in ClientID, NEW success \in BOOLEAN,
         HandleAnswer!(x, success), ResolvePending(x, success)
  PROVE  R!Next
<1> USE DEF RegistryInv, serviceVars
<1> DEFINE p == IF success THEN makeConnectionCreatedRequest(x)
                           ELSE makeConnectionFailedRequest(x)
<1>1. /\ requestFd \in FD /\ request \in Conn
      /\ 1 \in DOMAIN inq[request] /\ inq[request][1] = p
      /\ spd = "up" /\ requestFd # NoFd
  BY RequestReceived DEF Receive, Handling
<1>2. p \in Answers(x)
  BY DEF Answers
<1> HIDE DEF p
<1>3. /\ UNCHANGED serverMap
      /\ fdTable' = CloseFds({atoi(x), requestFd})
      /\ pendingConnections' = pendingConnections \ {x}
      /\ x \in pendingConnections /\ x \in NodeID
      /\ child' = Forked(atoi(x), success) \/ UNCHANGED child
  BY DEF ResolvePending, NoLongerPending, NodeID
<1>4. PICK a \in Conn : a = request
  BY <1>1
<1>5. PICK s \in Service : a \in svc[s].children /\ Wanted(x, serviceID[s])
  <2>1. Carries(a, x)
    BY <1>1, <1>2, <1>4, RequestUnsettled DEF Carries, Answered, Has
  <2> QED
    BY <1>1, <1>3, <2>1 DEF PairingInv, BearerWanted
<1>6. PICK k \in Client : wantedID[k] = serviceID[s] /\ OpenAt(atoi(x), client[k].connection)
  BY <1>5 DEF Wanted
<1> DEFINE l == client[k].connection
<1>7. l \in Conn /\ atoi(x) \in FD /\ fdTable[atoi(x)] = l /\ atoi(x) # requestFd
  BY <1>1, <1>3, <1>6, NumbersDistinct DEF OpenAt
<1>8. x = to_string(atoi(x))
  BY ClientNames
<1>9. WaitsFor(l) = {serviceID[s]} /\ WaitsFor(l)' = {}
  <2>1. Pending(l)
    BY <1>3, <1>7, <1>8 DEF Pending
  <2>2. \A j \in Client : client[j].connection = l <=> j = k
    BY <1>7, NumberTypes DEF OwnersDistinct
  <2>3. \A f \in FD : fdTable'[f] # l
    BY <1>3, <1>7, NumberTypes DEF CloseFds, HostConsistent
  <2> QED
    BY <1>6, <2>1, <2>2, <2>3 DEF WaitsFor, Pending
<1>10. \A c \in Conn \ {l} : WaitsFor(c)' = WaitsFor(c)
  <2>1. \A y \in pendingConnections \ {x} : fdTable'[atoi(y)] = fdTable[atoi(y)]
    <3>1. \A y \in pendingConnections \ {x} : atoi(y) \in FD \ {atoi(x), requestFd}
      BY <1>1, <1>3, NumbersDistinct, ClientNames DEF TypeOK, ServerTypeOK
    <3> QED
      BY <1>3, <3>1 DEF CloseFds
  <2>2. \A c \in Conn \ {l} : Pending(c)' = Pending(c)
    BY <1>3, <1>7, <2>1, PendingSame
  <2> QED
    BY <2>2 DEF WaitsFor
<1>11. waiting' = [waiting EXCEPT ![l] = {}]
  BY <1>9, <1>10 DEF waiting
<1>12. UNCHANGED <<registry, offered>>
  <2>1. \A id \in ServerID : Registered(id) =>
          serverMap[id] \in FD /\ serverMap[id] \notin {atoi(x), requestFd}
    BY <1>3, NumbersDistinct DEF DescriptorsNotStale, RegistryNotStale, OpenAt
  <2>2. \A id \in ServerID : LineOf(id)' = LineOf(id)
    BY <1>3, <2>1 DEF LineOf, Registered, CloseFds
  <2>3. \A b \in Conn : OfferedFor(b)' = OfferedFor(b)
    BY DEF OfferedFor
  <2> QED
    BY <2>2, <2>3 DEF registry, offered
<1>13. WaitsFor(l) # {} /\ waiting[l] = WaitsFor(l)
  BY <1>7, <1>9 DEF waiting
<1>14. child[a].pc = "none"
  BY <1>1, <1>4 DEF ChildrenApart, Settled, request
<1>15. CASE UNCHANGED child \/ ~success
  <2>1. Successes' = Successes /\ \A b \in Successes : child'[b] = child[b]
    BY <1>1, <1>3, <1>4, <1>14, <1>15 DEF Successes, Forked, TypeOK, ServerTypeOK
  <2>2. joined' = joined
    BY <2>1 DEF joined
  <2>3. R!GiveUp(l)
    BY <1>11, <1>12, <1>13, <2>2 DEF R!GiveUp
  <2> QED
    BY <1>7, <2>3 DEF R!Next
<1>16. CASE child' = Forked(atoi(x), success) /\ success
  <2>1. /\ child'[a] = [pc |-> "notify", ok |-> TRUE, client |-> l]
        /\ \A b \in Conn \ {a} : child'[b] = child[b]
    BY <1>1, <1>4, <1>7, <1>16 DEF Forked, TypeOK, ServerTypeOK
  <2>2. Successes' = Successes \cup {a}
    BY <2>1 DEF Successes
  <2>3. a \notin Successes
    BY <1>14 DEF Successes
  <2>4. joined' = joined \cup {<<l, a>>}
    BY <2>1, <2>2, <2>3 DEF joined, Successes
  <2>5. OfferedFor(a) = {serviceID[s]} /\ offered[a] = OfferedFor(a)
    BY <1>5 DEF OfferedFor, offered, LinesApart, Opened
  <2>6. ~R!IsJoined(a)
    BY <1>1, <1>4, RequestFresh
  <2>7. ~R!IsJoined(l)
    <3>1. \A b \in Successes : b # l /\ child[b].client # l
      BY <1>7 DEF Successes, ChildrenApart, Settled
    <3> QED
      BY <3>1 DEF R!IsJoined, joined
  <2>8. R!Join(l, a)
    BY <1>9, <1>11, <1>12, <1>13, <2>4, <2>5, <2>6, <2>7 DEF R!Join
  <2> QED
    BY <1>7, <2>8 DEF R!Next
<1> QED
  BY <1>3, <1>15, <1>16

\* An spd that ends forgets everything but who is joined.
LEMMA DieImplements ==
  ASSUME Die, UNCHANGED <<serviceVars, client>>
  PROVE  R!Next
<1>1. \A id \in ServerID : LineOf(id)' = NoConn
  BY DEF Die, LineOf, Registered
<1>2. \A c \in Conn : WaitsFor(c)' = {}
  BY DEF Die, WaitsFor, Pending
<1>3. \A a \in Conn : OfferedFor(a)' = OfferedFor(a)
  BY DEF serviceVars, OfferedFor
<1>4. joined' = joined
  BY DEF Die, joined, Successes
<1>5. R!Forget
  BY <1>1, <1>2, <1>3, <1>4 DEF R!Forget, R!NoLine, NoConn, registry, waiting, offered
<1> QED
  BY <1>5 DEF R!Next

\* Everything else that spd and its children do is not noticed.
LEMMA RestUnnoticed ==
  ASSUME RegistryInv, UNCHANGED <<serviceVars, client>>,
         \/ Run \/ AcceptConnection \/ RecvError \/ HandleConnectUnknown
         \/ HandleUnexpected
         \/ \E x \in ClientID, success \in BOOLEAN :
              HandleAnswer!(x, success) /\ RefuseAnswer(x)
         \/ \E a \in Conn : ChildNotify(a) \/ ChildForward(a) \/ ChildRelayed(a)
                            \/ ChildKilled(a)
  PROVE  Unnoticed
<1> USE DEF RegistryInv, serviceVars
<1>1. \A id \in ServerID : Registered(id) =>
        /\ serverMap[id] \in FD /\ fdTable[serverMap[id]] # NoConn
        /\ serverMap[id] # requestFd
  BY NumbersDistinct, NumberTypes DEF DescriptorsNotStale, RegistryNotStale, OpenAt
<1>2. \A x \in pendingConnections :
        /\ atoi(x) \in FD /\ fdTable[atoi(x)] # NoConn
        /\ requestFd # NoFd => atoi(x) # requestFd
  BY NumbersDistinct, NumberTypes DEF DescriptorsNotStale, PendingNotStale, OpenAt
<1>3. CASE AcceptConnection
  <2>1. PICK f \in FD : /\ fdTable[f] = NoConn
                        /\ fdTable' = [fdTable EXCEPT ![f] = Head(backlog)]
    BY <1>3 DEF AcceptConnection
  <2>2. \A g \in FD : fdTable[g] # NoConn => fdTable'[g] = fdTable[g]
    BY <2>1 DEF TypeOK, TransportTypeOK
  <2>3. KeepsNumbers
    BY <1>1, <1>2, <2>2 DEF KeepsNumbers
  <2> QED
    BY <1>3, <2>3, SpdUnnoticed DEF AcceptConnection, SamePairs
<1>4. CASE Run \/ RecvError
  BY <1>4, SpdUnnoticed DEF Run, RecvError, hostVars, SamePairs, KeepsNumbers
<1>5. ASSUME UNCHANGED <<serverMap, pendingConnections, child>>,
             fdTable' = CloseFds({requestFd}), requestFd # NoFd
      PROVE  Unnoticed
  <2>1. KeepsNumbers
    BY <1>1, <1>2, <1>5 DEF KeepsNumbers, CloseFds
  <2> QED
    BY <1>5, <2>1, SpdUnnoticed DEF SamePairs
<1>6. CASE HandleConnectUnknown \/ HandleUnexpected
  BY <1>5, <1>6 DEF HandleConnectUnknown, HandleUnexpected, Receive, Handling
<1>7. ASSUME NEW x \in ClientID, NEW success \in BOOLEAN,
             HandleAnswer!(x, success), RefuseAnswer(x)
      PROVE  Unnoticed
  BY <1>5, <1>7 DEF RefuseAnswer, Receive, Handling
<1>8. ASSUME NEW a \in Conn, ChildNotify(a) \/ ChildForward(a) \/ ChildRelayed(a)
                             \/ ChildKilled(a)
      PROVE  Unnoticed
  <2>1. UNCHANGED <<fdTable, serverMap, pendingConnections>>
    BY <1>8 DEF ChildNotify, ChildForward, ChildRelayed, ChildKilled, ChildExit, hostVars,
       serverVars
  <2>2. SamePairs
    BY <1>8 DEF ChildNotify, ChildForward, ChildRelayed, ChildKilled, ChildExit,
       serverVars, SamePairs, TypeOK, ServerTypeOK
  <2> QED
    BY <2>1, <2>2, SpdUnnoticed DEF KeepsNumbers
<1> QED
  BY <1>3, <1>4, <1>6, <1>7, <1>8

\* A connection that a service proxy hands to a helper is offered for its id.
LEMMA ForkImplements ==
  ASSUME RegistryInv, PairingInv, LinesApart, NEW s \in Service, Fork(s),
         UNCHANGED <<serverVars, client>>
  PROVE  R!Next
<1> USE DEF RegistryInv, serverVars
<1>1. PICK a \in Conn : a = svc[s].newProxyConnection /\ a # NoConn
  <2>1. svc[s] \in SvcRecord
    BY SvcType DEF TypeOK
  <2> QED
    BY <2>1 DEF Fork, HandlesKnown, SvcReady, SvcRecord
<1>2. /\ svc'[s].children = svc[s].children \cup {a}
      /\ \A t \in Service \ {s} : svc'[t] = svc[t]
  BY <1>1 DEF Fork, TypeOK, ServiceTypeOK
<1>3. UNCHANGED <<fdTable, serverMap, pendingConnections, child>>
  BY DEF Fork, hostVars
<1>4. a \in Opened(s) /\ \A t \in Service : a \notin svc[t].children
  BY <1>1 DEF LinesApart, Opened
<1>5. OfferedFor(a) = {} /\ OfferedFor(a)' = {serviceID[s]}
  BY <1>2, <1>4 DEF OfferedFor
<1>6. \A b \in Conn \ {a} : OfferedFor(b)' = OfferedFor(b)
  BY <1>2 DEF OfferedFor
<1>7. offered' = [offered EXCEPT ![a] = {serviceID[s]}]
  BY <1>5, <1>6 DEF offered
<1>8. UNCHANGED <<registry, waiting, joined>>
  <2>1. \A id \in ServerID : LineOf(id)' = LineOf(id)
    BY <1>3 DEF LineOf, Registered
  <2>2. \A c \in Conn : Pending(c)' = Pending(c)
    BY <1>3 DEF Pending
  <2>3. \A c \in Conn : WaitsFor(c)' = WaitsFor(c)
    BY <2>2 DEF WaitsFor
  <2> QED
    BY <1>3, <2>1, <2>3 DEF registry, waiting, joined, Successes
<1>9. WaitsFor(a) = {}
  BY <1>4 DEF LinesApart, WaitsFor
<1>10. ~R!IsJoined(a)
  <2>1. \A b \in Successes : b # a /\ child[b].client # a
    BY <1>4 DEF Successes, LinesApart, PairingInv, ChildrenOfClients
  <2> QED
    BY <2>1 DEF R!IsJoined, joined
<1>11. R!Offer(a, serviceID[s])
  BY <1>5, <1>7, <1>8, <1>9, <1>10 DEF R!Offer, waiting, offered
<1> QED
  BY <1>11, ProcessAssumption DEF R!Next

-----------------------------------------------------------------------------
(* The theorem *)

\* Every step of spd and its children maps to one of the rendezvous.
LEMMA ServerImplements ==
  ASSUME RegistryInv, ChildrenApart, PairingInv, LinesApart, ServerStep,
         UNCHANGED <<serviceVars, client>>
  PROVE  Unnoticed \/ R!Next
<1>1. CASE HandleAnswer
  <2>1. PICK x \in ClientID, success \in BOOLEAN : HandleAnswer!(x, success)
    BY <1>1 DEF HandleAnswer
  <2>2. CASE ResolvePending(x, success)
    BY <2>1, <2>2, ResolveImplements
  <2>3. CASE RefuseAnswer(x)
    BY <2>1, <2>3, RestUnnoticed
  <2> QED
    BY <2>1, <2>2, <2>3
<1>2. CASE HandleRegister \/ HandleUnregister \/ HandleConnect
  BY <1>2, RegisterImplements, UnregisterImplements, ConnectImplements
<1>3. CASE ParseThrows \/ HandleConnectKilled
  BY <1>3, DieImplements DEF ParseThrows, HandleConnectKilled
<1>4. CASE \/ Run \/ AcceptConnection \/ RecvError \/ HandleConnectUnknown
           \/ HandleUnexpected
           \/ \E a \in Conn : ChildNotify(a) \/ ChildForward(a) \/ ChildRelayed(a)
                              \/ ChildKilled(a)
  BY <1>4, RestUnnoticed
<1> QED
  BY <1>1, <1>2, <1>3, <1>4 DEF ServerStep

\* So does every step of the service proxies.
LEMMA ServiceImplements ==
  ASSUME RegistryInv, PairingInv, LinesApart, ServiceStep, UNCHANGED <<serverVars, client>>
  PROVE  Unnoticed \/ R!Next
<1>0. TypeOK
  BY DEF RegistryInv
<1>1. PICK s \in Service : ServiceStep!(s)
  BY DEF ServiceStep
<1>2. svc[s].children \in SUBSET Conn
  BY <1>0, SvcType DEF TypeOK, SvcRecord
<1>3. CASE Fork(s)
  BY <1>3, ForkImplements
<1>4. CASE Connect(s)
  <2>1. PICK c \in Conn : Connect(s)!2!(c)
    BY <1>4 DEF Connect
  <2>2. \A t \in Service : svc'[t].children = svc[t].children
    BY <1>0, <2>1 DEF TypeOK, ServiceTypeOK
  <2> QED
    BY <1>4, <2>2, ServicePeer, PeerUnnoticed
<1>5. CASE DialProxy(s)
  <2>1. PICK c \in Conn : DialProxy(s)!2!(c)
    BY <1>5 DEF DialProxy
  <2>2. \A t \in Service : svc'[t].children = svc[t].children
    BY <1>0, <2>1 DEF TypeOK, ServiceTypeOK
  <2> QED
    BY <1>5, <2>2, ServicePeer, PeerUnnoticed
<1>6. CASE \/ ConnectRefused(s) \/ SendRegister(s) \/ ReadRegisterResponse(s)
           \/ ReadConnectRequest(s) \/ ReadThrows(s) \/ DialProxyFails(s) \/ ForkFails(s)
           \/ Interrupt(s) \/ InterruptRefused(s) \/ SendUnregister(s) \/ Crash(s)
  <2>1. \A t \in Service : svc'[t].children = svc[t].children
    BY <1>0, <1>6, ServiceLines DEF SameLines
  <2> QED
    BY <1>6, <2>1, ServicePeer, PeerUnnoticed
<1>7. ASSUME NEW a \in svc[s].children,
             \/ HelperConnected(s, a) \/ HelperFailed(s, a) \/ HelperPayload(s, a)
             \/ HelperDone(s, a) \/ HelperInterrupt(s, a) \/ HelperInterruptRefused(s, a)
             \/ HelperUnregister(s, a) \/ HelperCrash(s, a)
      PROVE  Unnoticed
  <2>1. UNCHANGED svc
    BY <1>7, HelperOut
  <2> QED
    BY <1>2, <1>7, <2>1, HelperPeer, PeerUnnoticed
<1> QED
  BY <1>1, <1>3, <1>4, <1>5, <1>6, <1>7

\* Every step of the system maps to a step of the rendezvous, or to none.
LEMMA ImplementsStep ==
  RegistryInv /\ ChildrenApart /\ PairingInv /\ LinesApart /\ [Next]_vars
    => [R!Next]_(R!rendezvousVars)
<1> SUFFICES ASSUME RegistryInv, ChildrenApart, PairingInv, LinesApart, [Next]_vars
             PROVE  Unnoticed \/ R!Next
  BY DEF Unnoticed, R!rendezvousVars
<1>1. CASE ServerStep /\ UNCHANGED <<serviceVars, client>>
  BY <1>1, ServerImplements
<1>2. CASE ServiceStep /\ UNCHANGED <<serverVars, client>>
  BY <1>2, ServiceImplements
<1>3. CASE ClientStep /\ UNCHANGED <<serverVars, serviceVars>>
  <2>1. PICK k \in Client : ClientStep!(k)
    BY <1>3 DEF ClientStep
  <2> QED
    BY <1>3, <2>1, ClientPeer, PeerUnnoticed DEF serviceVars
<1>4. CASE \E c \in Conn : ResetConnection(c) \/ StrayRequest(c)
  BY <1>4, EventPeer, PeerUnnoticed DEF ResetConnection, StrayRequest, serviceVars
<1>5. CASE UNCHANGED vars
  <2>1. UNCHANGED <<fdTable, serverMap, pendingConnections, child, svc, client>>
    BY <1>5 DEF vars, transportVars, hostVars, serverVars, serviceVars
  <2> QED
    BY <2>1, SpdUnnoticed DEF SamePairs, KeepsNumbers
<1> QED
  BY <1>1, <1>2, <1>3, <1>4, <1>5 DEF Next

\* The first state maps to the first state.
LEMMA ImplementsInit == Init => R!Init
<1> SUFFICES ASSUME Init PROVE R!Init
  OBVIOUS
<1>1. \A id \in ServerID : LineOf(id) = NoConn
  BY DEF Init, ServerInit, LineOf, Registered
<1>2. \A c \in Conn : WaitsFor(c) = {} /\ OfferedFor(c) = {}
  BY DEF Init, ServerInit, ServiceInit, WaitsFor, Pending, OfferedFor
<1>3. joined = {}
  BY DEF Init, ServerInit, joined, Successes
<1> QED
  BY <1>1, <1>2, <1>3 DEF R!Init, R!NoLine, NoConn, registry, waiting, offered

\* Whatever crashes and whoever connects, and however often spd is started again
\* once the service proxies have ended: registerServer, updateConnectionStatus
\* and the programs that use them keep the promise of Rendezvous.  Ids are
\* exclusive, and a client is joined at most once, to a connection opened by a
\* service proxy with the id it asked for.
THEOREM RendezvousImplemented ==
  ASSUME NoHaste
  PROVE  Spec => Implements
<1>1. RegistryInv /\ ChildrenApart /\ NothingLeft /\ PairingInv /\ [Next]_vars => PairingInv'
  BY PairingStep
<1>2. RegistryInv /\ ChildrenApart /\ PairingInv /\ LinesApart /\ [Next]_vars
        => [R!Next]_(R!rendezvousVars)
  BY ImplementsStep
<1> QED
  BY <1>1, <1>2, HostInvariant, PairingInit, LinesInit, LinesStep, ImplementsInit, PTL
     DEF Spec, Implements, R!Spec
=============================================================================
