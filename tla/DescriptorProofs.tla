-------------------------- MODULE DescriptorProofs --------------------------
(***************************************************************************)
(* Proofs about what spd keeps for the proxies: it forgets no descriptor   *)
(* but that of a service proxy it refuses and one whose recv fails, who    *)
(* serves is registered, and a registration is given up only for the proxy *)
(* that made it.                                                           *)
(***************************************************************************)
EXTENDS PairedProofs

-----------------------------------------------------------------------------
(* What the peers do *)

\* No connection has new packets of P, for its peer or for spd.
NoneTold(P) == \A c \in Conn : Has(outq'[c], P) => Has(outq[c], P)
NoneSaid(P) == \A c \in Conn : Has(inq'[c], P) => Has(inq[c], P)
SaysLess(P) == \A c \in Conn : Fewer(inq'[c], inq[c], P)

\* What a peer may do to what it reads.
PeerReads ==
  \/ UNCHANGED <<outq, rst>>
  \/ UNCHANGED rst /\ \E c \in Conn : outq[c] # <<>> /\ PeerReceive(c)
  \/ \E cs : PeerClose(cs)

\* It gets nothing new.
LEMMA ReadsNoneTold ==
  ASSUME TypeOK, PeerReads, NEW P
  PROVE  NoneTold(P)
<1>1. ASSUME NEW c \in Conn, outq[c] # <<>>, PeerReceive(c)
      PROVE  NoneTold(P)
  <2>1. outq[c] \in Seq(Packet) /\ outq'[c] = Tail(outq[c])
    BY <1>1 DEF TypeOK, TransportTypeOK, PeerReceive
  <2>2. Fewer(Tail(outq[c]), outq[c], P)
    BY <1>1, <2>1, FewerTail
  <2>3. \A d \in Conn \ {c} : outq'[d] = outq[d]
    BY <1>1 DEF TypeOK, TransportTypeOK, PeerReceive
  <2> QED
    BY <2>1, <2>2, <2>3 DEF NoneTold, Fewer
<1>2. ASSUME NEW cs, PeerClose(cs)
      PROVE  NoneTold(P)
  <2>1. \A c \in Conn : outq'[c] = <<>> \/ outq'[c] = outq[c]
    BY <1>2 DEF PeerClose
  <2> QED
    BY <2>1, FewerSame DEF NoneTold
<1>3. UNCHANGED outq => NoneTold(P)
  BY DEF NoneTold
<1> QED
  BY <1>1, <1>2, <1>3 DEF PeerReads

\* Sending a packet that is not of P.
LEMMA OtherSaid ==
  ASSUME TypeOK, NEW c, NEW p \in Packet, PeerSend(c, p), NEW P, p \notin P
  PROVE  NoneSaid(P) /\ SaysLess(P)
<1>1. \A d \in Conn \ {c} : inq'[d] = inq[d]
  BY DEF TypeOK, TransportTypeOK, PeerSend
<1>2. c \in Conn => /\ inq[c] \in Seq(Packet)
                    /\ inq'[c] = inq[c] \/ inq'[c] = Append(inq[c], p)
  BY DEF TypeOK, TransportTypeOK, PeerSend
<1>3. c \in Conn => Fewer(Append(inq[c], p), inq[c], P)
  BY <1>2, FewerAppend
<1>4. SaysLess(P)
  BY <1>1, <1>2, <1>3, FewerSame DEF SaysLess
<1> QED
  BY <1>4 DEF SaysLess, NoneSaid, Fewer

\* What spd receives is no longer queued, and nothing new is.
LEMMA ReceivedNoneSaid ==
  ASSUME TypeOK, OneReceived, NEW P
  PROVE  NoneSaid(P) /\ SaysLess(P)
<1>1. UNCHANGED inq => SaysLess(P)
  BY FewerSame DEF SaysLess
<1>2. ASSUME NEW c, inq[c] # <<>>, Consume(c)
      PROVE  SaysLess(P)
  <2>1. \A d \in Conn \ {c} : inq'[d] = inq[d]
    BY <1>2 DEF TypeOK, TransportTypeOK, Consume
  <2>2. c \in Conn => inq[c] \in Seq(Packet) /\ inq'[c] = Tail(inq[c])
    BY <1>2 DEF TypeOK, TransportTypeOK, Consume
  <2>3. c \in Conn => Fewer(Tail(inq[c]), inq[c], P)
    BY <1>2, <2>2, FewerTail
  <2> QED
    BY <2>1, <2>2, <2>3, FewerSame DEF SaysLess
<1> QED
  BY <1>1, <1>2 DEF OneReceived, SaysLess, NoneSaid, Fewer

\* What is no request to register or to unregister, and what is no success.
LEMMA OtherPackets ==
  /\ \A x : /\ makeUnregisterRequest(x) \notin Registers
            /\ makeRegisterRequest(x) \notin Unregisters
            /\ makeConnectRequest(x) \notin Registers \cup Unregisters
            /\ makeConnectionCreatedRequest(x) \notin Registers \cup Unregisters
            /\ makeConnectionFailedRequest(x) \notin Registers \cup Unregisters
            /\ makeResponse(x) \notin Registers \cup Unregisters
            /\ makeProxyConnectRequest(x) \notin Okay
  /\ Payload \notin Registers \cup Unregisters
  /\ makeResponse(FALSE) \notin Okay
BY DEF Registers, Unregisters, Okay, makeRegisterRequest, makeUnregisterRequest,
   makeConnectRequest, makeProxyConnectRequest, makeConnectionCreatedRequest,
   makeConnectionFailedRequest, makeResponse, makeRequest, Payload, REGISTER, UNREGISTER,
   CONNECT, CONNECTION_CREATED, CONNECTION_FAILED, OK, ERROR

\* What a helper does to what it reads.
LEMMA HelperReads ==
  ASSUME NEW s, NEW a,
         \/ HelperConnected(s, a) \/ HelperFailed(s, a) \/ HelperPayload(s, a)
         \/ HelperDone(s, a) \/ HelperInterrupt(s, a) \/ HelperInterruptRefused(s, a)
         \/ HelperUnregister(s, a) \/ HelperCrash(s, a)
  PROVE  PeerReads /\ UNCHANGED svc
BY DEF HelperConnected, HelperFailed, HelperPayload, HelperDone, HelperInterrupt,
   HelperInterruptRefused, HelperUnregister, HelperCrash, HelperExit, PeerReads

\* What a client proxy does to what it reads.
LEMMA ClientReads ==
  ASSUME TypeOK, NEW k \in Client,
         \/ ClientConnect(k) \/ ClientConnectRefused(k) \/ SendConnect(k)
         \/ ReadConnectResponse(k) \/ ClientReadThrows(k) \/ ClientRecvFails(k)
         \/ ClientListenFails(k) \/ ClientAccept(k) \/ ClientDone(k) \/ ClientCrash(k)
  PROVE  PeerReads
<1>1. CASE ReadConnectResponse(k)
  <2>1. client[k].connection \in Conn \/ (PeerReceive(client[k].connection) => UNCHANGED outq)
    BY DEF PeerReceive, TypeOK, TransportTypeOK
  <2> QED
    BY <1>1, <2>1 DEF ReadConnectResponse, ClientExit, PeerReads
<1> QED
  BY <1>1 DEF ClientConnect, ClientConnectRefused, SendConnect, ClientReadThrows,
     ClientRecvFails, ClientListenFails, ClientAccept, ClientDone, ClientCrash,
     ClientExit, PeerReads, netVars

\* spd answers nobody earlier than before.
LEMMA EarlyFewer ==
  ASSUME UNCHANGED peer, backlog' = backlog \/ backlog' = <<>>,
         requestFd' = NoFd \/ UNCHANGED <<requestFd, fdTable>>
  PROVE  \A c \in Conn : Early(c)' => Early(c)
BY DEF Early, Used, request

-----------------------------------------------------------------------------
(* Who has dialled has not asked yet *)

\* Without new requests to register, and new proxies to send them, it stays so.
LEMMA UnaskedKept ==
  ASSUME RegistryInv, UnaskedInv, NoneSaid(Registers),
         \A t \in Service : svc'[t].pc = "dialled" =>
           svc[t].pc = "dialled" /\ svc'[t].connection = svc[t].connection
  PROVE  UnaskedInv'
<1>1. \A t \in Service : svc[t].pc = "dialled" => svc[t].connection \in Conn
  BY SvcType DEF RegistryInv, TypeOK, SvcRecord, HandlesKnown, SvcReady
<1> QED
  BY <1>1 DEF UnaskedInv, NoneSaid

\* The steps of a service proxy: it dials a connection nothing was said on, and
\* registers once.
LEMMA ServiceUnasked ==
  ASSUME RegistryInv, UnaskedInv, NEW s \in Service,
         \/ Connect(s) \/ ConnectRefused(s) \/ SendRegister(s)
         \/ ReadRegisterResponse(s) \/ ReadConnectRequest(s) \/ ReadThrows(s)
         \/ DialProxy(s) \/ DialProxyFails(s) \/ Fork(s) \/ ForkFails(s)
         \/ Interrupt(s) \/ InterruptRefused(s) \/ SendUnregister(s) \/ Crash(s)
  PROVE  UnaskedInv'
<1> USE DEF RegistryInv
<1>1. \A t \in Service \ {s} : svc'[t] = svc[t]
  BY ExitIsGoto DEF Connect, ConnectRefused, SendRegister, ReadRegisterResponse,
     ReadConnectRequest, ReadThrows, DialProxy, DialProxyFails, Fork, ForkFails, Interrupt,
     InterruptRefused, SendUnregister, Crash, Goto, TypeOK, ServiceTypeOK
<1>2. CASE Connect(s)
  <2>1. PICK c \in Conn : Connect(s)!2!(c)
    BY <1>2 DEF Connect
  <2>2. svc'[s].connection = c /\ UNCHANGED inq
    BY <1>2, <2>1 DEF Connect, TypeOK, ServiceTypeOK
  <2>3. \A t \in Service : svc[t].connection # c
    BY <2>1, DialUses, NumberTypes DEF TypeOK, OwnersDistinct
  <2>4. ~Has(inq[c], Registers)
    BY <2>3 DEF Has, Registers, PacketsOwned
  <2> QED
    BY <1>1, <2>2, <2>4 DEF UnaskedInv
<1>3. CASE SendRegister(s)
  <2> DEFINE c == svc[s].connection
  <2>1. svc[s].pc = "dialled" /\ svc'[s].pc = "awaiting"
    BY <1>3 DEF SendRegister, Goto, TypeOK, ServiceTypeOK
  <2>2. \A d \in Conn \ {c} : inq'[d] = inq[d]
    BY <1>3 DEF SendRegister, PeerSend, TypeOK, TransportTypeOK
  <2>3. \A t \in Service \ {s} : svc[t].pc = "dialled" => svc[t].connection \in Conn \ {c}
    BY SvcType DEF TypeOK, SvcRecord, HandlesKnown, SvcReady, OwnersDistinct
  <2> QED
    BY <1>1, <2>1, <2>2, <2>3 DEF UnaskedInv
<1>4. CASE ~Connect(s) /\ ~SendRegister(s)
  <2>1. svc'[s].pc # "dialled"
    BY <1>4, ExitIsGoto DEF ConnectRefused, ReadRegisterResponse, ReadConnectRequest,
       ReadThrows, DialProxy, DialProxyFails, Fork, ForkFails, Interrupt, InterruptRefused,
       SendUnregister, Crash, Goto, TypeOK, ServiceTypeOK
  <2>2. makeUnregisterRequest(serviceID[s]) \in Packet
    BY ProcessAssumption, PacketTypes DEF NodeID
  <2>3. CASE SendUnregister(s)
    BY <1>1, <2>1, <2>2, <2>3, OtherSaid, OtherPackets, UnaskedKept DEF SendUnregister
  <2>4. CASE ~SendUnregister(s)
    <3>1. UNCHANGED inq
      BY <1>4, <2>4 DEF ConnectRefused, ReadRegisterResponse, ReadConnectRequest,
         ReadThrows, DialProxy, DialProxyFails, Fork, ForkFails, Interrupt,
         InterruptRefused, Crash, netVars
    <3> QED
      BY <1>1, <2>1, <3>1, UnaskedKept DEF NoneSaid
  <2> QED
    BY <2>3, <2>4
<1> QED
  BY <1>2, <1>3, <1>4

\* Helpers and clients say other things.
LEMMA OthersUnasked ==
  ASSUME RegistryInv, UnaskedInv, UNCHANGED svc,
         \/ UNCHANGED inq
         \/ \E c, p : PeerSend(c, p) /\ p \in Packet /\ p \notin Registers
         \/ OneReceived
  PROVE  UnaskedInv'
<1>1. NoneSaid(Registers)
  BY OtherSaid, ReceivedNoneSaid DEF RegistryInv, NoneSaid
<1> QED
  BY <1>1, UnaskedKept

LEMMA HelperUnasked ==
  ASSUME RegistryInv, UnaskedInv, NEW s \in Service, NEW a \in Conn,
         \/ HelperConnected(s, a) \/ HelperFailed(s, a) \/ HelperPayload(s, a)
         \/ HelperDone(s, a) \/ HelperInterrupt(s, a) \/ HelperInterruptRefused(s, a)
         \/ HelperUnregister(s, a) \/ HelperCrash(s, a)
  PROVE  UnaskedInv'
<1>1. UNCHANGED svc
  BY HelperReads
<1>2. serviceID[s] \in NodeID /\ HelperReady(helper[a])
  BY ProcessAssumption DEF NodeID, RegistryInv, HandlesKnown
<1>3. CASE HelperConnected(s, a) \/ HelperFailed(s, a)
  BY <1>1, <1>2, <1>3, OthersUnasked, OtherPackets, PacketTypes DEF HelperConnected,
     HelperFailed, HelperReady
<1>4. CASE HelperPayload(s, a) \/ HelperUnregister(s, a)
  BY <1>1, <1>2, <1>4, OthersUnasked, OtherPackets, PacketTypes DEF HelperPayload,
     HelperUnregister
<1> QED
  BY <1>1, <1>3, <1>4, OthersUnasked DEF HelperDone, HelperInterrupt,
     HelperInterruptRefused, HelperCrash

LEMMA ClientUnasked ==
  ASSUME RegistryInv, UnaskedInv, UNCHANGED svc, NEW k \in Client,
         \/ ClientConnect(k) \/ ClientConnectRefused(k) \/ SendConnect(k)
         \/ ReadConnectResponse(k) \/ ClientReadThrows(k) \/ ClientRecvFails(k)
         \/ ClientListenFails(k) \/ ClientAccept(k) \/ ClientDone(k) \/ ClientCrash(k)
  PROVE  UnaskedInv'
<1>1. makeConnectRequest(wantedID[k]) \in Packet
  BY ProcessAssumption, PacketTypes DEF NodeID
<1>2. CASE SendConnect(k)
  BY <1>1, <1>2, OthersUnasked, OtherPackets DEF SendConnect
<1> QED
  BY <1>2, OthersUnasked DEF ClientConnect, ClientConnectRefused, ReadConnectResponse,
     ClientReadThrows, ClientRecvFails, ClientListenFails, ClientAccept, ClientDone,
     ClientCrash, netVars

\* What is said by another program is no request to register.
LEMMA EventUnasked ==
  ASSUME RegistryInv, UnaskedInv, NEW c \in Conn, ResetConnection(c) \/ StrayRequest(c)
  PROVE  UnaskedInv'
<1> USE DEF RegistryInv
<1>1. UNCHANGED svc
  BY DEF ResetConnection, StrayRequest, serviceVars
<1>2. CASE ResetConnection(c)
  BY <1>1, <1>2, OthersUnasked DEF ResetConnection
<1>3. CASE StrayRequest(c)
  <2>1. \A d \in Conn \ {c} : inq'[d] = inq[d]
    BY <1>3 DEF StrayRequest, TypeOK, TransportTypeOK
  <2>2. inq'[c] = <<makeResponse(TRUE)>>
    BY <1>3 DEF StrayRequest, TypeOK, TransportTypeOK
  <2>3. \A i \in DOMAIN <<makeResponse(TRUE)>> : <<makeResponse(TRUE)>>[i] = makeResponse(TRUE)
    BY OnePacket
  <2>4. ~Has(inq'[c], Registers)
    BY <2>2, <2>3, OtherPackets DEF Has
  <2>5. NoneSaid(Registers)
    BY <2>1, <2>4 DEF NoneSaid
  <2> QED
    BY <1>1, <2>5, UnaskedKept
<1> QED
  BY <1>2, <1>3

\* UnaskedInv is inductive, given the types of the state.
LEMMA UnaskedStep == RegistryInv /\ UnaskedInv /\ [Next]_vars => UnaskedInv'
<1> SUFFICES ASSUME RegistryInv, UnaskedInv, [Next]_vars PROVE UnaskedInv'
  OBVIOUS
<1>1. CASE ServerStep /\ UNCHANGED <<serviceVars, client>>
  <2>1. OneReceived
    <3>1. CASE \E req : Receive(req)
      BY <3>1, RequestReceived
    <3>2. CASE UNCHANGED inq
      BY <3>2 DEF OneReceived
    <3>3. CASE \E a \in Conn : ChildForward(a)
      BY <3>3 DEF ChildForward, OneReceived
    <3> QED
      BY <1>1, <3>1, <3>2, <3>3 DEF ServerStep, Run, AcceptConnection, RecvError, ParseThrows,
         HandleRegister, HandleUnregister, HandleConnect, HandleConnectUnknown,
         HandleConnectKilled, HandleAnswer, HandleUnexpected, Die, ChildNotify, ChildRelayed,
         ChildKilled, ChildExit, netVars
  <2> QED
    BY <1>1, <2>1, OthersUnasked DEF serviceVars
<1>2. CASE ServiceStep /\ UNCHANGED <<serverVars, client>>
  <2>1. PICK s \in Service : ServiceStep!(s)
    BY <1>2 DEF ServiceStep
  <2>2. svc[s].children \in SUBSET Conn
    BY SvcType DEF RegistryInv, TypeOK, SvcRecord
  <2> QED
    BY <2>1, <2>2, ServiceUnasked, HelperUnasked
<1>3. CASE ClientStep /\ UNCHANGED <<serverVars, serviceVars>>
  BY <1>3, ClientUnasked DEF ClientStep, serviceVars
<1>4. CASE \E c \in Conn : ResetConnection(c) \/ StrayRequest(c)
  BY <1>4, EventUnasked
<1>5. CASE UNCHANGED vars
  BY <1>5, OthersUnasked DEF vars, transportVars, netVars, serviceVars
<1> QED
  BY <1>1, <1>2, <1>3, <1>4, <1>5 DEF Next

-----------------------------------------------------------------------------
(* What spd forgets *)

\* Every descriptor that is open, registered and pending nowhere was so before.
ForgetsNone == \A f \in FD : Forgotten(f)' => Forgotten(f)

\* A step that keeps spd's tables.
LEMMA SameTables ==
  UNCHANGED <<fdTable, requestFd, serverMap, pendingConnections>> => ForgetsNone
BY DEF ForgetsNone, Forgotten, Known

\* The peers', and other programs', steps are such steps.
LEMMA PeerForgetsNone == PeerStepOK => ForgetsNone
BY SameTables DEF PeerStepOK, hostVars, serverVars

\* A process that ends forgets everything, and has nothing open.
LEMMA DeadForgetsNone == ASSUME Die PROVE ForgetsNone
BY DEF Die, ProcessExit, ForgetsNone, Forgotten

\* What is accepted is handled next.
LEMMA AcceptForgetsNone ==
  ASSUME RegistryInv, AcceptConnection
  PROVE  ForgetsNone
<1> USE DEF RegistryInv
<1>1. PICK f \in FD : /\ fdTable[f] = NoConn
                      /\ fdTable' = [fdTable EXCEPT ![f] = Head(backlog)]
                      /\ requestFd' = f
  BY DEF AcceptConnection
<1>2. \A g \in FD \ {f} : fdTable'[g] = fdTable[g]
  BY <1>1 DEF TypeOK, TransportTypeOK
<1>3. \A g \in FD : Known(g) => Known(g)'
  BY NumberTypes DEF AcceptConnection, Known
<1>4. Known(f)'
  BY <1>1 DEF Known
<1> QED
  BY <1>2, <1>3, <1>4 DEF ForgetsNone, Forgotten

\* A service proxy that is registered is known by its registration.
LEMMA RegisterForgetsRefused ==
  ASSUME RegistryInv, HandleRegister, ~RefusesRegister
  PROVE  ForgetsNone
<1> USE DEF RegistryInv
<1>1. PICK id \in ServerID : HandleRegister!(id)
  BY DEF HandleRegister
<1>2. requestFd \in FD /\ inq[request] # <<>> /\ Head(inq[request]) = makeRegisterRequest(id)
  BY <1>1, RequestReceived DEF Receive
<1>3. serverMap' = [serverMap EXCEPT ![id] = requestFd] /\ ~Registered(id)
  BY <1>1, <1>2 DEF registerServer, RefusesRegister
<1>4. ASSUME NEW f \in FD, Known(f)
      PROVE  Known(f)'
  BY <1>1, <1>3, <1>4, NumberTypes DEF Known, Registered, TypeOK, ServerTypeOK
<1> QED
  BY <1>1, <1>4 DEF ForgetsNone, Forgotten, hostVars

\* A client that waits is pending, and what answers and farewells end is closed.
LEMMA HandlersForgetNone ==
  ASSUME RegistryInv,
         \/ HandleConnect \/ HandleUnregister \/ HandleConnectUnknown
         \/ HandleAnswer \/ HandleUnexpected
  PROVE  ForgetsNone
<1> USE DEF RegistryInv
<1> SUFFICES ASSUME NEW f \in FD, fdTable'[f] # NoConn
             PROVE  fdTable'[f] = fdTable[f] /\ (Known(f) => Known(f)')
  BY DEF ForgetsNone, Forgotten
<1>1. CASE HandleConnect
  BY <1>1 DEF HandleConnect, Known, hostVars
<1>2. CASE HandleUnregister
  <2>1. PICK id \in ServerID : HandleUnregister!(id)
    BY <1>2 DEF HandleUnregister
  <2>2. f \notin ClosedByUnregister(id) /\ fdTable'[f] = fdTable[f]
    BY <2>1 DEF CloseFds
  <2>3. \A jd \in ServerID : serverMap[jd] = f => serverMap'[jd] = f
    BY <2>1, <2>2 DEF ClosedByUnregister, Erased, TypeOK, ServerTypeOK
  <2> QED
    BY <2>1, <2>2, <2>3 DEF Known, ClosedByUnregister
<1>3. CASE HandleConnectUnknown \/ HandleUnexpected
  <2>1. UNCHANGED <<serverMap, pendingConnections>> /\ fdTable' = CloseFds({requestFd})
    BY <1>3 DEF HandleConnectUnknown, HandleUnexpected
  <2> QED
    BY <2>1 DEF Known, CloseFds
<1>4. CASE HandleAnswer
  <2>1. PICK x \in ClientID, success \in BOOLEAN : HandleAnswer!(x, success)
    BY <1>4 DEF HandleAnswer
  <2>2. CASE RefuseAnswer(x)
    BY <2>1, <2>2 DEF RefuseAnswer, Known, CloseFds
  <2>3. CASE ResolvePending(x, success)
    <3>1. f \notin {atoi(x), requestFd} /\ fdTable'[f] = fdTable[f]
      BY <2>3 DEF ResolvePending, CloseFds
    <3>2. to_string(f) # x
      BY <3>1, ClientNames
    <3> QED
      BY <2>1, <2>3, <3>1, <3>2 DEF ResolvePending, NoLongerPending, Known
  <2> QED
    BY <2>1, <2>2, <2>3
<1> QED
  BY <1>1, <1>2, <1>3, <1>4

\* spd forgets a connection in these steps: it refuses to register, or recv fails.
LEMMA ServerForgets ==
  ASSUME RegistryInv, ServerStep, NEW f \in FD, Forgotten(f)', ~Forgotten(f)
  PROVE  f = requestFd /\ (RefusesRegister \/ RecvFails)
<1>1. CASE Run \/ \E a \in Conn : ChildNotify(a) \/ ChildForward(a) \/ ChildRelayed(a)
                                 \/ ChildKilled(a)
  <2>1. UNCHANGED <<fdTable, requestFd, serverMap, pendingConnections>>
    BY <1>1 DEF Run, ChildNotify, ChildForward, ChildRelayed, ChildKilled, ChildExit,
       hostVars, serverVars
  <2> QED
    BY <2>1, SameTables DEF ForgetsNone
<1>2. CASE AcceptConnection
  BY <1>2, AcceptForgetsNone DEF ForgetsNone
<1>3. CASE ParseThrows \/ HandleConnectKilled
  BY <1>3, DeadForgetsNone DEF ParseThrows, HandleConnectKilled, ForgetsNone
<1>4. CASE RecvError
  <2>1. RecvFails /\ requestFd' = NoFd /\ UNCHANGED <<fdTable, serverMap, pendingConnections>>
    BY <1>4 DEF RecvError, RecvFails, hostVars
  <2> QED
    BY <2>1 DEF Forgotten, Known
<1>5. CASE HandleRegister
  <2>1. RefusesRegister
    BY <1>5, RegisterForgetsRefused DEF ForgetsNone
  <2>2. requestFd' = NoFd /\ UNCHANGED <<fdTable, pendingConnections>>
    BY <1>5 DEF HandleRegister, hostVars
  <2>3. \A id \in ServerID : serverMap[id] = f => serverMap'[id] = f
    BY <1>5, NumberTypes DEF HandleRegister, registerServer, Registered, RegistryInv, TypeOK,
       ServerTypeOK
  <2> QED
    BY <2>1, <2>2, <2>3 DEF Forgotten, Known
<1>6. CASE \/ HandleConnect \/ HandleUnregister \/ HandleConnectUnknown
           \/ HandleAnswer \/ HandleUnexpected
  BY <1>6, HandlersForgetNone DEF ForgetsNone
<1> QED
  BY <1>1, <1>2, <1>3, <1>4, <1>5, <1>6 DEF ServerStep

\* Whatever fails, whoever is killed and however often spd is started: spd leaves
\* a connection open, registered and pending nowhere, that was not left before,
\* only where it refuses to register an id that is taken, and where the recv of
\* a request fails; it is the connection of that request.
THEOREM OnlyRefusedForgotten == Spec => ForgetsOnlyRefused
<1>1. ASSUME RegistryInv, [Next]_vars, NEW f \in FD, Forgotten(f)', ~Forgotten(f)
      PROVE  f = requestFd /\ (RefusesRegister \/ RecvFails)
  <2>1. ~ForgetsNone
    BY <1>1 DEF ForgetsNone
  <2>2. CASE ServerStep
    BY <1>1, <2>2, ServerForgets
  <2>3. CASE ServiceStep /\ UNCHANGED <<serverVars, client>>
    <3>1. PICK s \in Service : ServiceStep!(s)
      BY <2>3 DEF ServiceStep
    <3>2. svc[s].children \in SUBSET Conn
      BY <1>1, SvcType DEF RegistryInv, TypeOK, SvcRecord
    <3>3. PeerStepOK
      BY <1>1, <2>3, <3>1, <3>2, ServicePeer, HelperPeer
    <3> QED
      BY <2>1, <3>3, PeerForgetsNone
  <2>4. CASE ClientStep /\ UNCHANGED <<serverVars, serviceVars>>
    BY <1>1, <2>1, <2>4, ClientPeer, PeerForgetsNone DEF ClientStep, serviceVars
  <2>5. CASE \E c \in Conn : ResetConnection(c) \/ StrayRequest(c)
    BY <1>1, <2>1, <2>5, EventPeer, PeerForgetsNone
  <2>6. CASE UNCHANGED vars
    BY <2>1, <2>6, SameTables DEF vars, transportVars, hostVars, serverVars
  <2> QED
    BY <1>1, <2>2, <2>3, <2>4, <2>5, <2>6 DEF Next
<1>2. RegistryInv /\ [Next]_vars =>
        [\A f \in FD : Forgotten(f)' /\ ~Forgotten(f) =>
           f = requestFd /\ (RefusesRegister \/ RecvFails)]_vars
  BY <1>1
<1> QED
  BY <1>2, RegistryInvariant, PTL DEF Spec, ForgetsOnlyRefused

-----------------------------------------------------------------------------
(* Registrations.  What the peers do. *)

\* Nobody asks to be unregistered.
SaysNoUnregister ==
  /\ SaysLess(Unregisters)
  /\ \A id \in ServerID : SaysLess({makeUnregisterRequest(id)})

\* A service proxy that has ended has, and one that serves, or is about to
\* learn that it does, did before.
StaysHolder(t) ==
  /\ svc[t].pc = "exited" => svc'[t] = svc[t]
  /\ (Serves(t) \/ Told(t))' => (Serves(t) \/ Told(t)) /\ svc'[t].connection = svc[t].connection

\* A send of another packet.
LEMMA SaysOther ==
  ASSUME TypeOK, NEW c, NEW p \in Packet, PeerSend(c, p), p \notin Unregisters
  PROVE  SaysNoUnregister
<1>1. \A id \in ServerID : p \notin {makeUnregisterRequest(id)}
  BY DEF Unregisters
<1> QED
  BY <1>1, OtherSaid DEF SaysNoUnregister

\* No send.
LEMMA SaysNothing == UNCHANGED inq => SaysNoUnregister
BY FewerSame DEF SaysNoUnregister, SaysLess

\* A service proxy that does not move, and is not told anything new.
LEMMA SameHolder ==
  ASSUME RegistryInv, NoneTold(Okay), NEW t \in Service, svc'[t] = svc[t]
  PROVE  StaysHolder(t)
<1>1. svc[t].pc \in {"dialled", "awaiting"} => svc[t].connection \in Conn
  BY SvcType DEF RegistryInv, TypeOK, SvcRecord, HandlesKnown, SvcReady
<1> QED
  BY <1>1 DEF StaysHolder, Serves, Told, NoneTold

\* The requests to unregister that are under way stay those of service proxies
\* that have ended, as long as spd keeps the registrations of these.
LEMMA LeavingKept ==
  ASSUME Leaving, SettledKept, SaysNoUnregister,
         \A s \in Service : svc[s].pc = "exited" => svc'[s] = svc[s],
         \A s \in Service : svc[s].pc = "exited" /\ Holds(s) => Holds(s)'
  PROVE  Leaving'
<1>1. \A s \in Service : \A id, c : Leaver(s, id, c) => Leaver(s, id, c)'
  BY DEF Leaver
<1>2. ASSUME NEW c \in Conn, ~Settled(c)'
      PROVE  ~Settled(c) /\ Once(inq'[c], Unregisters)
  BY <1>2 DEF Leaving, SettledKept, SaysNoUnregister, SaysLess, Fewer
<1>3. ASSUME NEW c \in Conn, NEW id \in ServerID, ~Settled(c)',
             Has(inq'[c], {makeUnregisterRequest(id)})
      PROVE  \E s \in Service : Leaver(s, id, c)'
  <2>1. Has(inq[c], {makeUnregisterRequest(id)})
    BY <1>3 DEF SaysNoUnregister, SaysLess, Fewer
  <2> QED
    BY <1>1, <1>2, <1>3, <2>1 DEF Leaving
<1> QED
  BY <1>2, <1>3 DEF Leaving

\* A peer's step keeps the registrations.
LEMMA PeerHolds ==
  ASSUME RegistryInv, HolderInv, PeerStepOK, \A t \in Service : StaysHolder(t),
         FarewellsApart', \A a \in Conn : helper'[a].pc # "stopping",
         SaysNoUnregister \/ (spd = "up" => Leaving')
  PROVE  HolderInv'
<1>1. UNCHANGED <<spd, fdTable, serverMap>>
  BY DEF PeerStepOK, hostVars, serverVars
<1>2. ASSUME NEW t \in Service, svc'[t].connection = svc[t].connection, Holds(t)
      PROVE  Holds(t)'
  BY <1>1, <1>2 DEF Holds, Registered
<1>3. spd = "up" => HoldersKnown'
  BY <1>2 DEF HolderInv, HoldersKnown, StaysHolder
<1>4. spd = "up" => Leaving'
  <2>1. SettledKept
    BY PeerKeepsSettled DEF RegistryInv
  <2> QED
    BY <1>2, <2>1, LeavingKept DEF HolderInv, StaysHolder
<1> QED
  BY <1>1, <1>3, <1>4 DEF HolderInv

\* Nobody dials to unregister.
LEMMA FarewellsKept ==
  ASSUME FarewellsApart, StaysUsed, TypeOK,
         \A t \in Service : /\ svc'[t].farewell = svc[t].farewell
                            /\ \/ svc'[t].connection = svc[t].connection
                               \/ ~Used(svc'[t].connection)
  PROVE  FarewellsApart'
<1>1. \A t \in Service : svc[t].farewell \in Conn \cup {NoConn}
  BY SvcType DEF TypeOK, SvcRecord
<1> QED
  BY <1>1 DEF FarewellsApart, StaysUsed, Used

\* The steps of a service proxy keep the registrations: it serves once it was
\* told that it is registered, and sends one request to unregister, its last step.
LEMMA ServiceHolds ==
  ASSUME RegistryInv, HolderInv, NEW s \in Service, UNCHANGED <<serverVars, client>>,
         UnusedEmpty,
         \/ Connect(s) \/ ConnectRefused(s) \/ SendRegister(s)
         \/ ReadRegisterResponse(s) \/ ReadConnectRequest(s) \/ ReadThrows(s)
         \/ DialProxy(s) \/ DialProxyFails(s) \/ Fork(s) \/ ForkFails(s)
         \/ Interrupt(s) \/ InterruptRefused(s) \/ SendUnregister(s) \/ Crash(s)
  PROVE  HolderInv'
<1> USE DEF RegistryInv
<1>0. PeerStepOK /\ StaysUsed
  BY ServicePeer DEF PeerStepOK
<1>r. svc[s] \in SvcRecord /\ serviceID[s] \in ServerID
  BY SvcType, ProcessAssumption DEF TypeOK
<1>t. \A t \in Service \ {s} : svc'[t] = svc[t]
  BY ExitIsGoto DEF Connect, ConnectRefused, SendRegister, ReadRegisterResponse,
     ReadConnectRequest, ReadThrows, DialProxy, DialProxyFails, Fork, ForkFails, Interrupt,
     InterruptRefused, SendUnregister, Crash, Goto, TypeOK, ServiceTypeOK
<1>h. \A a \in Conn : helper'[a].pc # "stopping"
  BY DEF Connect, ConnectRefused, SendRegister, ReadRegisterResponse, ReadConnectRequest,
     ReadThrows, DialProxy, DialProxyFails, Fork, ForkFails, Interrupt, InterruptRefused,
     SendUnregister, Crash, HolderInv, TypeOK, ServiceTypeOK
<1>o. ASSUME PeerReads, StaysHolder(s), FarewellsApart',
             SaysNoUnregister \/ (spd = "up" => Leaving')
      PROVE  HolderInv'
  BY <1>0, <1>h, <1>t, <1>o, ReadsNoneTold, SameHolder, PeerHolds
<1>f. ASSUME svc'[s].farewell = svc[s].farewell,
             svc'[s].connection = svc[s].connection \/ ~Used(svc'[s].connection)
      PROVE  FarewellsApart'
  BY <1>0, <1>t, <1>f, FarewellsKept DEF HolderInv
<1>g. ASSUME NEW pc, Goto(s, pc)
      PROVE  /\ svc'[s].pc = pc /\ svc'[s].connection = svc[s].connection
             /\ svc'[s].farewell = svc[s].farewell
             /\ FarewellsApart'
             /\ pc = "exited" => StaysHolder(s)
  <2>1. svc'[s] = [svc[s] EXCEPT !.pc = pc]
    BY <1>g DEF Goto, TypeOK, ServiceTypeOK
  <2>2. /\ svc'[s].pc = pc /\ svc'[s].connection = svc[s].connection
        /\ svc'[s].farewell = svc[s].farewell
    BY <1>r, <2>1 DEF SvcRecord
  <2>3. pc = "exited" => StaysHolder(s)
    BY <1>r, <2>1, <2>2 DEF StaysHolder, Serves, Told, SvcRecord
  <2> QED
    BY <1>f, <2>2, <2>3
<1>e. ASSUME NEW cs, Exit(s, cs)
      PROVE  PeerReads /\ Goto(s, "exited") /\ StaysHolder(s) /\ FarewellsApart'
  BY <1>e, <1>g, ExitIsGoto DEF Exit, PeerReads
<1>1. ASSUME Connect(s) PROVE HolderInv'
  <2>1. PICK c \in Conn : Connect(s)!2!(c)
    BY <1>1 DEF Connect
  <2>2. /\ svc[s].pc = "off" /\ svc'[s].connection = c /\ svc'[s].pc = "dialled"
        /\ svc'[s].farewell = svc[s].farewell
    BY <1>1, <2>1 DEF Connect, TypeOK, ServiceTypeOK
  <2>3. ~Used(c)
    BY <2>1, DialUses DEF TypeOK
  <2>4. outq'[c] = <<>>
    BY <1>1, <2>3 DEF Connect, UnusedEmpty
  <2>5. StaysHolder(s)
    BY <2>2, <2>4 DEF StaysHolder, Serves, Told, Has
  <2>6. FarewellsApart'
    BY <1>f, <2>2, <2>3
  <2> QED
    BY <1>1, <1>o, <2>5, <2>6, SaysNothing DEF Connect, PeerReads
<1>2. ASSUME ConnectRefused(s) PROVE HolderInv'
  BY <1>2, <1>o, <1>g, SaysNothing DEF ConnectRefused, netVars, PeerReads
<1>3. ASSUME SendRegister(s) PROVE HolderInv'
  <2>1. makeRegisterRequest(serviceID[s]) \in Packet
    BY <1>r, PacketTypes DEF NodeID
  <2>2. SaysNoUnregister
    BY <1>3, <2>1, SaysOther, OtherPackets DEF SendRegister
  <2>3. StaysHolder(s)
    BY <1>3, <1>g DEF SendRegister, StaysHolder, Serves, Told
  <2> QED
    BY <1>3, <1>g, <1>o, <2>2, <2>3 DEF SendRegister, PeerReads
<1>4. ASSUME ReadRegisterResponse(s) PROVE HolderInv'
  <2> DEFINE c == svc[s].connection
  <2>1. svc[s].pc = "awaiting" /\ c \in Conn /\ outq[c] # <<>> /\ UNCHANGED inq
    BY <1>4, <1>r DEF ReadRegisterResponse, SvcRecord, HandlesKnown, SvcReady
  <2>2. CASE isOK(Head(outq[c]))
    <3>1. Goto(s, "serving") /\ PeerReads
      BY <1>4, <2>1, <2>2 DEF ReadRegisterResponse, PeerReads
    <3>2. 1 \in DOMAIN outq[c] /\ outq[c][1] = Head(outq[c]) /\ outq[c][1] \in Packet
      BY <2>1, TailPackets DEF TypeOK, TransportTypeOK
    <3>3. Head(outq[c]) \in Okay
      BY <2>2, <3>2 DEF isOK, Okay, makeResponse, Packet, Request, Response, Payload, OK, ERROR
    <3>4. Told(s)
      BY <2>1, <3>2, <3>3 DEF Told, Has
    <3>5. StaysHolder(s)
      BY <1>g, <2>1, <3>1, <3>4 DEF StaysHolder
    <3> QED
      BY <1>g, <1>o, <2>1, <3>1, <3>5, SaysNothing
  <2>3. CASE ~isOK(Head(outq[c]))
    BY <1>4, <1>o, <1>e, <2>1, <2>3, SaysNothing DEF ReadRegisterResponse
  <2> QED
    BY <2>2, <2>3
<1>5. ASSUME ReadThrows(s) \/ InterruptRefused(s) \/ Crash(s) PROVE HolderInv'
  BY <1>5, <1>o, <1>e, SaysNothing DEF ReadThrows, InterruptRefused, Crash
<1>6. ASSUME ReadConnectRequest(s) \/ DialProxy(s) \/ DialProxyFails(s) \/ Fork(s) \/ ForkFails(s)
      PROVE  HolderInv'
  <2>1. /\ svc'[s].connection = svc[s].connection /\ svc'[s].farewell = svc[s].farewell
        /\ svc[s].pc \in {"serving", "dialling", "forking"}
    BY <1>6 DEF ReadConnectRequest, DialProxy, DialProxyFails, Fork, ForkFails, TypeOK,
       ServiceTypeOK
  <2>2. StaysHolder(s) /\ FarewellsApart'
    BY <1>f, <2>1 DEF StaysHolder, Serves
  <2>3. svc[s].connection \in Conn
    BY <1>r, <2>1 DEF SvcRecord, HandlesKnown, SvcReady
  <2>4. PeerReads
    BY <1>6, <2>3 DEF ReadConnectRequest, DialProxy, DialProxyFails, Fork, ForkFails, netVars,
       PeerReads
  <2>5. UNCHANGED inq
    BY <1>6 DEF ReadConnectRequest, DialProxy, DialProxyFails, Fork, ForkFails, netVars
  <2> QED
    BY <1>o, <2>2, <2>4, <2>5, SaysNothing
<1>7. ASSUME Interrupt(s) PROVE HolderInv'
  <2>1. PICK c \in Conn : Interrupt(s)!3!(c)
    BY <1>7 DEF Interrupt
  <2>2. /\ svc[s].pc \in {"serving", "dialling", "forking"} /\ svc'[s].pc = "stopping"
        /\ svc'[s].connection = svc[s].connection /\ svc'[s].farewell = c
    BY <1>7, <2>1 DEF Interrupt, TypeOK, ServiceTypeOK
  <2>3. ~Used(c) /\ peer'[c] # "none" /\ c # NoConn
    BY <2>1, DialUses, NumberTypes DEF TypeOK
  <2>4. \A t \in Service : svc[t].connection # c /\ svc[t].farewell # c
    BY <2>3 DEF OwnersDistinct, HolderInv, FarewellsApart
  <2>5. FarewellsApart'
    <3>1. \A t \in Service : svc[t].farewell \in Conn \cup {NoConn}
      BY SvcType DEF TypeOK, SvcRecord
    <3> QED
      BY <1>0, <1>t, <2>2, <2>3, <2>4, <3>1 DEF HolderInv, FarewellsApart, StaysUsed, Used
  <2>6. StaysHolder(s)
    BY <2>2 DEF StaysHolder, Serves
  <2> QED
    BY <1>7, <1>o, <2>5, <2>6, SaysNothing DEF Interrupt, PeerReads
<1>8. ASSUME SendUnregister(s) PROVE HolderInv'
  <2> DEFINE c == svc[s].farewell
             p == makeUnregisterRequest(serviceID[s])
  <2>1. svc[s].pc = "stopping" /\ PeerSend(c, p) /\ PeerReads /\ StaysHolder(s)
    BY <1>8, <1>e DEF SendUnregister
  <2>2. /\ svc'[s].pc = "exited" /\ svc'[s].farewell = c
        /\ svc'[s].connection = svc[s].connection
    BY <1>8, <1>e, <1>g DEF SendUnregister
  <2>3. FarewellsApart'
    BY <1>8, <1>e DEF SendUnregister
  <2>4. ASSUME spd = "up"
        PROVE  Leaving'
    <3>1. \A t \in Service : svc'[t].connection = svc[t].connection /\ Holds(t) => Holds(t)'
      BY <1>0 DEF PeerStepOK, hostVars, serverVars, Holds, Registered
    <3>2. Holds(s)' /\ Leaving
      BY <2>1, <2>2, <2>4, <3>1 DEF HolderInv, HoldersKnown, Serves
    <3>3. \A t \in Service : \A id, d : Leaver(t, id, d) => Leaver(t, id, d)'
      BY <1>t, <2>1, <3>1 DEF Leaver
    <3>4. \A d \in Conn \ {c} : inq'[d] = inq[d]
      BY <2>1 DEF PeerSend, TypeOK, TransportTypeOK
    <3>0. SettledKept
      BY <1>0, PeerKeepsSettled
    <3>5. ASSUME NEW d \in Conn, d = c, ~Settled(d)'
          PROVE  /\ Once(inq'[d], Unregisters)
                 /\ \A id \in ServerID : Has(inq'[d], {makeUnregisterRequest(id)}) =>
                      Leaver(s, id, d)'
      <4>1. ~Has(inq[d], Unregisters)
        <5>1. \A t \in Service, id \in ServerID : ~Leaver(t, id, d)
          BY <2>1, <3>5, NumberTypes DEF Leaver, HolderInv, FarewellsApart
        <5>2. \A id \in ServerID : ~Has(inq[d], {makeUnregisterRequest(id)})
          BY <3>0, <3>2, <3>5, <5>1 DEF Leaving, SettledKept
        <5> QED
          BY <5>2 DEF Has, Unregisters
      <4>2. inq[d] \in Seq(Packet) /\ (inq'[d] = inq[d] \/ inq'[d] = Append(inq[d], p))
        BY <2>1, <3>5 DEF PeerSend, TypeOK, TransportTypeOK
      <4>3. p \in Packet
        BY <1>r, PacketTypes DEF NodeID
      <4>4. Once(Append(inq[d], p), Unregisters)
        BY <4>1, <4>2, <4>3, FirstAppended
      <4>5. Once(inq'[d], Unregisters)
        <5>1. Once(inq[d], Unregisters)
          BY <3>0, <3>2, <3>5 DEF Leaving, SettledKept
        <5> QED
          BY <4>2, <4>4, <5>1
      <4>6. \A id \in ServerID : Has(inq'[d], {makeUnregisterRequest(id)}) =>
              p = makeUnregisterRequest(id)
        <5>1. \A id \in ServerID : ~Has(inq[d], {makeUnregisterRequest(id)})
          BY <4>1 DEF Has, Unregisters
        <5>2. \A id \in ServerID : p \notin {makeUnregisterRequest(id)} =>
                Fewer(Append(inq[d], p), inq[d], {makeUnregisterRequest(id)})
          BY <4>2, <4>3, FewerAppend
        <5> QED
          BY <4>2, <5>1, <5>2 DEF Fewer
      <4>7. \A id : p = makeUnregisterRequest(id) => serviceID[s] = id
        BY DEF makeUnregisterRequest, makeRequest
      <4> QED
        BY <2>2, <3>2, <3>5, <4>5, <4>6, <4>7 DEF Leaver
    <3>6. ASSUME NEW d \in Conn, ~Settled(d)'
          PROVE  /\ Once(inq'[d], Unregisters)
                 /\ \A id \in ServerID : Has(inq'[d], {makeUnregisterRequest(id)}) =>
                      \E t \in Service : Leaver(t, id, d)'
      <4>1. CASE d = c
        BY <3>5, <3>6, <4>1
      <4>2. CASE d # c
        BY <3>0, <3>2, <3>3, <3>4, <3>6, <4>2 DEF Leaving, SettledKept
      <4> QED
        BY <4>1, <4>2
    <3> QED
      BY <3>6 DEF Leaving
  <2> QED
    BY <1>o, <2>1, <2>3, <2>4
<1> QED
  BY <1>1, <1>2, <1>3, <1>4, <1>5, <1>6, <1>7, <1>8

\* No helper unregisters: none gets a signal.
LEMMA HelperHolds ==
  ASSUME "group" \notin Events, RegistryInv, HolderInv, NEW s \in Service, NEW a \in Conn,
         UNCHANGED <<serverVars, client>>,
         \/ HelperConnected(s, a) \/ HelperFailed(s, a) \/ HelperPayload(s, a)
         \/ HelperDone(s, a) \/ HelperInterrupt(s, a) \/ HelperInterruptRefused(s, a)
         \/ HelperUnregister(s, a) \/ HelperCrash(s, a)
  PROVE  HolderInv'
<1> USE DEF RegistryInv
<1>0. PeerStepOK /\ StaysUsed
  BY HelperPeer DEF PeerStepOK
<1>1. UNCHANGED svc /\ PeerReads
  BY HelperReads
<1>2. ~HelperInterrupt(s, a) /\ ~HelperInterruptRefused(s, a) /\ ~HelperUnregister(s, a)
  BY DEF HelperInterrupt, HelperInterruptRefused, HelperUnregister, HolderInv
<1>3. \A b \in Conn : helper'[b].pc # "stopping"
  BY <1>2 DEF HelperConnected, HelperFailed, HelperPayload, HelperDone, HelperCrash,
     HelperExit, HolderInv, TypeOK, ServiceTypeOK
<1>4. SaysNoUnregister
  <2>1. HelperReady(helper[a])
    BY DEF HandlesKnown
  <2>2. CASE UNCHANGED inq
    BY <2>2, SaysNothing
  <2>3. CASE HelperConnected(s, a) \/ HelperFailed(s, a)
    BY <2>1, <2>3, SaysOther, OtherPackets, PacketTypes DEF HelperConnected, HelperFailed,
       HelperReady
  <2>4. CASE HelperPayload(s, a)
    BY <2>4, SaysOther, OtherPackets, PacketTypes DEF HelperPayload
  <2> QED
    BY <1>2, <2>2, <2>3, <2>4 DEF HelperDone, HelperCrash
<1>5. \A t \in Service : StaysHolder(t)
  BY <1>1, ReadsNoneTold, SameHolder
<1>6. FarewellsApart'
  BY <1>0, <1>1, FarewellsKept DEF HolderInv
<1> QED
  BY <1>0, <1>3, <1>4, <1>5, <1>6, PeerHolds

\* Nor does a client proxy.
LEMMA ClientHolds ==
  ASSUME RegistryInv, HolderInv, NEW k \in Client, UNCHANGED <<serverVars, serviceVars>>,
         \/ ClientConnect(k) \/ ClientConnectRefused(k) \/ SendConnect(k)
         \/ ReadConnectResponse(k) \/ ClientReadThrows(k) \/ ClientRecvFails(k)
         \/ ClientListenFails(k) \/ ClientAccept(k) \/ ClientDone(k) \/ ClientCrash(k)
  PROVE  HolderInv'
<1> USE DEF RegistryInv, serviceVars
<1>0. PeerStepOK /\ StaysUsed
  BY ClientPeer DEF PeerStepOK
<1>1. PeerReads
  BY ClientReads
<1>2. SaysNoUnregister
  <2>1. wantedID[k] \in NodeID
    BY ProcessAssumption DEF NodeID
  <2>2. CASE UNCHANGED inq
    BY <2>2, SaysNothing
  <2>3. CASE SendConnect(k)
    BY <2>1, <2>3, SaysOther, OtherPackets, PacketTypes DEF SendConnect
  <2> QED
    BY <2>2, <2>3 DEF ClientConnect, ClientConnectRefused, ReadConnectResponse,
       ClientReadThrows, ClientRecvFails, ClientListenFails, ClientAccept, ClientDone,
       ClientCrash, netVars
<1>3. \A t \in Service : StaysHolder(t)
  BY <1>1, ReadsNoneTold, SameHolder
<1>4. FarewellsApart'
  BY <1>0, FarewellsKept DEF HolderInv
<1> QED
  BY <1>0, <1>2, <1>3, <1>4, PeerHolds DEF HolderInv

\* Nor the network, nor a program that is none of these.
LEMMA EventHolds ==
  ASSUME RegistryInv, HolderInv, NEW c \in Conn, ResetConnection(c) \/ StrayRequest(c)
  PROVE  HolderInv'
<1> USE DEF RegistryInv
<1>0. PeerStepOK /\ StaysUsed
  BY EventPeer DEF PeerStepOK
<1>1. UNCHANGED <<svc, helper, outq>>
  BY DEF ResetConnection, StrayRequest, serviceVars
<1>2. NoneTold(Okay)
  BY <1>1 DEF NoneTold
<1>3. SaysNoUnregister
  <2>1. CASE ResetConnection(c)
    BY <2>1, SaysNothing DEF ResetConnection
  <2>2. CASE StrayRequest(c)
    <3>1. /\ \A d \in Conn \ {c} : inq'[d] = inq[d]
          /\ inq'[c] = <<makeResponse(TRUE)>>
      BY <2>2 DEF StrayRequest, TypeOK, TransportTypeOK
    <3>2. \A i \in DOMAIN <<makeResponse(TRUE)>> : <<makeResponse(TRUE)>>[i] = makeResponse(TRUE)
      BY OnePacket
    <3>3. ASSUME NEW P, makeResponse(TRUE) \notin P
          PROVE  SaysLess(P)
      <4>1. Fewer(<<makeResponse(TRUE)>>, inq[c], P)
        BY <3>2, <3>3 DEF Fewer, Has, Once
      <4> QED
        BY <3>1, <4>1, FewerSame DEF SaysLess
    <3> QED
      BY <3>3, OtherPackets DEF SaysNoUnregister, Unregisters
  <2> QED
    BY <2>1, <2>2
<1>4. \A t \in Service : StaysHolder(t)
  BY <1>1, <1>2, SameHolder
<1>5. FarewellsApart'
  BY <1>0, <1>1, FarewellsKept DEF HolderInv
<1> QED
  BY <1>0, <1>1, <1>3, <1>4, <1>5, PeerHolds DEF HolderInv

-----------------------------------------------------------------------------
(* What spd and the relay processes do with registrations *)

\* Service proxies are told of registrations that are theirs, and lose none.
TellsHolders == \A s \in Service : Told(s)' => Told(s) \/ Holds(s)'
KeepsRegistered ==
  \A id \in ServerID : Registered(id) =>
    /\ serverMap'[id] = serverMap[id]
    /\ fdTable'[serverMap[id]] = fdTable[serverMap[id]]

\* A step of spd that keeps the registrations, and makes those it tells of.
LEMMA SpdKeepsHolders ==
  ASSUME RegistryInv, HolderInv, SettledKept, UNCHANGED <<svc, helper, peer>>, OneReceived,
         spd' = "up" => spd = "up" /\ TellsHolders /\ KeepsRegistered
  PROVE  HolderInv'
<1> USE DEF RegistryInv
<1>1. FarewellsApart' /\ \A a \in Conn : helper'[a].pc # "stopping"
  BY DEF HolderInv, FarewellsApart, Used
<1>2. SaysNoUnregister
  BY ReceivedNoneSaid DEF SaysNoUnregister
<1>3. \A s \in Service : serviceID[s] \in ServerID
  BY ProcessAssumption
<1>4. ASSUME spd' = "up"
      PROVE  HoldersKnown' /\ Leaving'
  <2>1. \A s \in Service : Holds(s) => Holds(s)'
    BY <1>3, <1>4 DEF KeepsRegistered, Holds, Registered
  <2>2. HoldersKnown'
    BY <1>4, <2>1 DEF TellsHolders, HolderInv, HoldersKnown, Serves
  <2>3. Leaving'
    BY <1>2, <1>4, <2>1, LeavingKept DEF HolderInv
  <2> QED
    BY <2>2, <2>3
<1> QED
  BY <1>1, <1>4 DEF HolderInv

\* A packet that is no success, or that goes to no service proxy, tells none.
LEMMA SendTells ==
  ASSUME RegistryInv, UNCHANGED svc, NEW c, NEW p \in Packet, Send(c, p),
         p \notin Okay \/ \A s \in Service : svc[s].connection # c
  PROVE  TellsHolders
<1> SUFFICES ASSUME NEW s \in Service, Told(s)' PROVE Told(s)
  BY DEF TellsHolders
<1> USE DEF RegistryInv
<1>1. PICK d : d = svc[s].connection
  OBVIOUS
<1>2. d \in Conn /\ svc[s].pc \in {"dialled", "awaiting"} /\ Has(outq'[d], Okay)
  BY <1>1, SvcType DEF Told, TypeOK, SvcRecord, HandlesKnown, SvcReady
<1>3. CASE d # c
  BY <1>1, <1>2, <1>3 DEF Send, TypeOK, TransportTypeOK, Told
<1>4. CASE d = c
  <2>1. p \notin Okay
    BY <1>1, <1>4
  <2>2. outq[d] \in Seq(Packet) /\ (outq'[d] = outq[d] \/ outq'[d] = Append(outq[d], p))
    BY <1>2, <1>4 DEF Send, TypeOK, TransportTypeOK
  <2>3. Fewer(Append(outq[d], p), outq[d], Okay)
    BY <2>1, <2>2, FewerAppend
  <2> QED
    BY <1>1, <1>2, <2>2, <2>3 DEF Fewer, Told
<1> QED
  BY <1>3, <1>4

\* The registrations of a step that touches serverMap at no registered id, and
\* closes no number of one.
LEMMA ClosingHolds ==
  ASSUME RegistryInv, HolderInv, SettledKept,
         UNCHANGED <<spd, svc, helper, peer, serverMap>>, OneReceived,
         NEW fs, fdTable' = CloseFds(fs),
         \A id \in ServerID : Registered(id) => serverMap[id] \notin fs,
         TellsHolders
  PROVE  HolderInv'
<1>1. \A id \in ServerID : Registered(id) => serverMap[id] \in FD
  BY DEF RegistryInv, TypeOK, ServerTypeOK, Registered
<1> QED
  BY <1>1, SpdKeepsHolders DEF CloseFds, KeepsRegistered

\* Accepting, receiving in vain, connecting, answering and refusing touch no
\* registration.
LEMMA OtherHolds ==
  ASSUME RegistryInv, HolderInv, SettledKept, UNCHANGED <<svc, helper, client>>,
         \/ AcceptConnection \/ RecvError \/ ParseThrows \/ HandleConnectKilled
         \/ HandleConnect \/ HandleConnectUnknown \/ HandleAnswer \/ HandleUnexpected
  PROVE  HolderInv'
<1> USE DEF RegistryInv
<1>1. ASSUME AcceptConnection PROVE HolderInv'
  <2>1. PICK f \in FD : fdTable[f] = NoConn /\ fdTable' = [fdTable EXCEPT ![f] = Head(backlog)]
    BY <1>1 DEF AcceptConnection
  <2>2. \A id \in ServerID : Registered(id) => fdTable[serverMap[id]] # NoConn
    BY NumberTypes DEF DescriptorsNotStale, RegistryNotStale, OpenAt
  <2>3. \A g : g # f => fdTable'[g] = fdTable[g]
    BY <2>1 DEF TypeOK, TransportTypeOK
  <2>4. \A id \in ServerID : Registered(id) => fdTable'[serverMap[id]] = fdTable[serverMap[id]]
    BY <2>1, <2>2, <2>3
  <2>5. TellsHolders
    BY <1>1 DEF AcceptConnection, Told, TellsHolders
  <2> QED
    BY <1>1, <2>4, <2>5, SpdKeepsHolders DEF AcceptConnection, OneReceived, KeepsRegistered
<1>2. ASSUME RecvError PROVE HolderInv'
  <2>1. UNCHANGED <<spd, fdTable, serverMap, inq, outq, peer>>
    BY <1>2 DEF RecvError, hostVars, netVars
  <2>2. TellsHolders /\ KeepsRegistered
    BY <2>1 DEF TellsHolders, Told, KeepsRegistered
  <2> QED
    BY <2>1, <2>2, SpdKeepsHolders DEF OneReceived
<1>3. ASSUME ParseThrows \/ HandleConnectKilled PROVE HolderInv'
  <2>1. spd' = "down" /\ UNCHANGED <<inq, peer>>
    BY <1>3 DEF ParseThrows, HandleConnectKilled, Die, ProcessExit
  <2> QED
    BY <2>1, SpdKeepsHolders DEF OneReceived
<1>4. ASSUME HandleConnect PROVE HolderInv'
  <2>1. PICK id \in ServerID : HandleConnect!(id)
    BY <1>4 DEF HandleConnect
  <2>2. OneReceived /\ requestFd \in FD
    BY <2>1, RequestReceived
  <2>3. makeProxyConnectRequest(to_string(requestFd)) \in Packet
    BY <2>2, ClientNames, PacketTypes DEF NodeID
  <2>4. TellsHolders
    BY <2>1, <2>3, SendTells, OtherPackets
  <2> QED
    <3>1. UNCHANGED <<spd, fdTable, serverMap, peer>>
      BY <2>1 DEF hostVars
    <3>2. KeepsRegistered
      BY <3>1 DEF KeepsRegistered
    <3> QED
      BY <2>2, <2>4, <3>1, <3>2, SpdKeepsHolders
<1>5. ASSUME HandleConnectUnknown \/ HandleUnexpected PROVE HolderInv'
  <2>1. /\ UNCHANGED <<spd, peer, serverMap>> /\ fdTable' = CloseFds({requestFd})
        /\ Send(request, makeResponse(FALSE))
        /\ \E req : Receive(req)
    BY <1>5 DEF HandleConnectUnknown, HandleUnexpected
  <2>2. OneReceived /\ \A id \in ServerID : Registered(id) => serverMap[id] \notin {requestFd}
    BY <2>1, RequestReceived, NumbersDistinct
  <2>3. TellsHolders
    BY <2>1, SendTells, OtherPackets, PacketTypes
  <2> QED
    BY <2>1, <2>2, <2>3, ClosingHolds
<1>6. ASSUME HandleAnswer PROVE HolderInv'
  <2>1. PICK x \in ClientID, success \in BOOLEAN : HandleAnswer!(x, success)
    BY <1>6 DEF HandleAnswer
  <2>2. OneReceived
    BY <2>1, RequestReceived
  <2>3. CASE RefuseAnswer(x)
    <3>1. TellsHolders
      BY <2>3, SendTells, OtherPackets, PacketTypes DEF RefuseAnswer
    <3>2. \A id \in ServerID : Registered(id) => serverMap[id] \notin {requestFd}
      BY NumbersDistinct
    <3> QED
      BY <2>1, <2>2, <2>3, <3>1, <3>2, ClosingHolds DEF RefuseAnswer
  <2>4. CASE ResolvePending(x, success)
    <3>1. TellsHolders
      BY <2>4 DEF ResolvePending, Told, TellsHolders
    <3>2. \A id \in ServerID : Registered(id) => serverMap[id] \notin {atoi(x), requestFd}
      BY <2>4, NumbersDistinct DEF ResolvePending
    <3> QED
      BY <2>1, <2>2, <2>4, <3>1, <3>2, ClosingHolds DEF ResolvePending
  <2> QED
    BY <2>1, <2>3, <2>4
<1> QED
  BY <1>1, <1>2, <1>3, <1>4, <1>5, <1>6

\* A relay process tells a client, which is no service proxy.
LEMMA ChildHolds ==
  ASSUME RegistryInv, HolderInv, ChildrenApart, ChildrenOfClients, SettledKept,
         UNCHANGED <<svc, helper, client>>, NEW a \in Conn,
         ChildNotify(a) \/ ChildForward(a) \/ ChildRelayed(a) \/ ChildKilled(a)
  PROVE  HolderInv'
<1> USE DEF RegistryInv
<1>1. UNCHANGED <<spd, fdTable, serverMap, peer>> /\ OneReceived
  BY DEF ChildNotify, ChildForward, ChildRelayed, ChildKilled, ChildExit, RelayExit,
     hostVars, serverVars, OneReceived
<1>2. child[a].pc # "none"
  BY DEF ChildNotify, ChildForward, ChildRelayed, ChildKilled
<1>3. \A s \in Service : svc[s].connection # child[a].client
  BY <1>2, NumberTypes DEF ChildrenApart, Settled, ChildrenOfClients, OwnersDistinct
<1>4. TellsHolders
  <2>1. CASE ChildNotify(a)
    <3>1. Notice(a) \in Packet
      BY PacketTypes DEF Notice, TypeOK, ServerTypeOK
    <3> QED
      BY <1>3, <2>1, <3>1, SendTells DEF ChildNotify
  <2>2. CASE ChildForward(a)
    <3>1. Head(inq[a]) \in Packet
      BY <2>2, TailPackets DEF ChildForward, TypeOK, TransportTypeOK
    <3> QED
      BY <1>3, <2>2, <3>1, SendTells DEF ChildForward
  <2>3. CASE ChildRelayed(a)
    BY <2>3 DEF ChildRelayed, Told, TellsHolders
  <2>4. CASE ChildKilled(a)
    BY <2>4 DEF ChildKilled, Told, TellsHolders
  <2> QED
    BY <2>1, <2>2, <2>3, <2>4
<1>5. KeepsRegistered
  BY <1>1 DEF KeepsRegistered
<1> QED
  BY <1>1, <1>4, <1>5, SpdKeepsHolders

\* A service proxy that is told it is registered is.
LEMMA RegisterHolds ==
  ASSUME RegistryInv, HolderInv, SettledKept, HandleRegister,
         UNCHANGED <<svc, helper, client>>
  PROVE  HolderInv'
<1> USE DEF RegistryInv
<1>1. PICK id \in ServerID : HandleRegister!(id)
  BY DEF HandleRegister
<1>2. /\ requestFd \in FD /\ OneReceived
      /\ 1 \in DOMAIN inq[request] /\ inq[request][1] = makeRegisterRequest(id)
      /\ request \in Conn
  BY <1>1, RequestReceived
<1>3. UNCHANGED <<spd, fdTable, peer>>
  BY <1>1 DEF hostVars
<1>4. makeResponse(~Registered(id)) \in Packet
  BY PacketTypes
<1>5. CASE Registered(id)
  <2>1. TellsHolders
    BY <1>1, <1>4, <1>5, SendTells, OtherPackets
  <2>2. KeepsRegistered
    BY <1>1, <1>3, <1>5 DEF registerServer, KeepsRegistered
  <2> QED
    BY <1>2, <1>3, <2>1, <2>2, SpdKeepsHolders
<1>6. CASE ~Registered(id)
  <2>1. serverMap' = [serverMap EXCEPT ![id] = requestFd]
    BY <1>1, <1>6 DEF registerServer
  <2>2. PICK s \in Service : serviceID[s] = id /\ svc[s].connection = request
    BY <1>2 DEF PacketsOwned
  <2>3. Holds(s)'
    BY <1>2, <1>3, <2>1, <2>2, NumberTypes DEF Holds, Registered, request, TypeOK, ServerTypeOK
  <2>4. ASSUME NEW t \in Service, t # s, Told(t)'
        PROVE  Told(t)
    <3>1. svc[t].connection # request
      BY <1>2, <2>2, <2>4, NumberTypes DEF OwnersDistinct
    <3>2. svc[t].connection \in Conn /\ svc[t].pc \in {"dialled", "awaiting"}
      BY <2>4, SvcType DEF Told, TypeOK, SvcRecord, HandlesKnown, SvcReady
    <3>3. outq'[svc[t].connection] = outq[svc[t].connection]
      BY <1>1, <3>1, <3>2 DEF Send, TypeOK, TransportTypeOK
    <3> QED
      BY <2>4, <3>3 DEF Told
  <2>5. TellsHolders
    BY <2>3, <2>4 DEF TellsHolders
  <2>6. KeepsRegistered
    BY <1>3, <1>6, <2>1 DEF KeepsRegistered, Registered, TypeOK, ServerTypeOK
  <2> QED
    BY <1>2, <1>3, <2>5, <2>6, SpdKeepsHolders
<1> QED
  BY <1>5, <1>6

\* A request to unregister is the only one, and takes the registration of the
\* service proxy that sent it.
LEMMA UnregisterHolds ==
  ASSUME RegistryInv, HolderInv, SettledKept, HandleUnregister,
         UNCHANGED <<svc, helper, client>>
  PROVE  /\ HolderInv'
         /\ \E s \in Service : svc[s].pc = "exited" /\ Holds(s)
              /\ \A id \in ServerID :
                   Registered(id) /\ serverMap'[id] = NoFd => id = serviceID[s]
<1> USE DEF RegistryInv
<1>1. PICK id \in ServerID : HandleUnregister!(id)
  BY DEF HandleUnregister
<1>2. PICK c \in Conn : c = request
  BY <1>1, RequestReceived
<1>3. /\ requestFd \in FD /\ OneReceived /\ spd = "up"
      /\ inq[c] # <<>> /\ 1 \in DOMAIN inq[c] /\ inq[c][1] = makeUnregisterRequest(id)
      /\ inq' = [inq EXCEPT ![c] = Tail(@)]
  BY <1>1, <1>2, RequestReceived DEF Receive, Handling, Consume
<1>4. FarewellsApart /\ HoldersKnown /\ Leaving
  BY <1>3 DEF HolderInv
<1>u. ~Settled(c)
  BY <1>2, <1>3, RequestUnsettled
<1>5. PICK s \in Service : Leaver(s, id, c)
  <2>1. Has(inq[c], {makeUnregisterRequest(id)})
    BY <1>3 DEF Has
  <2> QED
    BY <1>2, <1>4, <1>u, <2>1 DEF Leaving
<1>6. TellsHolders /\ \A t \in Service : Told(t)' => Told(t)
  <2>1. \A t \in Service : svc[t].connection # request
    BY <1>2, <1>4, <1>5, NumberTypes DEF Leaver, FarewellsApart
  <2>2. ASSUME NEW t \in Service, Told(t)'
        PROVE  Told(t)
    <3>1. svc[t].connection \in Conn /\ svc[t].pc \in {"dialled", "awaiting"}
      BY <2>2, SvcType DEF Told, TypeOK, SvcRecord, HandlesKnown, SvcReady
    <3>2. outq'[svc[t].connection] = outq[svc[t].connection]
      BY <1>1, <2>1, <3>1 DEF Send, TypeOK, TransportTypeOK
    <3> QED
      BY <2>2, <3>2 DEF Told
  <2> QED
    BY <2>2 DEF TellsHolders
<1>7. ASSUME NEW t \in Service, t # s, Holds(t)
      PROVE  Holds(t)'
  <2>1. PICK jd \in ServerID : jd = serviceID[t]
    BY ProcessAssumption
  <2>2. Registered(jd) /\ fdTable[serverMap[jd]] = svc[t].connection
    BY <1>7, <2>1 DEF Holds
  <2>3. jd # id
    BY <1>5, <1>7, <2>2 DEF Leaver, Holds, OwnersDistinct
  <2>4. serverMap[jd] \in FD /\ serverMap[jd] \notin {serverMap[id], requestFd}
    BY <2>2, <2>3, NumbersDistinct DEF Registered, TypeOK, ServerTypeOK
  <2>5. serverMap'[jd] = serverMap[jd] /\ fdTable'[serverMap[jd]] = fdTable[serverMap[jd]]
    BY <1>1, <2>3, <2>4 DEF Erased, ClosedByUnregister, CloseFds, TypeOK, ServerTypeOK
  <2> QED
    BY <1>7, <2>1, <2>2, <2>5 DEF Holds, Registered
<1>8. HoldersKnown'
  <2>1. \A t \in Service : Serves(t)' \/ Told(t)' => t # s /\ Holds(t)
    BY <1>4, <1>5, <1>6 DEF HoldersKnown, Serves, Told, Leaver
  <2> QED
    BY <1>7, <2>1 DEF HoldersKnown
<1>9. SaysNoUnregister
  BY <1>3, ReceivedNoneSaid DEF SaysNoUnregister
<1>10. ASSUME NEW d \in Conn, ~Settled(d)'
       PROVE  ~Settled(d) /\ Once(inq'[d], Unregisters)
  BY <1>4, <1>9, <1>10 DEF Leaving, SettledKept, SaysNoUnregister, SaysLess, Fewer
<1>11. ASSUME NEW d \in Conn, NEW jd \in ServerID, ~Settled(d)', Has(inq'[d], {makeUnregisterRequest(jd)})
       PROVE  \E t \in Service : Leaver(t, jd, d)'
  <2>1. Has(inq[d], {makeUnregisterRequest(jd)})
    BY <1>9, <1>11 DEF SaysNoUnregister, SaysLess, Fewer
  <2>2. PICK t \in Service : Leaver(t, jd, d)
    BY <1>4, <1>10, <1>11, <2>1 DEF Leaving
  <2>3. t # s
    <3>1. ASSUME t = s PROVE FALSE
      <4>1. d = c
        BY <1>5, <2>2, <3>1 DEF Leaver
      <4>2. inq[c] \in Seq(Packet) /\ inq'[c] = Tail(inq[c])
        BY <1>3 DEF TypeOK, TransportTypeOK
      <4>3. Head(inq[c]) \in Unregisters
        BY <1>3, <4>2, TailPackets DEF Unregisters
      <4>4. ~Has(Tail(inq[c]), Unregisters)
        BY <1>3, <1>4, <1>u, <4>2, <4>3, OnlyReceived DEF Leaving
      <4>5. \A q : Has(q, {makeUnregisterRequest(jd)}) => Has(q, Unregisters)
        BY DEF Has, Unregisters
      <4> QED
        BY <1>11, <4>1, <4>2, <4>4, <4>5
    <3> QED
      BY <3>1
  <2> QED
    BY <1>7, <2>2, <2>3 DEF Leaver
<1>12. HolderInv'
  <2>1. FarewellsApart' /\ \A a \in Conn : helper'[a].pc # "stopping"
    BY <1>1 DEF HolderInv, FarewellsApart, Used
  <2>2. Leaving'
    BY <1>10, <1>11 DEF Leaving
  <2> QED
    BY <1>8, <2>1, <2>2 DEF HolderInv
<1>13. \A jd \in ServerID : Registered(jd) /\ serverMap'[jd] = NoFd => jd = serviceID[s]
  BY <1>1, <1>5 DEF Erased, Registered, Leaver, TypeOK, ServerTypeOK
<1> QED
  BY <1>5, <1>12, <1>13 DEF Leaver

-----------------------------------------------------------------------------
(* The theorem about registrations *)

\* A new spd has no registrations, and gets no request to unregister that was
\* meant for the last one, when the service proxies have ended.
LEMMA RestartHolds ==
  ASSUME RegistryInv, HolderInv, NothingLeft, SettledKept, Run,
         UNCHANGED <<serviceVars, client>>, \A s \in Service : ~Alive(s)
  PROVE  HolderInv'
<1> USE DEF RegistryInv
<1>1. /\ UNCHANGED <<fdTable, inq, outq, peer, svc, helper>>
      /\ backlog = <<>> /\ spd = "down"
  BY DEF Run, Listening, NothingLeft, netVars, serviceVars, TypeOK, TransportTypeOK
<1>2. FarewellsApart' /\ \A a \in Conn : helper'[a].pc # "stopping"
  BY <1>1 DEF HolderInv, FarewellsApart, Used
<1>3. \A s \in Service : ~Serves(s)' /\ ~Told(s)'
  BY <1>1 DEF Alive, Serves, Told
<1>4. ASSUME NEW c \in Conn, ~Settled(c)'
      PROVE  inq'[c] = <<>>
  <2>1. ~Settled(c)
    BY <1>4 DEF SettledKept
  <2>2. (\A f \in FD : fdTable[f] # c) /\ \A i \in DOMAIN backlog : backlog[i] # c
    BY <1>1, NumberTypes DEF DownIsEmpty
  <2> QED
    BY <1>1, <2>1, <2>2 DEF Settled, NothingLeft
<1>5. Leaving'
  BY <1>4, FewerSame DEF Leaving
<1> QED
  BY <1>2, <1>3, <1>5 DEF HolderInv, HoldersKnown

\* HolderInv is inductive while spd is started again only after the service
\* proxies, and no helper is interrupted.
LEMMA HolderStep ==
  ASSUME NoHaste, "group" \notin Events
  PROVE  RegistryInv /\ ChildrenApart /\ NothingLeft /\ PairingInv /\ HolderInv /\ [Next]_vars
           => HolderInv'
<1> SUFFICES ASSUME RegistryInv, ChildrenApart, NothingLeft, PairingInv, HolderInv, [Next]_vars
             PROVE  HolderInv'
  OBVIOUS
<1>1. CASE ServerStep /\ RestartAwaits /\ UNCHANGED <<serviceVars, client>>
  <2>0. SettledKept
    BY <1>1, ServerReturnsNone, KeepsSettled
  <2>1. CASE Run
    <3>1. MaxStarts # 1
      BY <2>1 DEF Run, RegistryInv, TypeOK, ServerTypeOK
    <3> QED
      BY <1>1, <2>0, <2>1, <3>1, RestartHolds DEF NoHaste, RestartAwaits
  <2>2. CASE ~Run
    BY <1>1, <2>0, <2>2, OtherHolds, RegisterHolds, UnregisterHolds, ChildHolds
       DEF ServerStep, serviceVars, PairingInv
  <2> QED
    BY <2>1, <2>2
<1>2. CASE ServiceStep /\ UNCHANGED <<serverVars, client>>
  <2>1. PICK s \in Service : ServiceStep!(s)
    BY <1>2 DEF ServiceStep
  <2>2. svc[s].children \in SUBSET Conn
    BY SvcType DEF RegistryInv, TypeOK, SvcRecord
  <2> QED
    BY <1>2, <2>1, <2>2, ServiceHolds, HelperHolds DEF PairingInv
<1>3. CASE ClientStep /\ UNCHANGED <<serverVars, serviceVars>>
  BY <1>3, ClientHolds DEF ClientStep
<1>4. CASE \E c \in Conn : ResetConnection(c) \/ StrayRequest(c)
  BY <1>4, EventHolds
<1>5. CASE UNCHANGED vars
  BY <1>5 DEF vars, transportVars, hostVars, netVars, serverVars, serviceVars, HolderInv,
     FarewellsApart, HoldersKnown, Leaving, Leaver, Serves, Told, Holds, Registered,
     Settled, Used
<1> QED
  BY <1>1, <1>2, <1>3, <1>4, <1>5 DEF Next

\* Only a request to unregister ends a registration while spd goes on.
LEMMA OwnUnregisters ==
  ASSUME RegistryInv, HolderInv, [Next]_vars,
         NEW id \in ServerID, Registered(id), serverMap'[id] = NoFd, spd' = "up"
  PROVE  \E s \in Service : /\ svc[s].pc = "exited"
                            /\ svc[s].connection = fdTable[serverMap[id]]
<1>1. serverMap'[id] # serverMap[id]
  BY DEF Registered
<1>2. ServerStep /\ UNCHANGED <<serviceVars, client>>
  BY <1>1 DEF Next, vars, transportVars, serverVars, ResetConnection, StrayRequest
<1>3. ~HandleRegister
  <2>1. requestFd # NoFd => \A jd \in ServerID : registerServer(jd, requestFd)[id] # NoFd
    BY DEF registerServer, Registered, RegistryInv, TypeOK, ServerTypeOK
  <2> QED
    BY <2>1 DEF HandleRegister, Receive, Handling
<1>4. HandleUnregister
  BY <1>1, <1>2, <1>3 DEF ServerStep, Run, AcceptConnection, RecvError, ParseThrows,
     HandleConnect, HandleConnectUnknown, HandleConnectKilled, HandleAnswer,
     HandleUnexpected, Die, ProcessExit, ChildNotify, ChildForward, ChildRelayed,
     ChildKilled, ChildExit, serverVars
<1>5. SettledKept
  BY <1>2, ServerReturnsNone, KeepsSettled
<1> QED
  BY <1>2, <1>4, <1>5, UnregisterHolds DEF Holds, serviceVars

\* HolderInv holds, under these two conditions.
LEMMA HolderInvariant ==
  ASSUME NoHaste, "group" \notin Events
  PROVE  Spec => []HolderInv
<1>1. Init => HolderInv
  BY DEF Init, TransportInit, ServiceInit, HolderInv, FarewellsApart, HoldersKnown, Serves,
     Told, Leaving, Once, Has
<1>2. RegistryInv /\ ChildrenApart /\ NothingLeft /\ PairingInv /\ HolderInv /\ [Next]_vars
        => HolderInv'
  BY HolderStep
<1>3. RegistryInv /\ ChildrenApart /\ NothingLeft /\ PairingInv /\ [Next]_vars => PairingInv'
  BY PairingStep
<1> QED
  BY <1>1, <1>2, <1>3, PairingInit, HostInvariant, PTL DEF Spec

\* While spd is started again only after the service proxies have ended, and no
\* helper gets the signal of its process group: a service proxy that was told it
\* is registered holds the registration of its id for as long as it serves, and
\* until its farewell is handled if it was interrupted, whoever else asks for
\* the id and whatever number its connection has.
THEOREM WhoServesIsRegistered ==
  ASSUME NoHaste, "group" \notin Events
  PROVE  Spec => []ServingIsRegistered
<1>1. HolderInv => ServingIsRegistered
  BY DEF HolderInv, HoldersKnown, Holds, ServingIsRegistered
<1> QED
  BY <1>1, HolderInvariant, PTL

\* While spd is started again only after the service proxies have ended, and no
\* helper gets the signal of its process group: spd gives up a registration only
\* for the service proxy that made it, which was interrupted and has ended.
\* With the requests of helpers that outlive a later registration, or those of
\* service proxies that were registered with the last spd, it need not be so.
THEOREM OnlyOwnUnregisters ==
  ASSUME NoHaste, "group" \notin Events
  PROVE  Spec => UnregistersOwnService
<1>1. RegistryInv /\ HolderInv /\ [Next]_vars =>
        [\A id \in ServerID :
           Registered(id) /\ serverMap'[id] = NoFd /\ spd' = "up"
           => \E s \in Service : /\ svc[s].pc = "exited"
                                 /\ svc[s].connection = fdTable[serverMap[id]]]_vars
  BY OwnUnregisters
<1> QED
  BY <1>1, HolderInvariant, RegistryInvariant, PTL DEF Spec, UnregistersOwnService
=============================================================================
