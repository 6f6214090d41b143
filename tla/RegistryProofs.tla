--------------------------- MODULE RegistryProofs ---------------------------
(***************************************************************************)
(* Proofs that VirtualSocket keeps its types, for every number of          *)
(* processes, connections and descriptors and with every event; that the   *)
(* descriptor numbers spd keeps never go stale; and that spd answers each  *)
(* client once, and drops none unanswered.                                 *)
(***************************************************************************)
EXTENDS VirtualSocketInv, SequenceTheorems, TLAPS

-----------------------------------------------------------------------------
(* Sequences: the queues of the kernel *)

\* Receiving the first of several packets leaves the others.
LEMMA TailPackets ==
  ASSUME NEW S, NEW q \in Seq(S), q # <<>>
  PROVE  /\ Tail(q) \in Seq(S)
         /\ Head(q) \in S
         /\ 1 \in DOMAIN q /\ q[1] = Head(q)
         /\ \A i \in DOMAIN Tail(q) : i + 1 \in DOMAIN q /\ Tail(q)[i] = q[i + 1]
  OBVIOUS

\* Queueing a packet keeps those that are queued.
LEMMA AppendPackets ==
  ASSUME NEW S, NEW q \in Seq(S), NEW p \in S
  PROVE  /\ Append(q, p) \in Seq(S)
         /\ \A i \in DOMAIN Append(q, p) :
              \/ i \in DOMAIN q /\ Append(q, p)[i] = q[i]
              \/ i = Len(q) + 1 /\ Append(q, p)[i] = p
  OBVIOUS

\* One packet, queued alone.
LEMMA OnePacket ==
  ASSUME NEW S, NEW p \in S
  PROVE  <<p>> \in Seq(S) /\ \A i \in DOMAIN <<p>> : <<p>>[i] = p
  OBVIOUS

-----------------------------------------------------------------------------
(* Types: what each call of module Transport does to its variables *)

\* recv() by spd of a queued packet.
LEMMA ConsumeType ==
  ASSUME TransportTypeOK, NEW c, inq[c] # <<>>, Consume(c)
  PROVE  /\ inq' \in [Conn -> Seq(Packet)]
         /\ c \in Conn => Head(inq[c]) \in Packet
<1>1. CASE c \in Conn
  <2>1. inq[c] \in Seq(Packet)
    BY <1>1 DEF TransportTypeOK
  <2>2. Tail(inq[c]) \in Seq(Packet) /\ Head(inq[c]) \in Packet
    BY <2>1, TailPackets
  <2> QED
    BY <2>2 DEF TransportTypeOK, Consume
<1>2. CASE c \notin Conn
  BY <1>2 DEF TransportTypeOK, Consume
<1> QED
  BY <1>1, <1>2

\* recv() by a proxy of a queued packet.
LEMMA PeerReceiveType ==
  ASSUME TransportTypeOK, NEW c \in Conn, outq[c] # <<>>
  PROVE  /\ Head(outq[c]) \in Packet
         /\ PeerReceive(c) => outq' \in [Conn -> Seq(Packet)]
<1>1. outq[c] \in Seq(Packet)
  BY DEF TransportTypeOK
<1>2. Tail(outq[c]) \in Seq(Packet) /\ Head(outq[c]) \in Packet
  BY <1>1, TailPackets
<1> QED
  BY <1>2 DEF TransportTypeOK, PeerReceive

\* send() by a proxy.
LEMMA PeerSendType ==
  ASSUME TransportTypeOK, NEW c, NEW p \in Packet, PeerSend(c, p)
  PROVE  inq' \in [Conn -> Seq(Packet)]
<1>1. CASE c \in Conn
  <2>1. inq[c] \in Seq(Packet)
    BY <1>1 DEF TransportTypeOK
  <2>2. Append(inq[c], p) \in Seq(Packet)
    BY <2>1, AppendPackets
  <2> QED
    BY <2>2, <1>1 DEF TransportTypeOK, PeerSend
<1>2. CASE c \notin Conn
  BY <1>2 DEF TransportTypeOK, PeerSend
<1> QED
  BY <1>1, <1>2

\* send() by spd or by a relay process.
LEMMA SendType ==
  ASSUME TransportTypeOK, NEW c, NEW p \in Packet, Send(c, p)
  PROVE  outq' \in [Conn -> Seq(Packet)] /\ rst' \in [Conn -> {"no", "reset", "pipe"}]
<1>1. CASE c \in Conn
  <2>1. outq[c] \in Seq(Packet)
    BY <1>1 DEF TransportTypeOK
  <2>2. Append(outq[c], p) \in Seq(Packet)
    BY <2>1, AppendPackets
  <2> QED
    BY <2>1, <2>2, <1>1 DEF TransportTypeOK, Send
<1>2. CASE c \notin Conn
  BY <1>2 DEF TransportTypeOK, Send
<1> QED
  BY <1>1, <1>2

\* close() by a proxy, or its end.
LEMMA PeerCloseType ==
  ASSUME TransportTypeOK, NEW cs, PeerClose(cs)
  PROVE  /\ peer' \in [Conn -> {"none", "open", "closed"}]
         /\ rst' \in [Conn -> {"no", "reset", "pipe"}]
         /\ outq' \in [Conn -> Seq(Packet)]
<1>1. <<>> \in Seq(Packet)
  OBVIOUS
<1> QED
  BY <1>1 DEF TransportTypeOK, PeerClose

\* connect() by a proxy.
LEMMA DialType ==
  ASSUME TransportTypeOK, NEW c \in Conn, Dial(c)
  PROVE  /\ backlog' \in Seq(Conn)
         /\ peer' \in [Conn -> {"none", "open", "closed"}]
<1>1. Append(backlog, c) \in Seq(Conn)
  BY AppendPackets DEF TransportTypeOK
<1> QED
  BY <1>1 DEF TransportTypeOK, Dial

\* The packets the programs make are packets.
LEMMA PacketTypes ==
  /\ \A ok \in BOOLEAN : makeResponse(ok) \in Packet
  /\ \A id \in NodeID :
       /\ makeRegisterRequest(id) \in Packet
       /\ makeUnregisterRequest(id) \in Packet
       /\ makeConnectRequest(id) \in Packet
       /\ makeProxyConnectRequest(id) \in Packet
       /\ makeConnectionCreatedRequest(id) \in Packet
       /\ makeConnectionFailedRequest(id) \in Packet
  /\ Payload \in Packet
<1>1. \A ok \in BOOLEAN : makeResponse(ok) \in Packet
  BY DEF makeResponse, Packet, Response, OK, ERROR
<1>2. \A t \in {REGISTER, UNREGISTER, CONNECT, CONNECTION_CREATED, CONNECTION_FAILED},
         id \in NodeID : makeRequest(t, id) \in Packet
  BY DEF makeRequest, Packet, Request
<1> QED
  BY <1>1, <1>2 DEF makeRegisterRequest, makeUnregisterRequest, makeConnectRequest,
     makeProxyConnectRequest, makeConnectionCreatedRequest,
     makeConnectionFailedRequest, Packet

\* The clients' names are the texts of descriptors, and atoi reads them back.
LEMMA ClientNames ==
  /\ \A f : atoi(to_string(f)) = f
  /\ \A x \in ClientID : atoi(x) \in FD /\ x = to_string(atoi(x))
  /\ \A f \in FD : to_string(f) \in ClientID
BY DEF ClientID, to_string, atoi

\* The values for no descriptor and for no connection are neither.
LEMMA NumberTypes ==
  NoFd \notin FD /\ NoConn \notin Conn
BY DEF NoFd, FD, NoConn, Conn

-----------------------------------------------------------------------------
(* TypeOK *)

\* The initial values have their types, and nobody answers anybody.
LEMMA TypeInit == Init => TypeOK /\ HandlesKnown
<1> SUFFICES ASSUME Init PROVE TypeOK /\ HandlesKnown
  OBVIOUS
<1>1. TransportTypeOK
  BY DEF Init, TransportInit, TransportTypeOK
<1>2. ServerTypeOK
  BY ServerAssumption DEF Init, ServerInit, ServerTypeOK
<1>3. ServiceTypeOK
  BY DEF Init, ServiceInit, ServiceTypeOK
<1>4. ClientTypeOK
  BY DEF Init, ClientInit, ClientTypeOK
<1>5. HandlesKnown
  BY DEF Init, ServiceInit, HandlesKnown, SvcReady, HelperReady
<1> QED
  BY <1>1, <1>2, <1>3, <1>4, <1>5 DEF TypeOK

\* What closing descriptors, and the end of a process, leave is typed.
LEMMA HostTypes ==
  ASSUME TransportTypeOK
  PROVE  /\ \A fs : CloseFds(fs) \in [FD -> Conn \cup {NoConn}]
         /\ Open \in SUBSET Conn
         /\ Tail(backlog) \in Seq(Conn) \/ backlog = <<>>
         /\ <<>> \in Seq(Conn)
<1>1. \A fs : CloseFds(fs) \in [FD -> Conn \cup {NoConn}]
  BY DEF TransportTypeOK, CloseFds
<1>2. Tail(backlog) \in Seq(Conn) \/ backlog = <<>>
  BY TailPackets DEF TransportTypeOK
<1> QED
  BY <1>1, <1>2 DEF Open

\* The end of spd keeps the types.
LEMMA DieTypes ==
  ASSUME TransportTypeOK, ServerTypeOK, Die
  PROVE  TransportTypeOK' /\ ServerTypeOK'
<1>1. TransportTypeOK'
  BY HostTypes DEF TransportTypeOK, Die, ProcessExit
<1> QED
  BY <1>1 DEF ServerTypeOK, Die

\* The end of a relay process keeps the types.
LEMMA ChildExitTypes ==
  ASSUME TransportTypeOK, ServerTypeOK, NEW a \in Conn, ChildExit(a),
         outq' \in [Conn -> Seq(Packet)], rst' \in [Conn -> {"no", "reset", "pipe"}]
  PROVE  TransportTypeOK' /\ ServerTypeOK'
<1>1. TransportTypeOK'
  BY HostTypes DEF TransportTypeOK, ChildExit, RelayExit
<1> QED
  BY <1>1 DEF ServerTypeOK, ChildExit

\* Every step of spd and of its relay processes keeps the types.
LEMMA ServerTypes ==
  ASSUME TransportTypeOK, ServerTypeOK, ServerStep
  PROVE  TransportTypeOK' /\ ServerTypeOK'
<1> USE HostTypes, PacketTypes, NumberTypes
<1> DEFINE T == TransportTypeOK' /\ ServerTypeOK'
<1>0. \A id \in ServerID : id \in NodeID
  BY DEF NodeID
<1>1. CASE Run
  <2>1. starts' \in 1 .. MaxStarts
    BY <1>1, ServerAssumption DEF Run, ServerTypeOK
  <2> QED
    BY <1>1, <2>1 DEF Run, TransportTypeOK, ServerTypeOK, netVars
<1>2. CASE AcceptConnection
  <2>1. Head(backlog) \in Conn
    BY <1>2, TailPackets DEF AcceptConnection, TransportTypeOK
  <2> QED
    BY <1>2, <2>1 DEF AcceptConnection, TransportTypeOK, ServerTypeOK
<1>3. CASE RecvError
  BY <1>3 DEF RecvError, TransportTypeOK, ServerTypeOK, hostVars, netVars
<1>4. CASE ParseThrows
  BY <1>4, DieTypes DEF ParseThrows
<1>5. CASE HandleRegister
  <2> PICK id \in ServerID : HandleRegister!(id)
    BY <1>5 DEF HandleRegister
  <2>1. inq' \in [Conn -> Seq(Packet)]
    BY ConsumeType DEF Receive
  <2>2. outq' \in [Conn -> Seq(Packet)] /\ rst' \in [Conn -> {"no", "reset", "pipe"}]
    BY SendType
  <2>3. requestFd \in FD
    BY DEF Receive, Handling, ServerTypeOK
  <2> QED
    BY <2>1, <2>2, <2>3 DEF TransportTypeOK, ServerTypeOK, hostVars, registerServer
<1>6. CASE HandleUnregister
  <2> PICK id \in ServerID : HandleUnregister!(id)
    BY <1>6 DEF HandleUnregister
  <2>1. inq' \in [Conn -> Seq(Packet)]
    BY ConsumeType DEF Receive
  <2>2. outq' \in [Conn -> Seq(Packet)] /\ rst' \in [Conn -> {"no", "reset", "pipe"}]
    BY SendType
  <2> QED
    BY <2>1, <2>2 DEF TransportTypeOK, ServerTypeOK, Erased
<1>7. CASE HandleConnect
  <2> PICK id \in ServerID : HandleConnect!(id)
    BY <1>7 DEF HandleConnect
  <2>1. inq' \in [Conn -> Seq(Packet)]
    BY ConsumeType DEF Receive
  <2>2. requestFd \in FD
    BY DEF Receive, Handling, ServerTypeOK
  <2>3. to_string(requestFd) \in ClientID
    BY <2>2, ClientNames
  <2>4. outq' \in [Conn -> Seq(Packet)] /\ rst' \in [Conn -> {"no", "reset", "pipe"}]
    BY <2>3, SendType DEF NodeID
  <2> QED
    BY <2>1, <2>3, <2>4 DEF TransportTypeOK, ServerTypeOK, hostVars
<1>8. CASE HandleConnectUnknown
  <2> PICK id \in ServerID : HandleConnectUnknown!(id)
    BY <1>8 DEF HandleConnectUnknown
  <2>1. inq' \in [Conn -> Seq(Packet)]
    BY ConsumeType DEF Receive
  <2>2. outq' \in [Conn -> Seq(Packet)] /\ rst' \in [Conn -> {"no", "reset", "pipe"}]
    BY SendType
  <2> QED
    BY <2>1, <2>2 DEF TransportTypeOK, ServerTypeOK
<1>9. CASE HandleConnectKilled
  BY <1>9, DieTypes DEF HandleConnectKilled
<1>10. CASE HandleAnswer
  <2> PICK x \in ClientID, success \in BOOLEAN : HandleAnswer!(x, success)
    BY <1>10 DEF HandleAnswer
  <2>1. inq' \in [Conn -> Seq(Packet)]
    BY ConsumeType DEF Receive
  <2>2. CASE ResolvePending(x, success)
    <3>1. fdTable[atoi(x)] \in Conn \cup {NoConn}
      BY ClientNames DEF TransportTypeOK
    <3>2. child' \in [Conn -> [pc : {"none", "notify", "relay", "exited"},
                               ok : BOOLEAN, client : Conn \cup {NoConn}]]
      BY <2>2, <3>1 DEF ResolvePending, Forked, ServerTypeOK
    <3>3. inherited' \in [Conn -> SUBSET Conn]
      BY <2>2 DEF ResolvePending, TransportTypeOK
    <3> QED
      BY <2>1, <2>2, <3>2, <3>3 DEF ResolvePending, NoLongerPending,
         TransportTypeOK, ServerTypeOK
  <2>3. CASE RefuseAnswer(x)
    <3>1. outq' \in [Conn -> Seq(Packet)] /\ rst' \in [Conn -> {"no", "reset", "pipe"}]
      BY <2>3, SendType DEF RefuseAnswer
    <3> QED
      BY <2>1, <2>3, <3>1 DEF RefuseAnswer, TransportTypeOK, ServerTypeOK
  <2> QED
    BY <2>2, <2>3
<1>11. CASE HandleUnexpected
  <2>1. inq' \in [Conn -> Seq(Packet)]
    BY <1>11, ConsumeType DEF HandleUnexpected, Receive
  <2>2. outq' \in [Conn -> Seq(Packet)] /\ rst' \in [Conn -> {"no", "reset", "pipe"}]
    BY <1>11, SendType DEF HandleUnexpected
  <2> QED
    BY <1>11, <2>1, <2>2 DEF HandleUnexpected, TransportTypeOK, ServerTypeOK
<1>12. ASSUME NEW a \in Conn, ChildNotify(a)
       PROVE  T
  <2>1. child[a].ok \in BOOLEAN
    BY DEF ServerTypeOK
  <2>2. outq' \in [Conn -> Seq(Packet)] /\ rst' \in [Conn -> {"no", "reset", "pipe"}]
    BY <1>12, <2>1, SendType DEF ChildNotify, Notice
  <2>3. CASE child[a].ok
    <3>1. child' = [child EXCEPT ![a].pc = "relay"]
      BY <1>12, <2>3 DEF ChildNotify
    <3>2. child' \in [Conn -> [pc : {"none", "notify", "relay", "exited"},
                               ok : BOOLEAN, client : Conn \cup {NoConn}]]
      BY <3>1 DEF ServerTypeOK
    <3> QED
      BY <1>12, <2>2, <2>3, <3>2 DEF ChildNotify, TransportTypeOK, ServerTypeOK,
         hostVars
  <2>4. CASE ~child[a].ok
    BY <1>12, <2>2, <2>4, ChildExitTypes DEF ChildNotify
  <2> QED
    BY <2>3, <2>4
<1>13. ASSUME NEW a \in Conn, ChildForward(a)
       PROVE  T
  <2>1. inq' \in [Conn -> Seq(Packet)] /\ Head(inq[a]) \in Packet
    BY <1>13, ConsumeType DEF ChildForward
  <2>2. outq' \in [Conn -> Seq(Packet)] /\ rst' \in [Conn -> {"no", "reset", "pipe"}]
    BY <1>13, <2>1, SendType DEF ChildForward
  <2> QED
    BY <1>13, <2>1, <2>2 DEF ChildForward, TransportTypeOK, ServerTypeOK, hostVars,
       serverVars
<1>14. ASSUME NEW a \in Conn, ChildRelayed(a)
       PROVE  T
  BY <1>14, ChildExitTypes DEF ChildRelayed, TransportTypeOK
<1>15. ASSUME NEW a \in Conn, ChildKilled(a)
       PROVE  T
  BY <1>15, ChildExitTypes DEF ChildKilled, TransportTypeOK
<1> QED
  BY <1>1, <1>2, <1>3, <1>4, <1>5, <1>6, <1>7, <1>8, <1>9, <1>10, <1>11, <1>12,
     <1>13, <1>14, <1>15 DEF ServerStep

\* The records of ServiceTypeOK.
SvcRecord ==
  [pc : {"off", "dialled", "awaiting", "serving", "dialling", "forking",
         "stopping", "exited"},
   connection : Conn \cup {NoConn}, clientID : NodeID \cup {<<>>},
   newProxyConnection : Conn \cup {NoConn}, farewell : Conn \cup {NoConn},
   children : SUBSET Conn]
HelperRecord ==
  [pc : {"none", "connecting", "relay", "relayed", "stopping", "exited"},
   clientID : NodeID \cup {<<>>}, reached : BOOLEAN,
   farewell : Conn \cup {NoConn}]

\* The end of a service proxy keeps the types.
LEMMA ExitTypes ==
  ASSUME TransportTypeOK, ServiceTypeOK, NEW s \in Service, NEW cs, Exit(s, cs)
  PROVE  /\ svc' \in [Service -> SvcRecord]
         /\ peer' \in [Conn -> {"none", "open", "closed"}]
         /\ rst' \in [Conn -> {"no", "reset", "pipe"}]
         /\ outq' \in [Conn -> Seq(Packet)]
<1>1. svc' \in [Service -> SvcRecord]
  BY DEF ServiceTypeOK, Exit, SvcRecord
<1> QED
  BY <1>1, PeerCloseType DEF Exit

\* The end of a helper keeps the types.
LEMMA HelperExitTypes ==
  ASSUME TransportTypeOK, ServiceTypeOK, NEW s, NEW a \in Conn, NEW cs,
         HelperExit(s, a, cs)
  PROVE  /\ helper' \in [Conn -> HelperRecord]
         /\ peer' \in [Conn -> {"none", "open", "closed"}]
         /\ rst' \in [Conn -> {"no", "reset", "pipe"}]
         /\ outq' \in [Conn -> Seq(Packet)]
<1>1. helper' \in [Conn -> HelperRecord]
  BY DEF ServiceTypeOK, HelperExit, HelperRecord
<1> QED
  BY <1>1, PeerCloseType DEF HelperExit

\* A step of a service proxy that changes its own record only.
LEMMA SvcUpdate ==
  ASSUME ServiceTypeOK, HandlesKnown, NEW s \in Service, NEW r \in SvcRecord,
         svc' = [svc EXCEPT ![s] = r], UNCHANGED helper, SvcReady(r)
  PROVE  ServiceTypeOK' /\ HandlesKnown'
<1>1. svc \in [Service -> SvcRecord]
  BY DEF ServiceTypeOK, SvcRecord
<1>2. svc' \in [Service -> SvcRecord]
  BY <1>1
<1>3. ServiceTypeOK'
  BY <1>2 DEF ServiceTypeOK, SvcRecord
<1>4. HandlesKnown'
  BY <1>1 DEF HandlesKnown
<1> QED
  BY <1>3, <1>4

\* The state of a service proxy.
LEMMA SvcType ==
  ASSUME ServiceTypeOK, NEW s \in Service
  PROVE  svc[s] \in SvcRecord
BY DEF ServiceTypeOK, SvcRecord

\* A service proxy that only moves on keeps the types.
LEMMA GotoTypes ==
  ASSUME ServiceTypeOK, HandlesKnown, NEW s \in Service, UNCHANGED helper,
         NEW pc \in {"awaiting", "serving", "exited"}, Goto(s, pc),
         pc # "exited" => Alive(s)
  PROVE  ServiceTypeOK' /\ HandlesKnown'
<1> DEFINE r == [svc[s] EXCEPT !.pc = pc]
<1>1. r \in SvcRecord /\ r.pc = pc
  BY SvcType DEF SvcRecord
<1>3. SvcReady(r)
  BY SvcType DEF SvcRecord, HandlesKnown, SvcReady, Alive
<1>2. svc' = [svc EXCEPT ![s] = r]
  BY DEF Goto
<1> HIDE DEF r
<1> QED
  BY <1>1, <1>2, <1>3, SvcUpdate

\* The end of a service proxy is a move.
LEMMA ExitIsGoto ==
  ASSUME NEW s, NEW cs, Exit(s, cs)
  PROVE  Goto(s, "exited")
BY DEF Exit, Goto

\* Every step of a service proxy keeps the types.
LEMMA ServiceTypes ==
  ASSUME TransportTypeOK, ServiceTypeOK, HandlesKnown, NEW s \in Service,
         UNCHANGED hostVars
  PROVE  \/ Connect(s) \/ ConnectRefused(s) \/ SendRegister(s)
         \/ ReadRegisterResponse(s) \/ ReadConnectRequest(s) \/ ReadThrows(s)
         \/ DialProxy(s) \/ DialProxyFails(s) \/ Fork(s) \/ ForkFails(s)
         \/ Interrupt(s) \/ InterruptRefused(s) \/ SendUnregister(s) \/ Crash(s)
         => TransportTypeOK' /\ ServiceTypeOK' /\ HandlesKnown'
<1> DEFINE T == TransportTypeOK' /\ ServiceTypeOK' /\ HandlesKnown'
<1> USE DEF hostVars
<1>0. serviceID[s] \in NodeID
  BY ProcessAssumption DEF NodeID
<1>1. ASSUME Connect(s) PROVE T
  <2>1. PICK c \in Conn : Connect(s)!2!(c)
    BY <1>1 DEF Connect
  <2> DEFINE r == [svc[s] EXCEPT !.pc = "dialled", !.connection = c]
  <2>2. r \in SvcRecord /\ SvcReady(r)
    BY <1>1, NumberTypes, SvcType DEF SvcRecord, HandlesKnown, SvcReady, Connect
  <2>3. svc' = [svc EXCEPT ![s] = r]
    BY <2>1
  <2> HIDE DEF r
  <2>4. ServiceTypeOK' /\ HandlesKnown'
    BY <1>1, <2>2, <2>3, SvcUpdate DEF Connect
  <2> QED
    BY <1>1, <2>1, <2>4, DialType DEF Connect, TransportTypeOK
<1>2. ASSUME ConnectRefused(s) PROVE T
  BY <1>2, GotoTypes DEF ConnectRefused, TransportTypeOK, netVars
<1>3. ASSUME SendRegister(s) PROVE T
  <2>1. inq' \in [Conn -> Seq(Packet)]
    BY <1>3, <1>0, PacketTypes, PeerSendType DEF SendRegister
  <2> QED
    BY <1>3, <2>1, GotoTypes DEF SendRegister, Alive, TransportTypeOK
<1>4. ASSUME ReadRegisterResponse(s) PROVE T
  <2>1. CASE isOK(Head(outq[svc[s].connection]))
    <3>1. outq' \in [Conn -> Seq(Packet)]
      BY <1>4, <2>1, PeerReceiveType DEF ReadRegisterResponse, PeerReceive,
         TransportTypeOK
    <3> QED
      BY <1>4, <2>1, <3>1, GotoTypes DEF ReadRegisterResponse, Alive, TransportTypeOK
  <2>2. CASE ~isOK(Head(outq[svc[s].connection]))
    BY <1>4, <2>2, ExitTypes, ExitIsGoto, GotoTypes
    DEF ReadRegisterResponse, TransportTypeOK
  <2> QED
    BY <2>1, <2>2
<1>5. ASSUME ReadConnectRequest(s) PROVE T
  <2> DEFINE p == Head(outq[svc[s].connection])
             r == [svc[s] EXCEPT !.pc = "dialling", !.clientID = getClientID(p)]
  <2>1. outq' \in [Conn -> Seq(Packet)]
    BY <1>5, PeerReceiveType DEF ReadConnectRequest, PeerReceive, TransportTypeOK
  <2>2. getClientID(p) \in NodeID
    <3>1. svc[s].connection \in Conn
      BY <1>5, SvcType DEF ReadConnectRequest, HandlesKnown, SvcReady, SvcRecord
    <3>2. p \in Packet
      BY <1>5, <3>1, PeerReceiveType DEF ReadConnectRequest
    <3> QED
      BY <1>5, <3>2 DEF ReadConnectRequest, isConnectRequest, HasType, Packet, Request,
         Response, Payload, getClientID
  <2>3. r \in SvcRecord /\ SvcReady(r)
    BY <1>5, <2>2, SvcType DEF ReadConnectRequest, HandlesKnown, SvcReady, SvcRecord
  <2>4. svc' = [svc EXCEPT ![s] = r]
    BY <1>5 DEF ReadConnectRequest
  <2> HIDE DEF r
  <2>5. ServiceTypeOK' /\ HandlesKnown'
    BY <1>5, <2>3, <2>4, SvcUpdate DEF ReadConnectRequest
  <2> QED
    BY <1>5, <2>1, <2>5 DEF ReadConnectRequest, TransportTypeOK
<1>6. ASSUME ReadThrows(s) PROVE T
  BY <1>6, ExitTypes, ExitIsGoto, GotoTypes DEF ReadThrows, TransportTypeOK
<1>7. ASSUME DialProxy(s) PROVE T
  <2>1. PICK a \in Conn : DialProxy(s)!2!(a)
    BY <1>7 DEF DialProxy
  <2> DEFINE r == [svc[s] EXCEPT !.pc = "forking", !.newProxyConnection = a]
  <2>2. r \in SvcRecord /\ SvcReady(r)
    BY <1>7, NumberTypes, SvcType DEF SvcRecord, HandlesKnown, SvcReady, DialProxy
  <2>3. svc' = [svc EXCEPT ![s] = r]
    BY <2>1
  <2> HIDE DEF r
  <2>4. ServiceTypeOK' /\ HandlesKnown'
    BY <1>7, <2>2, <2>3, SvcUpdate DEF DialProxy
  <2> QED
    BY <1>7, <2>1, <2>4, DialType DEF DialProxy, TransportTypeOK
<1>8. ASSUME DialProxyFails(s) PROVE T
  <2> DEFINE r == [svc[s] EXCEPT !.pc = "serving", !.clientID = <<>>]
  <2>2. r \in SvcRecord /\ SvcReady(r)
    BY <1>8, NumberTypes, SvcType DEF SvcRecord, HandlesKnown, SvcReady, DialProxyFails
  <2>3. svc' = [svc EXCEPT ![s] = r]
    BY <1>8 DEF DialProxyFails
  <2> HIDE DEF r
  <2>4. ServiceTypeOK' /\ HandlesKnown'
    BY <1>8, <2>2, <2>3, SvcUpdate DEF DialProxyFails
  <2> QED
    BY <1>8, <2>4 DEF DialProxyFails, TransportTypeOK, netVars
<1>9. ASSUME Fork(s) PROVE T
  <2> DEFINE a == svc[s].newProxyConnection
             r == [svc[s] EXCEPT !.pc = "serving", !.clientID = <<>>,
                     !.newProxyConnection = NoConn, !.children = @ \cup {a}]
             h == [helper[a] EXCEPT !.pc = "connecting", !.clientID = svc[s].clientID]
  <2>1. a \in Conn /\ svc[s].clientID \in NodeID
    BY <1>9, SvcType DEF SvcRecord, HandlesKnown, SvcReady, Fork
  <2>2. r \in SvcRecord /\ SvcReady(r)
    BY <1>9, <2>1, NumberTypes, SvcType DEF SvcRecord, HandlesKnown, SvcReady, Fork
  <2>7. helper[a] \in HelperRecord
    BY <2>1 DEF ServiceTypeOK, HelperRecord
  <2>3. h \in HelperRecord /\ HelperReady(h)
    BY <2>1, <2>7 DEF HelperRecord, HelperReady
  <2>4. svc' = [svc EXCEPT ![s] = r] /\ helper' = [helper EXCEPT ![a] = h]
    BY <1>9 DEF Fork
  <2> HIDE DEF r, h
  <2>5. ServiceTypeOK'
    BY <2>2, <2>3, <2>4 DEF ServiceTypeOK, SvcRecord, HelperRecord
  <2>6. HandlesKnown'
    BY <2>1, <2>2, <2>3, <2>4 DEF HandlesKnown, ServiceTypeOK
  <2> QED
    BY <1>9, <2>5, <2>6 DEF Fork, TransportTypeOK, netVars
<1>10. ASSUME ForkFails(s) PROVE T
  <2> DEFINE r == [svc[s] EXCEPT !.pc = "serving", !.clientID = <<>>,
                               !.newProxyConnection = NoConn]
  <2>2. r \in SvcRecord /\ SvcReady(r)
    BY <1>10, NumberTypes, SvcType DEF SvcRecord, HandlesKnown, SvcReady, ForkFails
  <2>3. svc' = [svc EXCEPT ![s] = r]
    BY <1>10 DEF ForkFails
  <2> HIDE DEF r
  <2>4. ServiceTypeOK' /\ HandlesKnown'
    BY <1>10, <2>2, <2>3, SvcUpdate DEF ForkFails
  <2> QED
    BY <1>10, <2>4, PeerCloseType DEF ForkFails, TransportTypeOK
<1>11. ASSUME Interrupt(s) PROVE T
  <2>1. PICK c \in Conn : Interrupt(s)!3!(c)
    BY <1>11 DEF Interrupt
  <2> DEFINE r == [svc[s] EXCEPT !.pc = "stopping", !.farewell = c]
  <2>2. r \in SvcRecord /\ SvcReady(r)
    BY <1>11, NumberTypes, SvcType DEF SvcRecord, HandlesKnown, SvcReady, Interrupt
  <2>3. svc' = [svc EXCEPT ![s] = r]
    BY <2>1
  <2> HIDE DEF r
  <2>4. ServiceTypeOK' /\ HandlesKnown'
    BY <1>11, <2>2, <2>3, SvcUpdate DEF Interrupt
  <2> QED
    BY <1>11, <2>1, <2>4, DialType DEF Interrupt, TransportTypeOK
<1>12. ASSUME InterruptRefused(s) PROVE T
  BY <1>12, ExitTypes, ExitIsGoto, GotoTypes DEF InterruptRefused, TransportTypeOK
<1>13. ASSUME SendUnregister(s) PROVE T
  <2>1. inq' \in [Conn -> Seq(Packet)]
    BY <1>13, <1>0, PacketTypes, PeerSendType DEF SendUnregister
  <2> QED
    BY <1>13, <2>1, ExitTypes, ExitIsGoto, GotoTypes DEF SendUnregister, TransportTypeOK
<1>14. ASSUME Crash(s) PROVE T
  BY <1>14, ExitTypes, ExitIsGoto, GotoTypes DEF Crash, TransportTypeOK
<1> QED
  BY <1>1, <1>2, <1>3, <1>4, <1>5, <1>6, <1>7, <1>8, <1>9, <1>10, <1>11, <1>12,
     <1>13, <1>14

\* A step of a helper that changes its own record only.
LEMMA HelperUpdate ==
  ASSUME ServiceTypeOK, HandlesKnown, NEW a \in Conn, NEW h \in HelperRecord,
         helper' = [helper EXCEPT ![a] = h], UNCHANGED svc, HelperReady(h)
  PROVE  ServiceTypeOK' /\ HandlesKnown'
<1>1. helper \in [Conn -> HelperRecord]
  BY DEF ServiceTypeOK, HelperRecord
<1>2. helper' \in [Conn -> HelperRecord]
  BY <1>1
<1>3. ServiceTypeOK'
  BY <1>2 DEF ServiceTypeOK, HelperRecord
<1>4. HandlesKnown'
  BY <1>1 DEF HandlesKnown
<1> QED
  BY <1>3, <1>4

\* Every step of a helper keeps the types.
LEMMA HelperTypes ==
  ASSUME TransportTypeOK, ServiceTypeOK, HandlesKnown, NEW s \in Service,
         NEW a \in Conn, UNCHANGED hostVars
  PROVE  \/ HelperConnected(s, a) \/ HelperFailed(s, a) \/ HelperPayload(s, a)
         \/ HelperDone(s, a) \/ HelperInterrupt(s, a) \/ HelperInterruptRefused(s, a)
         \/ HelperUnregister(s, a) \/ HelperCrash(s, a)
         => TransportTypeOK' /\ ServiceTypeOK' /\ HandlesKnown'
<1> DEFINE T == TransportTypeOK' /\ ServiceTypeOK' /\ HandlesKnown'
<1> USE DEF hostVars
<1>0. serviceID[s] \in NodeID
  BY ProcessAssumption DEF NodeID
<1>h. helper[a] \in HelperRecord /\ HelperReady(helper[a])
  BY DEF ServiceTypeOK, HelperRecord, HandlesKnown
<1>p. ASSUME NEW pc \in {"relay", "relayed", "exited"},
             helper' = [helper EXCEPT ![a].pc = pc], UNCHANGED svc
      PROVE  ServiceTypeOK' /\ HandlesKnown'
  <2> DEFINE h == [helper[a] EXCEPT !.pc = pc]
  <2>1. h \in HelperRecord /\ HelperReady(h)
    BY <1>h DEF HelperRecord, HelperReady
  <2>2. helper' = [helper EXCEPT ![a] = h]
    BY <1>p
  <2> HIDE DEF h
  <2> QED
    BY <1>p, <2>1, <2>2, HelperUpdate
<1>x. ASSUME NEW cs, HelperExit(s, a, cs), UNCHANGED <<backlog, svc>>,
             inq' \in [Conn -> Seq(Packet)]
      PROVE  T
  <2>1. ServiceTypeOK' /\ HandlesKnown'
    BY <1>x, <1>p DEF HelperExit
  <2> QED
    BY <1>x, <2>1, HelperExitTypes DEF TransportTypeOK
<1>1. ASSUME HelperConnected(s, a) PROVE T
  <2>1. inq' \in [Conn -> Seq(Packet)]
    BY <1>1, <1>h, PacketTypes, PeerSendType DEF HelperConnected, HelperReady
  <2> DEFINE h == [helper[a] EXCEPT !.pc = "relay", !.reached = TRUE]
  <2>2. h \in HelperRecord /\ HelperReady(h)
    BY <1>h DEF HelperRecord, HelperReady
  <2>3. helper' = [helper EXCEPT ![a] = h]
    BY <1>1 DEF HelperConnected
  <2> HIDE DEF h
  <2>4. ServiceTypeOK' /\ HandlesKnown'
    BY <1>1, <2>2, <2>3, HelperUpdate DEF HelperConnected
  <2> QED
    BY <1>1, <2>1, <2>4 DEF HelperConnected, TransportTypeOK
<1>2. ASSUME HelperFailed(s, a) PROVE T
  <2>1. inq' \in [Conn -> Seq(Packet)]
    BY <1>2, <1>h, PacketTypes, PeerSendType DEF HelperFailed, HelperReady
  <2> QED
    BY <1>2, <1>x, <2>1 DEF HelperFailed
<1>3. ASSUME HelperPayload(s, a) PROVE T
  <2>1. inq' \in [Conn -> Seq(Packet)]
    BY <1>3, PacketTypes, PeerSendType DEF HelperPayload
  <2> QED
    BY <1>3, <1>p, <2>1 DEF HelperPayload, TransportTypeOK
<1>4. ASSUME HelperDone(s, a) PROVE T
  BY <1>4, <1>x DEF HelperDone, TransportTypeOK
<1>5. ASSUME HelperInterrupt(s, a) PROVE T
  <2>1. PICK c \in Conn : HelperInterrupt(s, a)!4!(c)
    BY <1>5 DEF HelperInterrupt
  <2> DEFINE h == [helper[a] EXCEPT !.pc = "stopping", !.farewell = c]
  <2>2. h \in HelperRecord /\ HelperReady(h)
    BY <1>h DEF HelperRecord, HelperReady
  <2>3. helper' = [helper EXCEPT ![a] = h]
    BY <2>1
  <2> HIDE DEF h
  <2>4. ServiceTypeOK' /\ HandlesKnown'
    BY <1>5, <2>2, <2>3, HelperUpdate DEF HelperInterrupt
  <2> QED
    BY <1>5, <2>1, <2>4, DialType DEF HelperInterrupt, TransportTypeOK
<1>6. ASSUME HelperUnregister(s, a) PROVE T
  <2>1. inq' \in [Conn -> Seq(Packet)]
    BY <1>6, <1>0, PacketTypes, PeerSendType DEF HelperUnregister
  <2> QED
    BY <1>6, <1>x, <2>1 DEF HelperUnregister
<1>7. ASSUME HelperCrash(s, a) PROVE T
  BY <1>7, <1>x DEF HelperCrash, TransportTypeOK
<1>8. ASSUME HelperInterruptRefused(s, a) PROVE T
  BY <1>8, <1>x DEF HelperInterruptRefused, TransportTypeOK
<1> QED
  BY <1>1, <1>2, <1>3, <1>4, <1>5, <1>6, <1>7, <1>8

\* Every step of a client proxy keeps the types.
LEMMA ClientTypes ==
  ASSUME TransportTypeOK, ClientTypeOK, NEW k \in Client, UNCHANGED hostVars
  PROVE  \/ ClientConnect(k) \/ ClientConnectRefused(k) \/ SendConnect(k)
         \/ ReadConnectResponse(k) \/ ClientReadThrows(k) \/ ClientRecvFails(k)
         \/ ClientListenFails(k) \/ ClientAccept(k) \/ ClientDone(k) \/ ClientCrash(k)
         => TransportTypeOK' /\ ClientTypeOK'
<1> DEFINE T == TransportTypeOK' /\ ClientTypeOK'
<1> USE DEF hostVars
<1>p. ASSUME NEW pc \in {"waiting", "connected", "relaying", "refused", "exited"}, ClientGoto(k, pc)
      PROVE  ClientTypeOK'
  BY <1>p DEF ClientGoto, ClientTypeOK
<1>x. ASSUME NEW pc \in {"refused", "exited"}, ClientExit(k, pc),
             UNCHANGED <<backlog, inq>>
      PROVE  T
  BY <1>x, <1>p, PeerCloseType DEF ClientExit, TransportTypeOK
<1>1. ASSUME ClientConnect(k) PROVE T
  <2>1. PICK c \in Conn : ClientConnect(k)!2!(c)
    BY <1>1 DEF ClientConnect
  <2>2. ClientTypeOK'
    BY <2>1 DEF ClientTypeOK
  <2> QED
    BY <1>1, <2>1, <2>2, DialType DEF ClientConnect, TransportTypeOK
<1>2. ASSUME ClientConnectRefused(k) PROVE T
  BY <1>2, <1>p DEF ClientConnectRefused, TransportTypeOK, netVars
<1>3. ASSUME SendConnect(k) PROVE T
  <2>1. inq' \in [Conn -> Seq(Packet)]
    BY <1>3, PacketTypes, PeerSendType, ProcessAssumption DEF SendConnect, NodeID
  <2> QED
    BY <1>3, <1>p, <2>1 DEF SendConnect, TransportTypeOK
<1>4. ASSUME ReadConnectResponse(k) PROVE T
  <2>1. CASE isOK(Head(outq[client[k].connection]))
    <3>1. outq' \in [Conn -> Seq(Packet)]
      BY <1>4, <2>1, PeerReceiveType DEF ReadConnectResponse, PeerReceive,
         TransportTypeOK
    <3> QED
      BY <1>4, <1>p, <2>1, <3>1 DEF ReadConnectResponse, TransportTypeOK
  <2>2. CASE ~isOK(Head(outq[client[k].connection]))
    BY <1>4, <1>x, <2>2 DEF ReadConnectResponse
  <2> QED
    BY <2>1, <2>2
<1>5. ASSUME ClientReadThrows(k) PROVE T
  BY <1>5, <1>x DEF ClientReadThrows
<1>6. ASSUME ClientListenFails(k) \/ ClientDone(k) PROVE T
  BY <1>6, <1>x DEF ClientListenFails, ClientDone
<1>7. ASSUME ClientCrash(k) PROVE T
  BY <1>7, <1>x DEF ClientCrash
<1>8. ASSUME ClientRecvFails(k) PROVE T
  BY <1>8, <1>x DEF ClientRecvFails
<1>9. ASSUME ClientAccept(k) PROVE T
  BY <1>9, <1>p DEF ClientAccept, TransportTypeOK, netVars
<1> QED
  BY <1>1, <1>2, <1>3, <1>4, <1>5, <1>6, <1>7, <1>8, <1>9

\* TypeOK is inductive together with HandlesKnown: a helper forked for a
\* request writes its client id back to spd, so it must have one.
LEMMA TypeStep == TypeOK /\ HandlesKnown /\ [Next]_vars => (TypeOK /\ HandlesKnown)'
<1> SUFFICES ASSUME TypeOK, HandlesKnown, [Next]_vars
             PROVE  TypeOK' /\ HandlesKnown'
  OBVIOUS
<1> USE DEF TypeOK
<1>1. CASE ServerStep /\ UNCHANGED <<serviceVars, client>>
  BY <1>1, ServerTypes DEF serviceVars, ServiceTypeOK, ClientTypeOK, HandlesKnown
<1>2. CASE ServiceStep /\ UNCHANGED <<serverVars, client>>
  <2>1. PICK s \in Service : ServiceStep!(s)
    BY <1>2 DEF ServiceStep
  <2>2. UNCHANGED hostVars
    BY <2>1 DEF Connect, ConnectRefused, SendRegister, ReadRegisterResponse,
       ReadConnectRequest, ReadThrows, DialProxy, DialProxyFails, Fork, ForkFails,
       Interrupt, InterruptRefused, SendUnregister, Crash, HelperConnected,
       HelperFailed, HelperPayload, HelperDone, HelperInterrupt, HelperUnregister,
       HelperInterruptRefused, HelperCrash
  <2>3. svc[s].children \in SUBSET Conn
    BY SvcType DEF SvcRecord
  <2>4. TransportTypeOK' /\ ServiceTypeOK' /\ HandlesKnown'
    BY <2>1, <2>2, <2>3, ServiceTypes, HelperTypes
  <2> QED
    BY <1>2, <2>4 DEF serverVars, ServerTypeOK, ClientTypeOK
<1>3. CASE ClientStep /\ UNCHANGED <<serverVars, serviceVars>>
  <2>1. PICK k \in Client : ClientStep!(k)
    BY <1>3 DEF ClientStep
  <2>2. UNCHANGED hostVars
    BY <2>1 DEF ClientConnect, ClientConnectRefused, SendConnect, ReadConnectResponse,
       ClientReadThrows, ClientRecvFails, ClientListenFails, ClientAccept, ClientDone, ClientCrash
  <2>3. TransportTypeOK' /\ ClientTypeOK'
    BY <2>1, <2>2, ClientTypes
  <2> QED
    BY <1>3, <2>3 DEF serverVars, serviceVars, ServerTypeOK, ServiceTypeOK, HandlesKnown
<1>4. ASSUME NEW c \in Conn, ResetConnection(c) \/ StrayRequest(c)
      PROVE  TypeOK' /\ HandlesKnown'
  <2>1. UNCHANGED <<serverVars, serviceVars, client>>
    BY <1>4 DEF ResetConnection, StrayRequest
  <2>2. TransportTypeOK'
    <3>1. CASE ResetConnection(c)
      BY <3>1 DEF ResetConnection, TransportTypeOK, hostVars
    <3>2. CASE StrayRequest(c)
      <4>1. makeResponse(TRUE) \in Packet
        BY PacketTypes
      <4>2. <<makeResponse(TRUE)>> \in Seq(Packet)
        BY <4>1, OnePacket
      <4> QED
        BY <3>2, <4>2, DialType DEF StrayRequest, TransportTypeOK, hostVars
    <3> QED
      BY <1>4, <3>1, <3>2
  <2> QED
    BY <2>1, <2>2 DEF serverVars, serviceVars, ServerTypeOK, ServiceTypeOK,
       ClientTypeOK, HandlesKnown
<1>5. CASE UNCHANGED vars
  BY <1>5 DEF vars, transportVars, hostVars, netVars, serverVars, serviceVars,
     TransportTypeOK, ServerTypeOK, ServiceTypeOK, ClientTypeOK, HandlesKnown
<1> QED
  BY <1>1, <1>2, <1>3, <1>4, <1>5 DEF Next

\* In every reachable state the variables have values of their types: the
\* packets are those of protocol.cpp, and what spd reads back from a packet as
\* a descriptor is one.
THEOREM TypeCorrect == Spec => []TypeOK
<1>1. Spec => [](TypeOK /\ HandlesKnown)
  BY TypeInit, TypeStep, PTL DEF Spec
<1> QED
  BY <1>1, PTL

-----------------------------------------------------------------------------
(* What the steps of the peers have in common *)

\* No connection is forgotten.
StaysUsed == \A c \in Conn : Used(c) => peer'[c] # "none"

\* A proxy keeps its connection, once it has one.
OwnersKept ==
  /\ \A s \in Service : svc[s].connection # NoConn =>
                          svc'[s].connection = svc[s].connection
  /\ \A k \in Client : client[k].connection # NoConn =>
                          client'[k].connection = client[k].connection

\* No proxy gets a connection, or is started again.
SameOwners ==
  /\ \A s \in Service : /\ svc'[s].connection = svc[s].connection
                        /\ svc'[s].pc = "off" => svc[s].pc = "off"
  /\ \A k \in Client : /\ client'[k].connection = client[k].connection
                       /\ client'[k].pc = "off" => client[k].pc = "off"

\* A packet that no owner has to answer for.
Unowned(p) ==
  \A id \in ServerID : p # makeRegisterRequest(id) /\ p # makeConnectRequest(id)

\* A connection that is dialled was not used before, and is then.
LEMMA DialUses ==
  ASSUME TransportTypeOK, NEW c \in Conn, Dial(c)
  PROVE  ~Used(c) /\ peer'[c] # "none" /\ StaysUsed
BY DEF TransportTypeOK, Dial, Fresh, Used, StaysUsed

\* Closing connections forgets none.
LEMMA CloseUses ==
  ASSUME TransportTypeOK, NEW cs, PeerClose(cs)
  PROVE  StaysUsed
BY DEF TransportTypeOK, PeerClose, Used, StaysUsed

\* A step that gives no proxy a connection keeps the owners apart.
LEMMA OwnersSame ==
  ASSUME TypeOK, OwnersDistinct, SameOwners, StaysUsed
  PROVE  OwnersDistinct' /\ OwnersKept
<1>1. \A s \in Service : svc[s].connection \in Conn \cup {NoConn}
  BY SvcType DEF TypeOK, SvcRecord
<1>2. \A k \in Client : client[k].connection \in Conn \cup {NoConn}
  BY DEF TypeOK, ClientTypeOK
<1> QED
  BY <1>1, <1>2 DEF OwnersDistinct, SameOwners, OwnersKept, StaysUsed, Used

\* The owners stay apart when a service proxy connects: nobody used the
\* connection before.
LEMMA OwnersConnect ==
  ASSUME TypeOK, OwnersDistinct, NEW s \in Service, Connect(s), UNCHANGED client
  PROVE  OwnersDistinct' /\ OwnersKept /\ StaysUsed
<1>1. PICK c \in Conn : Connect(s)!2!(c)
  BY DEF Connect
<1>2. ~Used(c) /\ peer'[c] # "none" /\ StaysUsed
  BY <1>1, DialUses DEF TypeOK
<1>3. svc[s].connection = NoConn /\ c # NoConn
  BY NumberTypes DEF Connect, OwnersDistinct
<1>4. /\ svc'[s].connection = c /\ svc'[s].pc = "dialled"
      /\ \A t \in Service \ {s} : svc'[t] = svc[t]
  BY <1>1 DEF TypeOK, ServiceTypeOK
<1>5. /\ \A t \in Service : svc[t].connection \in Conn \cup {NoConn} /\ svc[t].connection # c
      /\ \A k \in Client : client[k].connection \in Conn \cup {NoConn}
                           /\ client[k].connection # c
  BY <1>2, <1>3, SvcType DEF TypeOK, SvcRecord, ClientTypeOK, OwnersDistinct
<1>6. OwnersDistinct'
  BY <1>2, <1>3, <1>4, <1>5 DEF OwnersDistinct, StaysUsed, Used
<1> QED
  BY <1>2, <1>3, <1>4, <1>6 DEF OwnersKept

\* The same for a client proxy.
LEMMA OwnersClientConnect ==
  ASSUME TypeOK, OwnersDistinct, NEW k \in Client, ClientConnect(k), UNCHANGED svc
  PROVE  OwnersDistinct' /\ OwnersKept /\ StaysUsed
<1>1. PICK c \in Conn : ClientConnect(k)!2!(c)
  BY DEF ClientConnect
<1>2. ~Used(c) /\ peer'[c] # "none" /\ StaysUsed
  BY <1>1, DialUses DEF TypeOK
<1>3. client[k].connection = NoConn /\ c # NoConn
  BY NumberTypes DEF ClientConnect, OwnersDistinct
<1>4. /\ client'[k].connection = c /\ client'[k].pc = "dialled"
      /\ \A j \in Client \ {k} : client'[j] = client[j]
  BY <1>1 DEF TypeOK, ClientTypeOK
<1>5. /\ \A t \in Service : svc[t].connection \in Conn \cup {NoConn} /\ svc[t].connection # c
      /\ \A j \in Client : client[j].connection \in Conn \cup {NoConn}
                           /\ client[j].connection # c
  BY <1>2, <1>3, SvcType DEF TypeOK, SvcRecord, ClientTypeOK, OwnersDistinct
<1>6. OwnersDistinct'
  BY <1>2, <1>3, <1>4, <1>5 DEF OwnersDistinct, StaysUsed, Used
<1> QED
  BY <1>2, <1>3, <1>4, <1>6 DEF OwnersKept

-----------------------------------------------------------------------------
(* Packets and their senders *)

\* A step that queues no packet keeps the owners of those queued.
LEMMA PacketsKept ==
  ASSUME PacketsOwned, OwnersKept, UNCHANGED inq
  PROVE  PacketsOwned'
<1>1. \A c \in Conn : c # NoConn
  BY NumberTypes
<1> QED
  BY <1>1 DEF PacketsOwned, OwnersKept

\* Nor does sending one that its owner sends, or that needs none.
LEMMA PacketsSent ==
  ASSUME TypeOK, PacketsOwned, OwnersKept, NEW c, NEW p \in Packet, PeerSend(c, p),
         \A id \in ServerID :
           /\ p = makeRegisterRequest(id) =>
                \E s \in Service : serviceID[s] = id /\ svc[s].connection = c
           /\ p = makeConnectRequest(id) =>
                \E k \in Client : wantedID[k] = id /\ client[k].connection = c
  PROVE  PacketsOwned'
<1>1. SUFFICES ASSUME NEW d \in Conn, NEW i \in DOMAIN inq'[d], NEW id \in ServerID
               PROVE  /\ inq'[d][i] = makeRegisterRequest(id) =>
                           \E s \in Service : serviceID[s] = id /\ svc'[s].connection = d
                      /\ inq'[d][i] = makeConnectRequest(id) =>
                           \E k \in Client : wantedID[k] = id /\ client'[k].connection = d
  BY DEF PacketsOwned
<1>2. inq[d] \in Seq(Packet) /\ d # NoConn
  BY NumberTypes DEF TypeOK, TransportTypeOK
<1>3. \/ i \in DOMAIN inq[d] /\ inq'[d][i] = inq[d][i]
      \/ d = c /\ inq'[d][i] = p
  <2>1. CASE inq'[d] = inq[d]
    BY <2>1
  <2>2. CASE d = c /\ inq'[d] = Append(inq[d], p)
    BY <1>2, <2>2, AppendPackets
  <2> QED
    BY <2>1, <2>2 DEF PeerSend, TypeOK, TransportTypeOK
<1>4. CASE i \in DOMAIN inq[d] /\ inq'[d][i] = inq[d][i]
  BY <1>2, <1>4 DEF PacketsOwned, OwnersKept
<1>5. CASE d = c /\ inq'[d][i] = p
  BY <1>2, <1>5 DEF OwnersKept
<1> QED
  BY <1>3, <1>4, <1>5

\* Receiving one leaves the others theirs.
LEMMA PacketsConsumed ==
  ASSUME TypeOK, PacketsOwned, UNCHANGED <<svc, client>>, NEW c, inq[c] # <<>>,
         Consume(c)
  PROVE  PacketsOwned'
<1>1. SUFFICES ASSUME NEW d \in Conn, NEW i \in DOMAIN inq'[d]
               PROVE  \E j \in DOMAIN inq[d] : inq'[d][i] = inq[d][j]
  BY DEF PacketsOwned
<1>2. CASE d = c
  <2>1. inq[d] \in Seq(Packet) /\ inq'[d] = Tail(inq[d])
    BY <1>2 DEF TypeOK, TransportTypeOK, Consume
  <2>2. i + 1 \in DOMAIN inq[d] /\ inq'[d][i] = inq[d][i + 1]
    BY <1>2, <2>1, TailPackets
  <2> QED
    BY <2>2
<1>3. CASE d # c
  BY <1>3 DEF TypeOK, TransportTypeOK, Consume
<1> QED
  BY <1>2, <1>3

\* What a helper or an interrupt handler sends is no register or connect
\* request, whatever id it names.
LEMMA UnownedPackets ==
  \A id : /\ Unowned(makeUnregisterRequest(id))
          /\ Unowned(makeConnectionCreatedRequest(id))
          /\ Unowned(makeConnectionFailedRequest(id))
          /\ Unowned(Payload) /\ Unowned(makeResponse(TRUE))
BY DEF Unowned, makeUnregisterRequest, makeConnectionCreatedRequest,
   makeConnectionFailedRequest, makeRegisterRequest, makeConnectRequest, makeRequest,
   Payload, makeResponse, REGISTER, UNREGISTER, CONNECT, CONNECTION_CREATED,
   CONNECTION_FAILED

\* A register request names what it registers, and is no connect request.
LEMMA RequestNames ==
  \A id, jd : /\ makeRegisterRequest(id) = makeRegisterRequest(jd) => id = jd
              /\ makeConnectRequest(id) = makeConnectRequest(jd) => id = jd
              /\ makeRegisterRequest(id) # makeConnectRequest(jd)
BY DEF makeRegisterRequest, makeConnectRequest, makeRequest, REGISTER, CONNECT

-----------------------------------------------------------------------------
(* The steps of the peers *)

\* What a step of a peer may do to the spd host: queue a connection nobody used.
PeerStepOK ==
  /\ UNCHANGED <<hostVars, serverVars>>
  /\ UNCHANGED backlog \/ \E c \in Conn : Dial(c)
  /\ StaysUsed
  /\ OwnersDistinct' /\ OwnersKept
  /\ PacketsOwned'

\* Such a step keeps the invariant.
LEMMA PeerStep ==
  ASSUME RegistryInv, TypeOK', HandlesKnown', PeerStepOK
  PROVE  RegistryInv'
<1> USE DEF RegistryInv, PeerStepOK, hostVars, serverVars
<1>1. HostConsistent'
  <2>1. CASE UNCHANGED backlog
    BY <2>1 DEF HostConsistent, StaysUsed, Used, TypeOK, TransportTypeOK
  <2>2. ASSUME NEW c \in Conn, Dial(c)
        PROVE  HostConsistent'
    <3>1. ~Used(c) /\ peer'[c] # "none"
      BY <2>2, DialUses DEF TypeOK
    <3>2. backlog \in Seq(Conn) /\ backlog' = Append(backlog, c)
      BY <2>2 DEF Dial, TypeOK, TransportTypeOK
    <3>3. \A i \in DOMAIN backlog' :
            \/ i \in DOMAIN backlog /\ backlog'[i] = backlog[i]
            \/ i = Len(backlog) + 1 /\ backlog'[i] = c
      BY <3>2, AppendPackets
    <3>4. \A i \in DOMAIN backlog : backlog[i] \in Conn /\ backlog[i] # c
      BY <3>1, <3>2 DEF HostConsistent
    <3>5. \A f \in FD : fdTable[f] # c
      BY <3>1, NumberTypes DEF HostConsistent
    <3>6. \A i \in DOMAIN backlog' : peer'[backlog'[i]] # "none"
      BY <3>1, <3>3, <3>4 DEF HostConsistent, StaysUsed, Used
    <3>7. \A f \in FD : fdTable[f] # NoConn => peer'[fdTable[f]] # "none"
      BY DEF HostConsistent, StaysUsed, Used, TypeOK, TransportTypeOK
    <3>8. \A i, j \in DOMAIN backlog' : backlog'[i] = backlog'[j] => i = j
      BY <3>3, <3>4 DEF HostConsistent
    <3>9. \A i \in DOMAIN backlog', f \in FD : backlog'[i] # fdTable[f]
      BY <3>3, <3>5 DEF HostConsistent
    <3> QED
      BY <3>6, <3>7, <3>8, <3>9 DEF HostConsistent, Used
  <2> QED
    BY <2>1, <2>2
<1>2. HandlingFresh' /\ DownIsEmpty'
  BY DEF HandlingFresh, DownIsEmpty
<1>3. DescriptorsNotStale'
  BY NumberTypes DEF DescriptorsNotStale, RegistryNotStale, PendingNotStale, Registered,
     OpenAt, OwnersKept
<1> QED
  BY <1>1, <1>2, <1>3

\* Sending an unowned packet keeps the owners of all.
LEMMA UnownedSent ==
  ASSUME TypeOK, PacketsOwned, OwnersKept, NEW c, NEW p \in Packet, PeerSend(c, p),
         Unowned(p)
  PROVE  PacketsOwned'
BY PacketsSent DEF Unowned

\* A service proxy that only moves on gets no connection.
LEMMA GotoSameOwners ==
  ASSUME TypeOK, UNCHANGED client, NEW s \in Service,
         NEW pc \in {"awaiting", "serving", "exited"}, Goto(s, pc)
  PROVE  SameOwners
BY DEF SameOwners, TypeOK, ServiceTypeOK, Goto

\* A service proxy's steps touch the spd host as a peer may.
LEMMA ServicePeer ==
  ASSUME RegistryInv, NEW s \in Service, UNCHANGED <<serverVars, client>>
  PROVE  \/ Connect(s) \/ ConnectRefused(s) \/ SendRegister(s)
         \/ ReadRegisterResponse(s) \/ ReadConnectRequest(s) \/ ReadThrows(s)
         \/ DialProxy(s) \/ DialProxyFails(s) \/ Fork(s) \/ ForkFails(s)
         \/ Interrupt(s) \/ InterruptRefused(s) \/ SendUnregister(s) \/ Crash(s)
         => PeerStepOK
<1> USE DEF RegistryInv
<1>0. serviceID[s] \in NodeID
  BY ProcessAssumption DEF NodeID
<1>r. svc[s] \in SvcRecord
  BY SvcType DEF TypeOK
<1>u. UNCHANGED peer => StaysUsed
  BY DEF StaysUsed, Used
<1>o. ASSUME SameOwners, StaysUsed, UNCHANGED <<hostVars, inq>>,
             UNCHANGED backlog \/ \E c \in Conn : Dial(c)
      PROVE  PeerStepOK
  BY <1>o, OwnersSame, PacketsKept DEF PeerStepOK
<1>e. ASSUME NEW cs, Exit(s, cs)
      PROVE  SameOwners /\ StaysUsed
  BY <1>e, ExitIsGoto, GotoSameOwners, CloseUses DEF Exit, TypeOK
<1>1. ASSUME Connect(s) PROVE PeerStepOK
  <2>1. OwnersDistinct' /\ OwnersKept /\ StaysUsed
    BY <1>1, OwnersConnect
  <2> QED
    BY <1>1, <2>1, PacketsKept DEF PeerStepOK, Connect
<1>2. ASSUME ConnectRefused(s) PROVE PeerStepOK
  BY <1>2, <1>o, <1>u, GotoSameOwners DEF ConnectRefused, netVars
<1>3. ASSUME SendRegister(s) PROVE PeerStepOK
  <2>1. SameOwners /\ StaysUsed
    BY <1>3, <1>u, GotoSameOwners DEF SendRegister
  <2>2. OwnersDistinct' /\ OwnersKept
    BY <2>1, OwnersSame
  <2>3. PacketsOwned'
    BY <1>3, <1>0, <2>2, PacketsSent, PacketTypes, RequestNames DEF SendRegister
  <2> QED
    BY <1>3, <2>1, <2>2, <2>3 DEF PeerStepOK, SendRegister
<1>4. ASSUME ReadRegisterResponse(s) PROVE PeerStepOK
  BY <1>4, <1>o, <1>u, <1>e, GotoSameOwners DEF ReadRegisterResponse
<1>5. ASSUME ReadConnectRequest(s) PROVE PeerStepOK
  <2>1. SameOwners
    BY <1>5 DEF ReadConnectRequest, SameOwners, TypeOK, ServiceTypeOK
  <2> QED
    BY <1>5, <2>1, <1>o, <1>u DEF ReadConnectRequest
<1>6. ASSUME ReadThrows(s) PROVE PeerStepOK
  BY <1>6, <1>o, <1>e DEF ReadThrows
<1>7. ASSUME DialProxy(s) PROVE PeerStepOK
  <2>1. PICK a \in Conn : DialProxy(s)!2!(a)
    BY <1>7 DEF DialProxy
  <2>2. SameOwners
    BY <1>7, <2>1 DEF SameOwners, TypeOK, ServiceTypeOK
  <2> QED
    BY <1>7, <2>1, <2>2, <1>o, DialUses DEF DialProxy, TypeOK
<1>8. ASSUME DialProxyFails(s) PROVE PeerStepOK
  <2>1. SameOwners
    BY <1>8 DEF DialProxyFails, SameOwners, TypeOK, ServiceTypeOK
  <2> QED
    BY <1>8, <2>1, <1>o, <1>u DEF DialProxyFails, netVars
<1>9. ASSUME Fork(s) PROVE PeerStepOK
  <2>1. SameOwners
    BY <1>9 DEF Fork, SameOwners, TypeOK, ServiceTypeOK
  <2> QED
    BY <1>9, <2>1, <1>o, <1>u DEF Fork, netVars
<1>10. ASSUME ForkFails(s) PROVE PeerStepOK
  <2>1. SameOwners
    BY <1>10 DEF ForkFails, SameOwners, TypeOK, ServiceTypeOK
  <2> QED
    BY <1>10, <2>1, <1>o, CloseUses DEF ForkFails, TypeOK
<1>11. ASSUME Interrupt(s) PROVE PeerStepOK
  <2>1. PICK c \in Conn : Interrupt(s)!3!(c)
    BY <1>11 DEF Interrupt
  <2>2. SameOwners
    BY <1>11, <2>1 DEF SameOwners, TypeOK, ServiceTypeOK
  <2> QED
    BY <1>11, <2>1, <2>2, <1>o, DialUses DEF Interrupt, TypeOK
<1>12. ASSUME InterruptRefused(s) PROVE PeerStepOK
  BY <1>12, <1>o, <1>e DEF InterruptRefused
<1>13. ASSUME SendUnregister(s) PROVE PeerStepOK
  <2>1. SameOwners /\ StaysUsed
    BY <1>13, <1>e DEF SendUnregister
  <2>2. OwnersDistinct' /\ OwnersKept
    BY <2>1, OwnersSame
  <2>3. PacketsOwned'
    BY <1>13, <1>0, <2>2, UnownedSent, PacketTypes, UnownedPackets DEF SendUnregister
  <2> QED
    BY <1>13, <2>1, <2>2, <2>3 DEF PeerStepOK, SendUnregister
<1>14. ASSUME Crash(s) PROVE PeerStepOK
  BY <1>14, <1>o, <1>e DEF Crash
<1> QED
  BY <1>1, <1>2, <1>3, <1>4, <1>5, <1>6, <1>7, <1>8, <1>9, <1>10, <1>11, <1>12,
     <1>13, <1>14

\* So do a helper's.
LEMMA HelperPeer ==
  ASSUME RegistryInv, NEW s \in Service, NEW a \in Conn,
         UNCHANGED <<serverVars, client>>
  PROVE  \/ HelperConnected(s, a) \/ HelperFailed(s, a) \/ HelperPayload(s, a)
         \/ HelperDone(s, a) \/ HelperInterrupt(s, a) \/ HelperInterruptRefused(s, a)
         \/ HelperUnregister(s, a) \/ HelperCrash(s, a)
         => PeerStepOK
<1> USE DEF RegistryInv
<1>0. serviceID[s] \in NodeID
  BY ProcessAssumption DEF NodeID
<1>h. HelperReady(helper[a])
  BY DEF HandlesKnown
<1>u. UNCHANGED peer => StaysUsed
  BY DEF StaysUsed, Used
<1>e. ASSUME NEW cs, HelperExit(s, a, cs)
      PROVE  StaysUsed
  BY <1>e, CloseUses DEF HelperExit, TypeOK
<1>s. ASSUME UNCHANGED svc, StaysUsed
      PROVE  OwnersDistinct' /\ OwnersKept
  BY <1>s, OwnersSame DEF SameOwners
<1>o. ASSUME StaysUsed, UNCHANGED <<hostVars, inq, svc>>,
             UNCHANGED backlog \/ \E c \in Conn : Dial(c)
      PROVE  PeerStepOK
  BY <1>o, <1>s, PacketsKept DEF PeerStepOK
<1>p. ASSUME StaysUsed, UNCHANGED <<hostVars, backlog, svc>>, NEW c,
             NEW p \in Packet, PeerSend(c, p), Unowned(p)
      PROVE  PeerStepOK
  BY <1>p, <1>s, UnownedSent DEF PeerStepOK
<1>1. ASSUME HelperConnected(s, a) PROVE PeerStepOK
  BY <1>1, <1>h, <1>u, <1>p, PacketTypes, UnownedPackets DEF HelperConnected, HelperReady
<1>2. ASSUME HelperFailed(s, a) PROVE PeerStepOK
  BY <1>2, <1>h, <1>e, <1>p, PacketTypes, UnownedPackets DEF HelperFailed, HelperReady
<1>3. ASSUME HelperPayload(s, a) PROVE PeerStepOK
  BY <1>3, <1>u, <1>p, PacketTypes, UnownedPackets DEF HelperPayload
<1>4. ASSUME HelperDone(s, a) PROVE PeerStepOK
  BY <1>4, <1>e, <1>o DEF HelperDone
<1>5. ASSUME HelperInterrupt(s, a) PROVE PeerStepOK
  <2>1. PICK c \in Conn : Dial(c)
    BY <1>5 DEF HelperInterrupt
  <2> QED
    BY <1>5, <2>1, <1>o, DialUses DEF HelperInterrupt, TypeOK
<1>6. ASSUME HelperUnregister(s, a) PROVE PeerStepOK
  BY <1>6, <1>0, <1>e, <1>p, PacketTypes, UnownedPackets DEF HelperUnregister
<1>7. ASSUME HelperCrash(s, a) PROVE PeerStepOK
  BY <1>7, <1>e, <1>o DEF HelperCrash
<1>8. ASSUME HelperInterruptRefused(s, a) PROVE PeerStepOK
  BY <1>8, <1>e, <1>o DEF HelperInterruptRefused
<1> QED
  BY <1>1, <1>2, <1>3, <1>4, <1>5, <1>6, <1>7, <1>8

\* And a client proxy's.
LEMMA ClientPeer ==
  ASSUME RegistryInv, NEW k \in Client, UNCHANGED <<serverVars, svc>>
  PROVE  \/ ClientConnect(k) \/ ClientConnectRefused(k) \/ SendConnect(k)
         \/ ReadConnectResponse(k) \/ ClientReadThrows(k) \/ ClientRecvFails(k)
         \/ ClientListenFails(k) \/ ClientAccept(k) \/ ClientDone(k) \/ ClientCrash(k)
         => PeerStepOK
<1> USE DEF RegistryInv
<1>0. wantedID[k] \in NodeID
  BY ProcessAssumption DEF NodeID
<1>u. UNCHANGED peer => StaysUsed
  BY DEF StaysUsed, Used
<1>g. ASSUME NEW pc \in {"waiting", "connected", "relaying", "refused", "exited"}, ClientGoto(k, pc)
      PROVE  SameOwners
  BY <1>g DEF SameOwners, TypeOK, ClientTypeOK, ClientGoto
<1>o. ASSUME SameOwners, StaysUsed, UNCHANGED <<hostVars, inq, backlog>>
      PROVE  PeerStepOK
  BY <1>o, OwnersSame, PacketsKept DEF PeerStepOK
<1>e. ASSUME NEW pc \in {"refused", "exited"}, ClientExit(k, pc)
      PROVE  SameOwners /\ StaysUsed
  BY <1>e, <1>g, CloseUses DEF ClientExit, TypeOK
<1>1. ASSUME ClientConnect(k) PROVE PeerStepOK
  <2>1. OwnersDistinct' /\ OwnersKept /\ StaysUsed
    BY <1>1, OwnersClientConnect
  <2> QED
    BY <1>1, <2>1, PacketsKept DEF PeerStepOK, ClientConnect
<1>2. ASSUME ClientConnectRefused(k) PROVE PeerStepOK
  BY <1>2, <1>g, <1>u, <1>o DEF ClientConnectRefused, netVars
<1>3. ASSUME SendConnect(k) PROVE PeerStepOK
  <2>1. SameOwners /\ StaysUsed
    BY <1>3, <1>g, <1>u DEF SendConnect
  <2>2. OwnersDistinct' /\ OwnersKept
    BY <2>1, OwnersSame
  <2>3. PacketsOwned'
    BY <1>3, <1>0, <2>2, PacketsSent, PacketTypes, RequestNames DEF SendConnect
  <2> QED
    BY <1>3, <2>1, <2>2, <2>3 DEF PeerStepOK, SendConnect
<1>4. ASSUME ReadConnectResponse(k) PROVE PeerStepOK
  BY <1>4, <1>g, <1>u, <1>e, <1>o DEF ReadConnectResponse
<1>5. ASSUME ClientReadThrows(k) PROVE PeerStepOK
  BY <1>5, <1>e, <1>o DEF ClientReadThrows
<1>6. ASSUME ClientListenFails(k) \/ ClientDone(k) PROVE PeerStepOK
  BY <1>6, <1>e, <1>o DEF ClientListenFails, ClientDone
<1>7. ASSUME ClientCrash(k) PROVE PeerStepOK
  BY <1>7, <1>e, <1>o DEF ClientCrash
<1>8. ASSUME ClientRecvFails(k) PROVE PeerStepOK
  BY <1>8, <1>e, <1>o DEF ClientRecvFails
<1>9. ASSUME ClientAccept(k) PROVE PeerStepOK
  BY <1>9, <1>g, <1>u, <1>o DEF ClientAccept, netVars
<1> QED
  BY <1>1, <1>2, <1>3, <1>4, <1>5, <1>6, <1>7, <1>8, <1>9

-----------------------------------------------------------------------------
(* The steps of spd *)

\* The packets are the same, or one was received.
OneReceived == UNCHANGED inq \/ \E c : inq[c] # <<>> /\ Consume(c)

\* No step of spd dials, or touches a proxy.
LEMMA ServerFrame ==
  ASSUME RegistryInv, UNCHANGED <<peer, svc, client>>, OneReceived
  PROVE  OwnersDistinct' /\ PacketsOwned'
<1>1. OwnersDistinct'
  BY DEF RegistryInv, OwnersDistinct, Used
<1>2. PacketsOwned'
  BY PacketsConsumed DEF RegistryInv, OneReceived, PacketsOwned
<1> QED
  BY <1>1, <1>2

\* Closing descriptors that nothing refers to any more, between two requests.
LEMMA ClosingStep ==
  ASSUME RegistryInv, TypeOK', HandlesKnown', UNCHANGED <<peer, svc, client, backlog, spd>>,
         OneReceived, spd = "up", requestFd' = NoFd,
         NEW fs, fdTable' = CloseFds(fs),
         \A id \in ServerID : serverMap'[id] # NoFd =>
           serverMap'[id] = serverMap[id] /\ serverMap[id] \notin fs,
         \A x \in pendingConnections' : x \in pendingConnections /\ atoi(x) \notin fs
  PROVE  RegistryInv'
<1> USE DEF RegistryInv
<1>1. OwnersDistinct' /\ PacketsOwned'
  BY ServerFrame
<1>2. HostConsistent'
  BY NumberTypes DEF HostConsistent, CloseFds, Used, TypeOK, TransportTypeOK
<1>3. HandlingFresh' /\ DownIsEmpty'
  BY DEF HandlingFresh, DownIsEmpty
<1>4. RegistryNotStale'
  BY DEF DescriptorsNotStale, RegistryNotStale, Registered, OpenAt, CloseFds
<1>5. PendingNotStale'
  BY DEF DescriptorsNotStale, PendingNotStale, OpenAt, CloseFds
<1> QED
  BY <1>1, <1>2, <1>3, <1>4, <1>5 DEF DescriptorsNotStale

\* A process that ends keeps no number at all.
LEMMA DieStep ==
  ASSUME RegistryInv, TypeOK', HandlesKnown', Die, UNCHANGED <<svc, client>>
  PROVE  RegistryInv'
<1> USE DEF RegistryInv
<1>1. OwnersDistinct' /\ PacketsOwned'
  BY ServerFrame DEF Die, OneReceived
<1>2. HostConsistent'
  <2>1. peer' = peer /\ \A f \in FD : fdTable'[f] = NoConn
    BY DEF Die, ProcessExit
  <2>2. CASE backlog' = <<>>
    BY <2>1, <2>2 DEF HostConsistent
  <2>3. CASE backlog' = backlog
    <3>1. \A i \in DOMAIN backlog : backlog[i] # NoConn
      BY NumberTypes DEF TypeOK, TransportTypeOK
    <3> QED
      BY <2>1, <2>3, <3>1 DEF HostConsistent, Used
  <2> QED
    BY <2>2, <2>3 DEF Die, ProcessExit
<1>3. HandlingFresh' /\ DownIsEmpty' /\ DescriptorsNotStale'
  BY DEF Die, ProcessExit, HandlingFresh, DownIsEmpty, DescriptorsNotStale,
     RegistryNotStale, PendingNotStale, Registered
<1> QED
  BY <1>1, <1>2, <1>3

\* A step of a relay process changes nothing that spd keeps.
LEMMA ChildStep ==
  ASSUME RegistryInv, TypeOK', HandlesKnown', OneReceived,
         UNCHANGED <<spd, fdTable, requestFd, serverMap, pendingConnections, peer, svc,
                     client>>,
         backlog' = backlog \/ backlog' = <<>>
  PROVE  RegistryInv'
<1> USE DEF RegistryInv
<1>1. OwnersDistinct' /\ PacketsOwned'
  BY ServerFrame
<1>2. HostConsistent'
  BY DEF HostConsistent, Used
<1>3. HandlingFresh' /\ DownIsEmpty' /\ DescriptorsNotStale'
  BY DEF HandlingFresh, DownIsEmpty, DescriptorsNotStale,
     RegistryNotStale, PendingNotStale, Registered, OpenAt
<1> QED
  BY <1>1, <1>2, <1>3

\* accept() returns a number that is free, so neither serverMap nor
\* pendingConnections refers to it.
LEMMA AcceptStep ==
  ASSUME RegistryInv, TypeOK', HandlesKnown', AcceptConnection, UNCHANGED <<svc, client>>
  PROVE  RegistryInv'
<1> USE DEF RegistryInv
<1>1. OwnersDistinct' /\ PacketsOwned'
  BY ServerFrame DEF AcceptConnection, OneReceived
<1>2. PICK f \in FD : /\ fdTable[f] = NoConn
                      /\ fdTable' = [fdTable EXCEPT ![f] = Head(backlog)]
                      /\ requestFd' = f
  BY DEF AcceptConnection
<1>3. /\ 1 \in DOMAIN backlog /\ backlog[1] = Head(backlog) /\ Head(backlog) \in Conn
      /\ \A i \in DOMAIN Tail(backlog) :
           i + 1 \in DOMAIN backlog /\ Tail(backlog)[i] = backlog[i + 1]
      /\ DOMAIN Tail(backlog) \subseteq Nat \ {0}
  BY TailPackets DEF AcceptConnection, TypeOK, TransportTypeOK
<1>4. /\ fdTable'[f] = Head(backlog)
      /\ \A g \in FD \ {f} : fdTable'[g] = fdTable[g]
  BY <1>2 DEF TypeOK, TransportTypeOK
<1>5. HostConsistent'
  <2>1. \A g \in FD : fdTable[g] # Head(backlog)
    BY <1>3 DEF HostConsistent
  <2>2. \A i \in DOMAIN Tail(backlog) : Tail(backlog)[i] # Head(backlog)
    BY <1>3 DEF HostConsistent
  <2>3. backlog' = Tail(backlog) /\ peer' = peer
    BY DEF AcceptConnection
  <2>4. \A g, h \in FD : fdTable'[g] = fdTable'[h] /\ fdTable'[g] # NoConn => g = h
    BY <1>4, <2>1 DEF HostConsistent
  <2>5. \A i, j \in DOMAIN backlog' : backlog'[i] = backlog'[j] => i = j
    BY <1>3, <2>3 DEF HostConsistent
  <2>6. \A i \in DOMAIN backlog', g \in FD : backlog'[i] # fdTable'[g]
    BY <1>3, <1>4, <2>2, <2>3 DEF HostConsistent
  <2>7. /\ \A g \in FD : fdTable'[g] # NoConn => peer'[fdTable'[g]] # "none"
        /\ \A i \in DOMAIN backlog' : peer'[backlog'[i]] # "none"
    BY <1>3, <1>4, <2>3 DEF HostConsistent, Used
  <2> QED
    BY <2>4, <2>5, <2>6, <2>7 DEF HostConsistent, Used
<1>6. /\ \A id \in ServerID : serverMap[id] # f
      /\ \A x \in pendingConnections : atoi(x) # f
  BY <1>2, NumberTypes DEF DescriptorsNotStale, RegistryNotStale, PendingNotStale,
     Registered, OpenAt
<1>7. HandlingFresh'
  BY <1>2, <1>3, <1>4, <1>6, NumberTypes, ClientNames DEF HandlingFresh, AcceptConnection
<1>8. DownIsEmpty'
  BY DEF AcceptConnection, DownIsEmpty
<1>9. DescriptorsNotStale'
  BY <1>4, <1>6 DEF AcceptConnection, DescriptorsNotStale, RegistryNotStale,
     PendingNotStale, Registered, OpenAt
<1> QED
  BY <1>1, <1>5, <1>7, <1>8, <1>9

\* The connection whose request is handled, and the packet that names it.
LEMMA RequestReceived ==
  ASSUME RegistryInv, NEW req, Receive(req)
  PROVE  /\ requestFd \in FD /\ request \in Conn
         /\ OneReceived
         /\ inq[request] # <<>>
         /\ 1 \in DOMAIN inq[request] /\ inq[request][1] = req
<1>1. requestFd \in FD /\ request \in Conn
  BY DEF RegistryInv, Receive, Handling, HandlingFresh, request, TypeOK, ServerTypeOK,
     TransportTypeOK
<1>2. inq[request] \in Seq(Packet)
  BY <1>1 DEF RegistryInv, TypeOK, TransportTypeOK
<1> QED
  BY <1>1, <1>2, TailPackets DEF Receive, OneReceived

\* The numbers of registered and pending connections, and of the one that is
\* handled, are all different.
LEMMA NumbersDistinct ==
  ASSUME RegistryInv
  PROVE  /\ \A id, jd \in ServerID :
              Registered(id) /\ serverMap[id] = serverMap[jd] => id = jd
         /\ \A id \in ServerID, x \in pendingConnections :
              Registered(id) => serverMap[id] # atoi(x)
         /\ \A id \in ServerID : Registered(id) => serverMap[id] # requestFd
         /\ \A x \in pendingConnections : requestFd # NoFd => atoi(x) # requestFd
         /\ \A x, y \in pendingConnections : atoi(x) = atoi(y) => x = y
<1> USE DEF RegistryInv
<1>1. \A id, jd \in ServerID :
        Registered(id) /\ serverMap[id] = serverMap[jd] => id = jd
  BY NumberTypes DEF DescriptorsNotStale, RegistryNotStale, Registered, OpenAt,
     OwnersDistinct
<1>2. \A id \in ServerID, x \in pendingConnections :
        Registered(id) => serverMap[id] # atoi(x)
  BY NumberTypes DEF DescriptorsNotStale, RegistryNotStale, PendingNotStale, Registered,
     OpenAt, OwnersDistinct
<1>3. \A x \in pendingConnections : x \in ClientID
  BY DEF TypeOK, ServerTypeOK
<1>4. \A x \in pendingConnections : requestFd # NoFd => atoi(x) # requestFd
  BY <1>3, ClientNames DEF HandlingFresh
<1>5. \A x, y \in pendingConnections : atoi(x) = atoi(y) => x = y
  BY <1>3, ClientNames
<1>6. \A id \in ServerID : Registered(id) => serverMap[id] # requestFd
  BY DEF HandlingFresh, Registered
<1> QED
  BY <1>1, <1>2, <1>4, <1>5, <1>6

\* Handling a register request: the number stored is that of the service proxy
\* that sent it.
LEMMA RegisterStep ==
  ASSUME RegistryInv, TypeOK', HandlesKnown', HandleRegister, UNCHANGED <<svc, client>>
  PROVE  RegistryInv'
<1> USE DEF RegistryInv
<1>1. PICK id \in ServerID : HandleRegister!(id)
  BY DEF HandleRegister
<1>2. /\ requestFd \in FD /\ request \in Conn /\ OneReceived
      /\ 1 \in DOMAIN inq[request] /\ inq[request][1] = makeRegisterRequest(id)
  BY <1>1, RequestReceived
<1>3. OwnersDistinct' /\ PacketsOwned'
  BY <1>1, <1>2, ServerFrame
<1>4. \E s \in Service : serviceID[s] = id /\ svc[s].connection = request
  BY <1>2 DEF PacketsOwned
<1>5. HostConsistent'
  BY <1>1 DEF HostConsistent, Used, hostVars
<1>6. HandlingFresh' /\ DownIsEmpty'
  BY <1>1 DEF HandlingFresh, DownIsEmpty, Receive, Handling, hostVars
<1>7. PendingNotStale'
  BY <1>1 DEF DescriptorsNotStale, PendingNotStale, OpenAt, hostVars
<1>8. RegistryNotStale'
  <2>1. ASSUME NEW jd \in ServerID, serverMap'[jd] # NoFd
        PROVE  \/ serverMap'[jd] = serverMap[jd]
               \/ jd = id /\ serverMap'[jd] = requestFd
    BY <1>1 DEF registerServer, TypeOK, ServerTypeOK
  <2> QED
    BY <1>1, <1>2, <1>4, <2>1 DEF DescriptorsNotStale, RegistryNotStale, Registered,
       OpenAt, hostVars, request
<1> QED
  BY <1>3, <1>5, <1>6, <1>7, <1>8 DEF DescriptorsNotStale

\* Handling a connect request for a registered service: the number stored is
\* that of the client proxy that sent it.
LEMMA ConnectStep ==
  ASSUME RegistryInv, TypeOK', HandlesKnown', HandleConnect, UNCHANGED <<svc, client>>
  PROVE  RegistryInv'
<1> USE DEF RegistryInv
<1>1. PICK id \in ServerID : HandleConnect!(id)
  BY DEF HandleConnect
<1>2. /\ requestFd \in FD /\ request \in Conn /\ OneReceived
      /\ 1 \in DOMAIN inq[request] /\ inq[request][1] = makeConnectRequest(id)
  BY <1>1, RequestReceived
<1>3. OwnersDistinct' /\ PacketsOwned'
  BY <1>1, <1>2, ServerFrame
<1>4. \E k \in Client : client[k].connection = request
  BY <1>2 DEF PacketsOwned
<1>5. HostConsistent'
  BY <1>1 DEF HostConsistent, Used, hostVars
<1>6. HandlingFresh' /\ DownIsEmpty'
  BY <1>1 DEF HandlingFresh, DownIsEmpty, Receive, Handling, hostVars
<1>7. RegistryNotStale'
  BY <1>1 DEF DescriptorsNotStale, RegistryNotStale, Registered, OpenAt, hostVars
<1>8. PendingNotStale'
  BY <1>1, <1>2, <1>4, ClientNames DEF DescriptorsNotStale, PendingNotStale, OpenAt,
     hostVars, request
<1> QED
  BY <1>3, <1>5, <1>6, <1>7, <1>8 DEF DescriptorsNotStale

\* Handling an unregister request: only the numbers that are erased are closed.
LEMMA UnregisterStep ==
  ASSUME RegistryInv, TypeOK', HandlesKnown', HandleUnregister, UNCHANGED <<svc, client>>
  PROVE  RegistryInv'
<1>1. PICK id \in ServerID : HandleUnregister!(id)
  BY DEF HandleUnregister
<1>2. OneReceived /\ requestFd # NoFd /\ spd = "up"
  BY <1>1, RequestReceived DEF Receive, Handling
<1>3. serverMap'[id] = NoFd /\ \A jd \in ServerID \ {id} : serverMap'[jd] = serverMap[jd]
  BY <1>1 DEF Erased, RegistryInv, TypeOK, ServerTypeOK
<1>4. \A jd \in ServerID : serverMap'[jd] # NoFd =>
        serverMap'[jd] = serverMap[jd] /\ serverMap[jd] \notin ClosedByUnregister(id)
  BY <1>3, NumbersDistinct DEF ClosedByUnregister, Registered
<1>5. \A x \in pendingConnections : atoi(x) \notin ClosedByUnregister(id)
  <2>1. \A x \in pendingConnections : atoi(x) \in FD
    BY ClientNames DEF RegistryInv, TypeOK, ServerTypeOK
  <2> QED
    BY <1>2, <2>1, NumbersDistinct, NumberTypes DEF ClosedByUnregister, Registered
<1> QED
  BY <1>1, <1>2, <1>4, <1>5, ClosingStep

\* Handling an answer: only the client it answers, and the request, are closed.
LEMMA AnswerStep ==
  ASSUME RegistryInv, TypeOK', HandlesKnown', HandleAnswer, UNCHANGED <<svc, client>>
  PROVE  RegistryInv'
<1>1. PICK x \in ClientID, success \in BOOLEAN : HandleAnswer!(x, success)
  BY DEF HandleAnswer
<1>2. OneReceived /\ requestFd # NoFd /\ spd = "up"
  BY <1>1, RequestReceived DEF Receive, Handling
<1>3. CASE ResolvePending(x, success)
  <2>1. \A jd \in ServerID : serverMap'[jd] # NoFd =>
          serverMap'[jd] = serverMap[jd] /\ serverMap[jd] \notin {atoi(x), requestFd}
    BY <1>1, <1>3, NumbersDistinct DEF ResolvePending, Registered
  <2>2. \A y \in pendingConnections' :
          y \in pendingConnections /\ atoi(y) \notin {atoi(x), requestFd}
    BY <1>2, <1>3, NumbersDistinct DEF ResolvePending, NoLongerPending
  <2> QED
    BY <1>1, <1>2, <1>3, <2>1, <2>2, ClosingStep DEF ResolvePending
<1>4. CASE RefuseAnswer(x)
  <2>1. \A jd \in ServerID : serverMap'[jd] # NoFd =>
          serverMap'[jd] = serverMap[jd] /\ serverMap[jd] \notin {requestFd}
    BY <1>1, NumbersDistinct DEF Registered
  <2>2. \A y \in pendingConnections' : y \in pendingConnections /\ atoi(y) \notin {requestFd}
    BY <1>2, <1>4, NumbersDistinct DEF RefuseAnswer
  <2> QED
    BY <1>1, <1>2, <1>4, <2>1, <2>2, ClosingStep DEF RefuseAnswer
<1> QED
  BY <1>1, <1>3, <1>4

\* Refusing a request closes its own descriptor only.
LEMMA RefusalStep ==
  ASSUME RegistryInv, TypeOK', HandlesKnown', HandleConnectUnknown \/ HandleUnexpected,
         UNCHANGED <<svc, client>>
  PROVE  RegistryInv'
<1>1. /\ UNCHANGED <<spd, backlog, peer, serverMap, pendingConnections>>
      /\ fdTable' = CloseFds({requestFd}) /\ requestFd' = NoFd
      /\ \E req : Receive(req)
  BY DEF HandleConnectUnknown, HandleUnexpected
<1>2. OneReceived /\ requestFd # NoFd /\ spd = "up"
  BY <1>1, RequestReceived DEF Receive, Handling
<1>3. \A jd \in ServerID : serverMap'[jd] # NoFd =>
        serverMap'[jd] = serverMap[jd] /\ serverMap[jd] \notin {requestFd}
  BY <1>1, NumbersDistinct DEF Registered
<1>4. \A y \in pendingConnections' : y \in pendingConnections /\ atoi(y) \notin {requestFd}
  BY <1>1, <1>2, NumbersDistinct
<1> QED
  BY <1>1, <1>2, <1>3, <1>4, ClosingStep

\* Every step of spd and of its relay processes keeps the invariant.
LEMMA ServerKeeps ==
  ASSUME RegistryInv, TypeOK', HandlesKnown', ServerStep, UNCHANGED <<svc, client>>
  PROVE  RegistryInv'
<1>1. CASE Run
  <2>1. OwnersDistinct' /\ PacketsOwned'
    BY <1>1, ServerFrame DEF Run, netVars, OneReceived
  <2>2. HostConsistent'
    BY <1>1 DEF RegistryInv, Run, netVars, HostConsistent, Used
  <2> QED
    BY <1>1, <2>1, <2>2 DEF RegistryInv, Run, netVars, HandlingFresh, DownIsEmpty,
       DescriptorsNotStale, RegistryNotStale, PendingNotStale, Registered, OpenAt
<1>2. CASE RecvError
  <2>1. OwnersDistinct' /\ PacketsOwned'
    BY <1>2, ServerFrame DEF RecvError, netVars, OneReceived
  <2>2. HostConsistent'
    BY <1>2 DEF RegistryInv, RecvError, hostVars, netVars, HostConsistent, Used
  <2> QED
    BY <1>2, <2>1, <2>2 DEF RegistryInv, RecvError, hostVars, netVars, HandlingFresh,
       DownIsEmpty, DescriptorsNotStale, RegistryNotStale, PendingNotStale, Registered,
       OpenAt
<1>3. CASE ParseThrows \/ HandleConnectKilled
  BY <1>3, DieStep DEF ParseThrows, HandleConnectKilled
<1>4. ASSUME NEW a \in Conn, ChildNotify(a) \/ ChildForward(a) \/ ChildRelayed(a)
                             \/ ChildKilled(a)
      PROVE  RegistryInv'
  <2>1. OneReceived
    BY <1>4 DEF ChildNotify, ChildForward, ChildRelayed, ChildKilled, ChildExit,
       OneReceived
  <2>2. /\ UNCHANGED <<spd, fdTable, requestFd, serverMap, pendingConnections, peer>>
        /\ backlog' = backlog \/ backlog' = <<>>
    BY <1>4 DEF ChildNotify, ChildForward, ChildRelayed, ChildKilled, ChildExit,
       RelayExit, hostVars, serverVars
  <2> QED
    BY <2>1, <2>2, ChildStep
<1> QED
  BY <1>1, <1>2, <1>3, <1>4, AcceptStep, RegisterStep, UnregisterStep, ConnectStep,
     AnswerStep, RefusalStep DEF ServerStep

-----------------------------------------------------------------------------
(* The theorems *)

\* Nothing is open, queued, registered or dialled at first.
LEMMA RegistryInit == Init => RegistryInv
<1> SUFFICES ASSUME Init PROVE RegistryInv
  OBVIOUS
<1>1. TypeOK /\ HandlesKnown
  BY TypeInit
<1>2. HostConsistent
  BY DEF Init, TransportInit, HostConsistent
<1>3. OwnersDistinct
  BY DEF Init, ServiceInit, ClientInit, OwnersDistinct
<1>4. PacketsOwned
  BY DEF Init, TransportInit, PacketsOwned
<1>5. HandlingFresh /\ DownIsEmpty /\ DescriptorsNotStale
  BY DEF Init, TransportInit, ServerInit, HandlingFresh, DownIsEmpty,
     DescriptorsNotStale, RegistryNotStale, PendingNotStale, Registered
<1> QED
  BY <1>1, <1>2, <1>3, <1>4, <1>5 DEF RegistryInv

\* Resets and stray programs touch the spd host as a peer may.
LEMMA EventPeer ==
  ASSUME RegistryInv, NEW c \in Conn, ResetConnection(c) \/ StrayRequest(c)
  PROVE  PeerStepOK
<1> USE DEF RegistryInv
<1>1. UNCHANGED <<hostVars, serverVars, svc, client>>
  BY DEF ResetConnection, StrayRequest, serviceVars
<1>2. StaysUsed
  BY DialUses DEF ResetConnection, StrayRequest, StaysUsed, Used, TypeOK, TransportTypeOK
<1>3. OwnersDistinct' /\ OwnersKept
  BY <1>1, <1>2, OwnersSame DEF SameOwners
<1>4. PacketsOwned'
  <2>1. CASE ResetConnection(c)
    BY <2>1, <1>3, PacketsKept DEF ResetConnection
  <2>2. CASE StrayRequest(c)
    <3>1. inq' = [inq EXCEPT ![c] = <<makeResponse(TRUE)>>]
      BY <2>2 DEF StrayRequest
    <3>2. \A d \in Conn : \A i \in DOMAIN inq'[d] :
            \/ i \in DOMAIN inq[d] /\ inq'[d][i] = inq[d][i]
            \/ inq'[d][i] = makeResponse(TRUE)
      <4>1. \A i \in DOMAIN <<makeResponse(TRUE)>> :
              <<makeResponse(TRUE)>>[i] = makeResponse(TRUE)
        BY OnePacket
      <4> QED
        BY <3>1, <4>1 DEF TypeOK, TransportTypeOK
    <3>3. \A id \in ServerID : /\ makeResponse(TRUE) # makeRegisterRequest(id)
                               /\ makeResponse(TRUE) # makeConnectRequest(id)
      BY UnownedPackets DEF Unowned
    <3>4. svc' = svc /\ client' = client
      BY <1>1
    <3>5. SUFFICES ASSUME NEW d \in Conn, NEW i \in DOMAIN inq'[d], NEW id \in ServerID
                   PROVE  /\ inq'[d][i] = makeRegisterRequest(id) =>
                               \E s \in Service : serviceID[s] = id /\ svc[s].connection = d
                          /\ inq'[d][i] = makeConnectRequest(id) =>
                               \E k \in Client : wantedID[k] = id /\ client[k].connection = d
      BY <3>4 DEF PacketsOwned
    <3>6. CASE i \in DOMAIN inq[d] /\ inq'[d][i] = inq[d][i]
      BY <3>6 DEF PacketsOwned
    <3>7. CASE inq'[d][i] = makeResponse(TRUE)
      BY <3>3, <3>7
    <3> QED
      BY <3>2, <3>6, <3>7
  <2> QED
    BY <2>1, <2>2
<1>5. UNCHANGED backlog \/ \E d \in Conn : Dial(d)
  BY DEF ResetConnection, StrayRequest
<1> QED
  BY <1>1, <1>2, <1>3, <1>4, <1>5 DEF PeerStepOK

\* RegistryInv is inductive.
LEMMA RegistryStep == RegistryInv /\ [Next]_vars => RegistryInv'
<1> SUFFICES ASSUME RegistryInv, [Next]_vars PROVE RegistryInv'
  OBVIOUS
<1>0. TypeOK' /\ HandlesKnown'
  BY TypeStep DEF RegistryInv
<1>1. CASE ServerStep /\ UNCHANGED <<serviceVars, client>>
  BY <1>0, <1>1, ServerKeeps DEF serviceVars
<1>2. CASE ServiceStep /\ UNCHANGED <<serverVars, client>>
  <2>1. PICK s \in Service : ServiceStep!(s)
    BY <1>2 DEF ServiceStep
  <2>2. svc[s].children \in SUBSET Conn
    BY SvcType DEF RegistryInv, TypeOK, SvcRecord
  <2>3. PeerStepOK
    BY <1>2, <2>1, <2>2, ServicePeer, HelperPeer
  <2> QED
    BY <1>0, <2>3, PeerStep
<1>3. CASE ClientStep /\ UNCHANGED <<serverVars, serviceVars>>
  <2>1. PICK k \in Client : ClientStep!(k)
    BY <1>3 DEF ClientStep
  <2>2. PeerStepOK
    BY <1>3, <2>1, ClientPeer DEF serviceVars
  <2> QED
    BY <1>0, <2>2, PeerStep
<1>4. CASE \E c \in Conn : ResetConnection(c) \/ StrayRequest(c)
  BY <1>0, <1>4, EventPeer, PeerStep
<1>5. CASE UNCHANGED vars
  BY <1>0, <1>5 DEF vars, transportVars, hostVars, netVars, serverVars, serviceVars,
     RegistryInv, HostConsistent, OwnersDistinct, PacketsOwned, HandlingFresh,
     DownIsEmpty, DescriptorsNotStale, RegistryNotStale, PendingNotStale, Registered,
     OpenAt, Used
<1> QED
  BY <1>1, <1>2, <1>3, <1>4, <1>5 DEF Next

\* The inductive invariant of the registry holds in every reachable state.
THEOREM RegistryInvariant == Spec => []RegistryInv
BY RegistryInit, RegistryStep, PTL DEF Spec

\* Whatever fails, each number in serverMap denotes the connection of a service
\* proxy with that id, and each in pendingConnections that of a client proxy:
\* the kernel reuses a number only after Server has forgotten it.
THEOREM DescriptorsSafe == Spec => []DescriptorsNotStale
<1>1. RegistryInv => DescriptorsNotStale
  BY DEF RegistryInv
<1> QED
  BY <1>1, RegistryInvariant, PTL

-----------------------------------------------------------------------------
(* What spd is done with *)

\* A connection on the spd host, queued or open.
Here(c) == (\E f \in FD : fdTable[f] = c) \/ (\E i \in DOMAIN backlog : backlog[i] = c)

\* A step brings connections to the spd host only by dialling them.
NoneReturns == \A c \in Conn : Here(c)' => Here(c) \/ ~Used(c)

\* Settled of the next state, for the connection that c is in this one.
SettledThen(c) ==
  /\ c \in Conn /\ peer'[c] # "none"
  /\ \A f \in FD : fdTable'[f] # c
  /\ \A i \in DOMAIN backlog' : backlog'[i] # c

\* What spd is done with never comes back: connections are not dialled twice.
LEMMA SettledStays ==
  ASSUME StaysUsed, NoneReturns, NEW c, Settled(c)
  PROVE  SettledThen(c)
BY DEF StaysUsed, NoneReturns, Settled, SettledThen, Here, Used

\* So what is settled stays so.
SettledKept == \A c \in Conn : Settled(c) => Settled(c)'

LEMMA KeepsSettled ==
  ASSUME StaysUsed, NoneReturns
  PROVE  SettledKept
BY SettledStays DEF SettledKept, Settled, SettledThen, Used

\* A step that forks no child, and changes the client of none.
SameChildren ==
  \A a \in Conn : /\ child'[a].client = child[a].client
                  /\ child'[a].pc = "none" <=> child[a].pc = "none"

\* Such a step keeps the children apart.
LEMMA ChildrenKept ==
  ASSUME ChildrenApart, SameChildren, StaysUsed, NoneReturns
  PROVE  ChildrenApart'
<1>1. \A a \in Conn : child'[a].pc # "none" =>
        SettledThen(a) /\ SettledThen(child[a].client)
  BY SettledStays DEF ChildrenApart, SameChildren
<1>2. \A a \in Conn : child'[a].pc = "none" => child'[a].client = NoConn
  BY DEF ChildrenApart, SameChildren
<1>3. \A a, b \in Conn :
        a # b /\ child'[a].pc # "none" => child'[a].client # child'[b].client
  BY DEF ChildrenApart, SameChildren
<1> QED
  BY <1>1, <1>2, <1>3 DEF ChildrenApart, SameChildren, Settled, SettledThen, Used

-----------------------------------------------------------------------------
(* The steps *)

\* A peer only dials connections that nobody used.
LEMMA PeerReturnsNone ==
  ASSUME TypeOK, PeerStepOK
  PROVE  StaysUsed /\ NoneReturns
<1>1. CASE UNCHANGED backlog
  BY <1>1 DEF PeerStepOK, hostVars, NoneReturns, Here
<1>2. ASSUME NEW d \in Conn, Dial(d)
      PROVE  NoneReturns
  <2>1. ~Used(d)
    BY <1>2, DialUses DEF TypeOK
  <2>2. backlog \in Seq(Conn) /\ backlog' = Append(backlog, d)
    BY <1>2 DEF Dial, TypeOK, TransportTypeOK
  <2>3. \A i \in DOMAIN backlog' :
          \/ i \in DOMAIN backlog /\ backlog'[i] = backlog[i]
          \/ backlog'[i] = d
    BY <2>2, AppendPackets
  <2> QED
    BY <2>1, <2>3 DEF PeerStepOK, hostVars, NoneReturns, Here
<1> QED
  BY <1>1, <1>2 DEF PeerStepOK

\* So it keeps the children apart.
LEMMA PeerKeepsChildren ==
  ASSUME TypeOK, ChildrenApart, PeerStepOK
  PROVE  ChildrenApart'
<1>1. SameChildren
  BY DEF PeerStepOK, serverVars, SameChildren
<1> QED
  BY <1>1, PeerReturnsNone, ChildrenKept

\* A step of spd that closes descriptors, or loses its queue, returns none.
LEMMA ClosingReturnsNone ==
  ASSUME TypeOK, UNCHANGED peer, backlog' = backlog \/ backlog' = <<>>,
         \A f \in FD : fdTable'[f] = fdTable[f] \/ fdTable'[f] = NoConn
  PROVE  StaysUsed /\ NoneReturns
BY NumberTypes DEF StaysUsed, NoneReturns, Here, Used

\* accept() takes its connection from the queue.
LEMMA AcceptReturnsNone ==
  ASSUME TypeOK, AcceptConnection
  PROVE  StaysUsed /\ NoneReturns
<1>1. PICK f \in FD : fdTable' = [fdTable EXCEPT ![f] = Head(backlog)]
  BY DEF AcceptConnection
<1>2. /\ 1 \in DOMAIN backlog /\ backlog[1] = Head(backlog)
      /\ \A i \in DOMAIN Tail(backlog) :
           i + 1 \in DOMAIN backlog /\ Tail(backlog)[i] = backlog[i + 1]
  BY TailPackets DEF AcceptConnection, TypeOK, TransportTypeOK
<1>3. \A g \in FD : fdTable'[g] = fdTable[g] \/ fdTable'[g] = backlog[1]
  BY <1>1, <1>2 DEF TypeOK, TransportTypeOK
<1> QED
  BY <1>2, <1>3 DEF AcceptConnection, StaysUsed, NoneReturns, Here, Used

\* Nor does any other step of spd, or of a relay process, return one.
LEMMA ServerReturnsNone ==
  ASSUME RegistryInv, ServerStep
  PROVE  StaysUsed /\ NoneReturns
<1> USE DEF RegistryInv
<1>1. CASE AcceptConnection
  BY <1>1, AcceptReturnsNone
<1>2. CASE ~AcceptConnection
  <2>1. UNCHANGED peer
    BY <1>2 DEF ServerStep, Run, RecvError, ParseThrows, HandleRegister, HandleUnregister,
       HandleConnect, HandleConnectUnknown, HandleConnectKilled, HandleUnexpected,
       HandleAnswer, Die, hostVars, netVars, ChildNotify, ChildForward, ChildRelayed,
       ChildKilled, ChildExit
  <2>2. backlog' = backlog \/ backlog' = <<>>
    BY <1>2 DEF ServerStep, Run, RecvError, ParseThrows, HandleRegister, HandleUnregister,
       HandleConnect, HandleConnectUnknown, HandleConnectKilled, HandleUnexpected,
       HandleAnswer, ResolvePending, RefuseAnswer, Die, ProcessExit, hostVars, netVars,
       ChildNotify, ChildForward, ChildRelayed, ChildKilled, ChildExit, RelayExit
  <2>3. \A f \in FD : fdTable'[f] = fdTable[f] \/ fdTable'[f] = NoConn
    BY <1>2 DEF ServerStep, Run, RecvError, ParseThrows, HandleRegister, HandleUnregister,
       HandleConnect, HandleConnectUnknown, HandleConnectKilled, HandleUnexpected,
       HandleAnswer, ResolvePending, RefuseAnswer, Die, ProcessExit, CloseFds, hostVars,
       netVars, ChildNotify, ChildForward, ChildRelayed, ChildKilled, ChildExit, RelayExit
  <2> QED
    BY <2>1, <2>2, <2>3, ClosingReturnsNone
<1> QED
  BY <1>1, <1>2

\* The child that answers a client is the only one with these connections: spd
\* had them open until now.
LEMMA ForkKeepsApart ==
  ASSUME RegistryInv, ChildrenApart, HandleAnswer
  PROVE  ChildrenApart'
<1> USE DEF RegistryInv
<1>1. PICK x \in ClientID, success \in BOOLEAN : HandleAnswer!(x, success)
  BY DEF HandleAnswer
<1>2. requestFd \in FD /\ request \in Conn
  BY <1>1, RequestReceived
<1>3. StaysUsed /\ NoneReturns
  BY ServerReturnsNone DEF ServerStep
<1>4. CASE UNCHANGED child
  BY <1>3, <1>4, ChildrenKept DEF SameChildren
<1>5. CASE ResolvePending(x, success) /\ child' = Forked(atoi(x), success)
  <2> DEFINE k == fdTable[atoi(x)]
  <2>1. atoi(x) \in FD /\ k \in Conn /\ atoi(x) # requestFd
    BY <1>2, <1>5, NumbersDistinct, NumberTypes DEF ResolvePending, DescriptorsNotStale,
       PendingNotStale, OpenAt
  <2>2. /\ child'[request].pc = "notify" /\ child'[request].client = k
        /\ \A b \in Conn \ {request} : child'[b] = child[b]
    BY <1>2, <1>5 DEF Forked, TypeOK, ServerTypeOK
  <2>3. \A f \in {requestFd, atoi(x)} : SettledThen(fdTable[f])
    <3> SUFFICES ASSUME NEW f \in {requestFd, atoi(x)}
                 PROVE  SettledThen(fdTable[f])
      OBVIOUS
    <3>1. f \in FD /\ fdTable[f] \in Conn /\ Used(fdTable[f])
      BY <1>2, <2>1, NumberTypes DEF request, HostConsistent
    <3>2. \A i \in DOMAIN backlog : backlog[i] # fdTable[f]
      BY <3>1 DEF HostConsistent
    <3>3. \A g \in FD : fdTable'[g] # fdTable[f]
      BY <1>5, <3>1, NumberTypes DEF ResolvePending, CloseFds, HostConsistent
    <3> QED
      BY <1>1, <1>3, <3>1, <3>2, <3>3 DEF SettledThen, StaysUsed
  <2>4. \A b \in Conn : child[b].client # k
    BY <2>1, NumberTypes DEF ChildrenApart, Settled
  <2>5. \A b \in Conn : child[b].pc # "none" => SettledThen(b) /\ SettledThen(child[b].client)
    BY <1>3, SettledStays DEF ChildrenApart
  <2> QED
    BY <2>2, <2>3, <2>4, <2>5 DEF ChildrenApart, request, Settled, SettledThen, Used
<1> QED
  BY <1>1, <1>4, <1>5 DEF ResolvePending, RefuseAnswer

\* Every step of spd and of its relay processes keeps the children apart.
LEMMA ServerKeepsChildren ==
  ASSUME RegistryInv, ChildrenApart, ServerStep
  PROVE  ChildrenApart'
<1> USE DEF RegistryInv
<1>1. StaysUsed /\ NoneReturns
  BY ServerReturnsNone
<1>2. CASE Run \/ AcceptConnection \/ RecvError \/ ParseThrows \/ HandleRegister
           \/ HandleUnregister \/ HandleConnect \/ HandleConnectUnknown
           \/ HandleConnectKilled \/ HandleUnexpected
  <2>1. UNCHANGED child
    BY <1>2 DEF Run, AcceptConnection, RecvError, ParseThrows, HandleRegister,
       HandleUnregister, HandleConnect, HandleConnectUnknown, HandleConnectKilled,
       HandleUnexpected, Die
  <2> QED
    BY <1>1, <2>1, ChildrenKept DEF SameChildren
<1>3. ASSUME NEW a \in Conn, ChildNotify(a) \/ ChildForward(a) \/ ChildRelayed(a)
                             \/ ChildKilled(a)
      PROVE  ChildrenApart'
  <2>1. SameChildren
    BY <1>3 DEF ChildNotify, ChildForward, ChildRelayed, ChildKilled, ChildExit,
       serverVars, SameChildren, TypeOK, ServerTypeOK
  <2> QED
    BY <1>1, <2>1, ChildrenKept
<1> QED
  BY <1>2, <1>3, ForkKeepsApart DEF ServerStep

\* ChildrenApart is inductive, given that descriptor numbers are not stale.
LEMMA ChildrenStep == RegistryInv /\ ChildrenApart /\ [Next]_vars => ChildrenApart'
<1> SUFFICES ASSUME RegistryInv, ChildrenApart, [Next]_vars PROVE ChildrenApart'
  OBVIOUS
<1>0. TypeOK
  BY DEF RegistryInv
<1>1. CASE ServerStep /\ UNCHANGED <<serviceVars, client>>
  BY <1>1, ServerKeepsChildren DEF serviceVars
<1>2. CASE ServiceStep /\ UNCHANGED <<serverVars, client>>
  <2>1. PICK s \in Service : ServiceStep!(s)
    BY <1>2 DEF ServiceStep
  <2>2. svc[s].children \in SUBSET Conn
    BY <1>0, SvcType DEF TypeOK, SvcRecord
  <2>3. PeerStepOK
    BY <1>2, <2>1, <2>2, ServicePeer, HelperPeer
  <2> QED
    BY <1>0, <2>3, PeerKeepsChildren
<1>3. CASE ClientStep /\ UNCHANGED <<serverVars, serviceVars>>
  <2>1. PICK k \in Client : ClientStep!(k)
    BY <1>3 DEF ClientStep
  <2>2. PeerStepOK
    BY <1>3, <2>1, ClientPeer DEF serviceVars
  <2> QED
    BY <1>0, <2>2, PeerKeepsChildren
<1>4. CASE \E c \in Conn : ResetConnection(c) \/ StrayRequest(c)
  BY <1>0, <1>4, EventPeer, PeerKeepsChildren
<1>5. CASE UNCHANGED vars
  BY <1>5 DEF vars, transportVars, hostVars, netVars, serverVars, ChildrenApart,
     Settled, Used
<1> QED
  BY <1>1, <1>2, <1>3, <1>4, <1>5 DEF Next

\* Nobody was forked at first.
LEMMA ChildrenInit == Init => ChildrenApart
BY DEF Init, ServerInit, ChildrenApart

\* The inductive invariant of the relay processes, in every reachable state.
THEOREM ChildrenInvariant == Spec => [](RegistryInv /\ ChildrenApart)
BY RegistryInit, RegistryStep, ChildrenInit, ChildrenStep, PTL DEF Spec

-----------------------------------------------------------------------------
(* What a new spd finds *)

\* A process sends, and has a helper, on a connection that was dialled, and
\* opens one for a helper by dialling.
UnusedAlone ==
  \A c \in Conn : \/ Used(c) \/ peer'[c] # "none"
                  \/ inq'[c] = inq[c] /\ helper'[c] = helper[c]
OpensDialled ==
  \A s \in Service :
    \/ svc'[s].newProxyConnection \in {svc[s].newProxyConnection, NoConn}
    \/ peer'[svc'[s].newProxyConnection] # "none"

\* A peer dials only where somebody listens, and sends only when it has dialled.
LEMMA PeerLeaves ==
  ASSUME RegistryInv, NothingLeft, PeerStepOK, UnusedAlone, OpensDialled
  PROVE  NothingLeft'
<1>1. ~Listening' => backlog' = <<>>
  BY DEF NothingLeft, PeerStepOK, hostVars, Listening, Dial
<1>2. \A c \in Conn : peer'[c] = "none" => inq'[c] = <<>> /\ helper'[c].pc = "none"
  BY DEF NothingLeft, PeerStepOK, StaysUsed, Used, UnusedAlone
<1>3. \A s \in Service : svc'[s].newProxyConnection # NoConn =>
        peer'[svc'[s].newProxyConnection] # "none"
  <2>1. \A s \in Service : svc[s].newProxyConnection \in Conn \cup {NoConn}
    BY SvcType DEF RegistryInv, TypeOK, SvcRecord
  <2> QED
    BY <2>1 DEF NothingLeft, PeerStepOK, StaysUsed, OpensDialled
<1> QED
  BY <1>1, <1>2, <1>3 DEF NothingLeft, Used

\* What a send leaves alone.
LEMMA SentOnOpen ==
  ASSUME TypeOK, NEW d, NEW p, PeerSend(d, p), NEW c \in Conn
  PROVE  Used(c) \/ inq'[c] = inq[c]
BY DEF TypeOK, TransportTypeOK, PeerSend, Used

\* A service proxy gives a helper the connection that it dialled for it.
LEMMA ServiceLeaves ==
  ASSUME RegistryInv, NothingLeft, NEW s \in Service, UNCHANGED <<serverVars, client>>,
         \/ Connect(s) \/ ConnectRefused(s) \/ SendRegister(s)
         \/ ReadRegisterResponse(s) \/ ReadConnectRequest(s) \/ ReadThrows(s)
         \/ DialProxy(s) \/ DialProxyFails(s) \/ Fork(s) \/ ForkFails(s)
         \/ Interrupt(s) \/ InterruptRefused(s) \/ SendUnregister(s) \/ Crash(s)
  PROVE  NothingLeft'
<1>0. TypeOK /\ svc[s] \in SvcRecord /\ PeerStepOK
  BY SvcType, ServicePeer DEF RegistryInv, TypeOK
<1>1. UNCHANGED inq \/ \E d, p : PeerSend(d, p)
  BY DEF Connect, ConnectRefused, SendRegister, ReadRegisterResponse, ReadConnectRequest,
     ReadThrows, DialProxy, DialProxyFails, Fork, ForkFails, Interrupt, InterruptRefused,
     SendUnregister, Crash, netVars
<1>2. \A c \in Conn : Used(c) \/ helper'[c] = helper[c]
  <2>1. CASE Fork(s)
    <3>1. Used(svc[s].newProxyConnection)
      BY <2>1 DEF Fork, NothingLeft, RegistryInv, HandlesKnown, SvcReady
    <3> QED
      BY <1>0, <2>1, <3>1 DEF Fork, TypeOK, ServiceTypeOK
  <2>2. CASE ~Fork(s)
    BY <2>2 DEF Connect, ConnectRefused, SendRegister, ReadRegisterResponse,
       ReadConnectRequest, ReadThrows, DialProxy, DialProxyFails, ForkFails, Interrupt,
       InterruptRefused, SendUnregister, Crash
  <2> QED
    BY <2>1, <2>2
<1>3. \A t \in Service :
        \/ svc'[t].newProxyConnection \in {svc[t].newProxyConnection, NoConn}
        \/ peer'[svc'[t].newProxyConnection] # "none"
  <2>1. CASE DialProxy(s)
    <3>1. PICK a \in Conn : DialProxy(s)!2!(a)
      BY <2>1 DEF DialProxy
    <3>2. peer'[a] # "none"
      BY <1>0, <3>1, DialUses DEF TypeOK
    <3>3. svc'[s].newProxyConnection = a /\ \A t \in Service \ {s} : svc'[t] = svc[t]
      BY <1>0, <3>1 DEF TypeOK, ServiceTypeOK
    <3> QED
      BY <3>2, <3>3
  <2>2. CASE ~DialProxy(s)
    BY <1>0, <2>2, ExitIsGoto DEF Goto, Connect, ConnectRefused, SendRegister,
       ReadRegisterResponse, ReadConnectRequest, ReadThrows, DialProxyFails, Fork,
       ForkFails, Interrupt, InterruptRefused, SendUnregister, Crash, TypeOK, ServiceTypeOK
  <2> QED
    BY <2>1, <2>2
<1>4. UnusedAlone
  BY <1>0, <1>1, <1>2, SentOnOpen DEF UnusedAlone
<1>5. OpensDialled
  BY <1>3 DEF OpensDialled
<1> QED
  BY <1>0, <1>4, <1>5, PeerLeaves

\* A helper has a connection that was dialled.
LEMMA HelperLeaves ==
  ASSUME RegistryInv, NothingLeft, NEW s \in Service, NEW a \in Conn,
         UNCHANGED <<serverVars, client>>,
         \/ HelperConnected(s, a) \/ HelperFailed(s, a) \/ HelperPayload(s, a)
         \/ HelperDone(s, a) \/ HelperInterrupt(s, a) \/ HelperInterruptRefused(s, a)
         \/ HelperUnregister(s, a) \/ HelperCrash(s, a)
  PROVE  NothingLeft'
<1>0. TypeOK /\ PeerStepOK
  BY HelperPeer DEF RegistryInv
<1>1. UNCHANGED inq \/ \E d, p : PeerSend(d, p)
  BY DEF HelperConnected, HelperFailed, HelperPayload, HelperDone, HelperInterrupt,
     HelperUnregister, HelperInterruptRefused, HelperCrash
<1>2. UNCHANGED svc /\ helper[a].pc # "none"
  BY DEF HelperConnected, HelperFailed, HelperPayload, HelperDone, HelperInterrupt,
     HelperUnregister, HelperInterruptRefused, HelperCrash, HelperAlive
<1>3. \A c \in Conn \ {a} : helper'[c] = helper[c]
  BY <1>0 DEF HelperConnected, HelperFailed, HelperPayload, HelperDone, HelperInterrupt,
     HelperUnregister, HelperInterruptRefused, HelperCrash, HelperExit, TypeOK, ServiceTypeOK
<1>4. Used(a)
  BY <1>2 DEF NothingLeft
<1>5. UnusedAlone
  BY <1>0, <1>1, <1>2, <1>3, <1>4, SentOnOpen DEF UnusedAlone
<1>6. OpensDialled
  BY <1>2 DEF OpensDialled
<1> QED
  BY <1>0, <1>5, <1>6, PeerLeaves

\* spd and its relay processes receive, and drop the queue when the last of them ends.
LEMMA ServerLeaves ==
  ASSUME RegistryInv, NothingLeft, ServerStep, UNCHANGED serviceVars
  PROVE  NothingLeft'
<1> USE DEF RegistryInv, serviceVars
<1>1. ASSUME OneReceived, UNCHANGED peer, ~Listening' => backlog' = <<>>
      PROVE  NothingLeft'
  <2>1. \A c \in Conn : inq'[c] = inq[c] \/ inq[c] # <<>>
    BY <1>1 DEF OneReceived, Consume, TypeOK, TransportTypeOK
  <2> QED
    BY <1>1, <2>1 DEF NothingLeft, Used
<1>2. CASE Run \/ AcceptConnection \/ RecvError
  <2>1. spd' = "up" /\ UNCHANGED <<inq, peer>>
    BY <1>2 DEF Run, AcceptConnection, RecvError, Handling, hostVars, netVars
  <2> QED
    BY <1>1, <2>1 DEF Listening, OneReceived
<1>3. ASSUME NEW req, Receive(req), UNCHANGED <<spd, peer>> PROVE NothingLeft'
  BY <1>1, <1>3, RequestReceived DEF Listening, Receive, Handling
<1>4. CASE \/ HandleRegister \/ HandleUnregister \/ HandleConnect \/ HandleConnectUnknown
           \/ HandleAnswer \/ HandleUnexpected
  BY <1>3, <1>4 DEF HandleRegister, HandleUnregister, HandleConnect, HandleConnectUnknown,
     HandleAnswer, HandleUnexpected, hostVars
<1>5. CASE ParseThrows \/ HandleConnectKilled
  <2>1. (~Listening' => backlog' = <<>>) /\ UNCHANGED <<inq, peer>>
    BY <1>5 DEF ParseThrows, HandleConnectKilled, Die, ProcessExit, Listening
  <2> QED
    BY <1>1, <2>1 DEF OneReceived
<1>6. ASSUME NEW a \in Conn, ChildNotify(a) \/ ChildForward(a) \/ ChildRelayed(a)
                             \/ ChildKilled(a)
      PROVE  NothingLeft'
  <2>1. OneReceived /\ UNCHANGED peer
    BY <1>6 DEF ChildNotify, ChildForward, ChildRelayed, ChildKilled, ChildExit, OneReceived
  <2>2. CASE UNCHANGED <<hostVars, backlog>>
    BY <1>1, <2>1, <2>2 DEF NothingLeft, hostVars, Listening
  <2>3. CASE ChildExit(a)
    <3>1. ~Listening' => spd = "down" /\ \A b \in Conn \ {a} : inherited[b] = {}
      BY <2>3 DEF ChildExit, RelayExit, Listening, TypeOK, TransportTypeOK
    <3> QED
      BY <1>1, <2>1, <2>3, <3>1 DEF ChildExit, RelayExit
  <2> QED
    BY <1>6, <2>2, <2>3 DEF ChildNotify, ChildForward, ChildRelayed, ChildKilled
<1> QED
  BY <1>2, <1>4, <1>5, <1>6 DEF ServerStep

\* NothingLeft is inductive.
LEMMA LeavesStep == RegistryInv /\ NothingLeft /\ [Next]_vars => NothingLeft'
<1> SUFFICES ASSUME RegistryInv, NothingLeft, [Next]_vars PROVE NothingLeft'
  OBVIOUS
<1>0. TypeOK
  BY DEF RegistryInv
<1>1. CASE ServerStep /\ UNCHANGED <<serviceVars, client>>
  BY <1>1, ServerLeaves
<1>2. CASE ServiceStep /\ UNCHANGED <<serverVars, client>>
  <2>1. PICK s \in Service : ServiceStep!(s)
    BY <1>2 DEF ServiceStep
  <2>2. svc[s].children \in SUBSET Conn
    BY <1>0, SvcType DEF TypeOK, SvcRecord
  <2> QED
    BY <1>2, <2>1, <2>2, ServiceLeaves, HelperLeaves
<1>3. CASE ClientStep /\ UNCHANGED <<serverVars, serviceVars>>
  <2>1. PICK k \in Client : ClientStep!(k)
    BY <1>3 DEF ClientStep
  <2>2. PeerStepOK
    BY <1>3, <2>1, ClientPeer DEF serviceVars
  <2>3. UNCHANGED inq \/ \E d, p : PeerSend(d, p)
    BY <2>1 DEF ClientConnect, ClientConnectRefused, SendConnect, ReadConnectResponse,
       ClientReadThrows, ClientRecvFails, ClientListenFails, ClientAccept, ClientDone,
       ClientCrash, netVars
  <2>4. UnusedAlone /\ OpensDialled
    BY <1>0, <1>3, <2>3, SentOnOpen DEF serviceVars, UnusedAlone, OpensDialled
  <2> QED
    BY <2>2, <2>4, PeerLeaves
<1>4. ASSUME NEW c \in Conn, ResetConnection(c) \/ StrayRequest(c)
      PROVE  NothingLeft'
  <2>1. \A d \in Conn : Used(d) \/ peer'[d] # "none" \/ inq'[d] = inq[d]
    BY <1>0, <1>4 DEF ResetConnection, StrayRequest, Dial, TypeOK, TransportTypeOK
  <2>2. UnusedAlone /\ OpensDialled
    BY <1>4, <2>1 DEF ResetConnection, StrayRequest, serviceVars, UnusedAlone, OpensDialled
  <2> QED
    BY <1>4, <2>2, EventPeer, PeerLeaves
<1>5. CASE UNCHANGED vars
  BY <1>5 DEF vars, transportVars, hostVars, netVars, serviceVars, NothingLeft, Listening, Used
<1> QED
  BY <1>1, <1>2, <1>3, <1>4, <1>5 DEF Next

\* Nothing was queued or said at first.
LEMMA LeavesInit == Init => NothingLeft
BY DEF Init, TransportInit, ServiceInit, NothingLeft

\* However often spd is started, it finds no queue, and nothing said on a
\* connection that is still to be dialled.
LEMMA HostInvariant == Spec => [](RegistryInv /\ ChildrenApart /\ NothingLeft)
BY ChildrenInvariant, LeavesInit, LeavesStep, PTL DEF Spec

-----------------------------------------------------------------------------
(* The theorems *)

\* Whatever crashes or is started again, no client gets two children of spd to
\* answer it, and none is answered that updateConnectionStatus still waits for.
THEOREM AnsweredAtMostOnce == Spec => []AnsweredOnce
<1>1. RegistryInv /\ ChildrenApart => AnsweredOnce
  <2> SUFFICES ASSUME RegistryInv, ChildrenApart PROVE AnsweredOnce
    OBVIOUS
  <2>1. ASSUME NEW x \in pendingConnections, NEW a \in Conn
        PROVE  child[a].client # fdTable[atoi(x)]
    <3>1. atoi(x) \in FD /\ fdTable[atoi(x)] \in Conn /\ fdTable[atoi(x)] # NoConn
      BY NumberTypes DEF RegistryInv, DescriptorsNotStale, PendingNotStale, OpenAt
    <3> QED
      BY <3>1 DEF ChildrenApart, Settled
  <2> QED
    BY <2>1 DEF AnsweredOnce, ChildrenApart
<1> QED
  BY <1>1, ChildrenInvariant, PTL

\* The client whose number is taken off pendingConnections in a step.
Resolved(f) ==
  to_string(f) \in pendingConnections /\ to_string(f) \notin pendingConnections'

\* Only an answer takes a number off, and its handler forks the messenger: no
\* child was forked for the request before.
LEMMA ResolvedForks ==
  ASSUME "fork" \notin Events, RegistryInv, ChildrenApart, HandleAnswer,
         NEW f \in FD, Resolved(f)
  PROVE  \E a \in Conn : /\ child[a].pc = "none" /\ child'[a].pc = "notify"
                         /\ child'[a].client = fdTable[f]
<1>1. PICK x \in ClientID, success \in BOOLEAN : HandleAnswer!(x, success)
  BY DEF HandleAnswer
<1>2. requestFd \in FD /\ request \in Conn
  BY <1>1, RequestReceived
<1>3. ResolvePending(x, success) /\ child' = Forked(atoi(x), success)
  BY <1>1 DEF Resolved, RefuseAnswer, ResolvePending
<1>4. atoi(x) = f
  BY <1>3, ClientNames DEF ResolvePending, NoLongerPending, Resolved
<1>5. child[request].pc = "none"
  BY <1>2 DEF ChildrenApart, Settled, request
<1>6. child'[request].pc = "notify" /\ child'[request].client = fdTable[f]
  BY <1>2, <1>3, <1>4 DEF Forked, RegistryInv, TypeOK, ServerTypeOK
<1> QED
  BY <1>2, <1>5, <1>6

\* No other step takes one off and lets spd go on.
LEMMA ResolvedByAnswer ==
  ASSUME Next, NEW f \in FD, Resolved(f), spd' = "up"
  PROVE  HandleAnswer
<1>1. pendingConnections' # pendingConnections
  BY DEF Resolved
<1>2. CASE ServerStep
  <2>1. ~Run /\ ~AcceptConnection /\ ~RecvError /\ ~HandleRegister /\ ~HandleUnregister
        /\ ~HandleConnectUnknown /\ ~HandleUnexpected
    BY <1>1 DEF Run, AcceptConnection, RecvError, HandleRegister, HandleUnregister,
       HandleConnectUnknown, HandleUnexpected
  <2>2. ~HandleConnect
    BY DEF HandleConnect, Resolved
  <2>3. ~ParseThrows /\ ~HandleConnectKilled
    BY DEF ParseThrows, HandleConnectKilled, Die, ProcessExit
  <2>4. \A a \in Conn : ~ChildNotify(a) /\ ~ChildForward(a) /\ ~ChildRelayed(a)
                        /\ ~ChildKilled(a)
    BY <1>1 DEF ChildNotify, ChildForward, ChildRelayed, ChildKilled, ChildExit,
       serverVars
  <2> QED
    BY <1>2, <2>1, <2>2, <2>3, <2>4 DEF ServerStep
<1>3. CASE UNCHANGED serverVars
  BY <1>1, <1>3 DEF serverVars
<1> QED
  BY <1>2, <1>3 DEF Next, ResetConnection, StrayRequest

\* While fork() works, a client that updateConnectionStatus takes off
\* pendingConnections gets a child that tells it.
THEOREM ResolvedAreNotified ==
  ASSUME "fork" \notin Events
  PROVE  Spec => ResolvedIsNotified
<1>1. RegistryInv /\ ChildrenApart /\ [Next]_vars =>
        [\A f \in FD :
           (to_string(f) \in pendingConnections /\ to_string(f) \notin pendingConnections'
              /\ spd' = "up")
           => \E a \in Conn : /\ child[a].pc = "none" /\ child'[a].pc = "notify"
                              /\ child'[a].client = fdTable[f]]_vars
  BY ResolvedForks, ResolvedByAnswer DEF Resolved
<1> QED
  BY <1>1, ChildrenInvariant, PTL DEF Spec, ResolvedIsNotified
=============================================================================
