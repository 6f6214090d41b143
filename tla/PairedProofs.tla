---------------------------- MODULE PairedProofs ----------------------------
(***************************************************************************)
(* Proof that spd joins a client only to the service it asked for, as long *)
(* as it is started again only after the service proxies have ended.       *)
(***************************************************************************)
EXTENDS RegistryProofs

-----------------------------------------------------------------------------
(* Queues with fewer packets of a kind *)

\* r has packets of P only if q has, and not two if q has not.
Fewer(r, q, P) == (Has(r, P) => Has(q, P)) /\ (Once(q, P) => Once(r, P))

\* A queue that stays the same, or is emptied.
LEMMA FewerSame ==
  ASSUME NEW q, NEW P
  PROVE  Fewer(q, q, P) /\ Fewer(<<>>, q, P) /\ ~Has(<<>>, P) /\ Once(<<>>, P)
BY DEF Fewer, Has, Once

\* Receiving a packet.
LEMMA FewerTail ==
  ASSUME NEW S, NEW q \in Seq(S), q # <<>>, NEW P
  PROVE  Fewer(Tail(q), q, P)
<1>1. \A i \in DOMAIN Tail(q) : i + 1 \in DOMAIN q /\ Tail(q)[i] = q[i + 1]
  BY TailPackets
<1>2. DOMAIN Tail(q) \subseteq Int
  OBVIOUS
<1> QED
  BY <1>1, <1>2 DEF Fewer, Has, Once

\* Queueing one of another kind.
LEMMA FewerAppend ==
  ASSUME NEW S, NEW q \in Seq(S), NEW p \in S, NEW P, p \notin P
  PROVE  Fewer(Append(q, p), q, P)
<1>1. \A i \in DOMAIN Append(q, p) :
        \/ i \in DOMAIN q /\ Append(q, p)[i] = q[i]
        \/ i = Len(q) + 1 /\ Append(q, p)[i] = p
  BY AppendPackets
<1> QED
  BY <1>1 DEF Fewer, Has, Once

\* Queueing the first of a kind.
LEMMA FirstAppended ==
  ASSUME NEW S, NEW q \in Seq(S), NEW p \in S, NEW P, ~Has(q, P)
  PROVE  Once(Append(q, p), P)
<1>1. \A i \in DOMAIN Append(q, p) :
        \/ i \in DOMAIN q /\ Append(q, p)[i] = q[i]
        \/ i = Len(q) + 1 /\ Append(q, p)[i] = p
  BY AppendPackets
<1> QED
  BY <1>1 DEF Has, Once

\* Receiving the only one of a kind.
LEMMA OnlyReceived ==
  ASSUME NEW S, NEW q \in Seq(S), q # <<>>, NEW P, Once(q, P), Head(q) \in P
  PROVE  ~Has(Tail(q), P)
<1>1. /\ 1 \in DOMAIN q /\ q[1] = Head(q)
      /\ \A i \in DOMAIN Tail(q) : i + 1 \in DOMAIN q /\ Tail(q)[i] = q[i + 1]
  BY TailPackets
<1>2. \A i \in DOMAIN Tail(q) : i \in Nat \ {0}
  OBVIOUS
<1> QED
  BY <1>1, <1>2 DEF Has, Once

\* The packets that name a client: who else sends what.
LEMMA Kinds ==
  /\ \A x, y : /\ makeProxyConnectRequest(y) \in Asks(x) => x = y
               /\ makeConnectionCreatedRequest(y) \in Answers(x) => x = y
               /\ makeConnectionFailedRequest(y) \in Answers(x) => x = y
  /\ \A x, y : /\ makeRegisterRequest(y) \notin Answers(x)
               /\ makeUnregisterRequest(y) \notin Answers(x)
               /\ makeConnectRequest(y) \notin Answers(x)
               /\ Payload \notin Answers(x)
               /\ makeResponse(y) \notin Answers(x) /\ makeResponse(y) \notin Asks(x)
BY DEF Asks, Answers, makeProxyConnectRequest, makeConnectionCreatedRequest,
   makeConnectionFailedRequest, makeRegisterRequest, makeUnregisterRequest,
   makeConnectRequest, makeRequest, Payload, makeResponse, REGISTER, UNREGISTER, CONNECT,
   CONNECTION_CREATED, CONNECTION_FAILED

-----------------------------------------------------------------------------
(* What the calls do to the queues *)

\* Service proxies have no new connect requests, and connections that nobody
\* dialled have nothing.
OutFewer ==
  /\ \A c \in Conn : outq'[c] = <<>> \/ outq[c] # <<>> \/ Used(c)
  /\ \A x : \A s \in Service : svc[s].connection \in Conn =>
       Fewer(outq'[svc[s].connection], outq[svc[s].connection], Asks(x))

\* spd has no new answers.
InFewer == \A x : \A a \in Conn : Fewer(inq'[a], inq[a], Answers(x))

\* A step that leaves the queues to the peers.
LEMMA OutSame ==
  ASSUME UNCHANGED outq
  PROVE  OutFewer
BY FewerSame DEF OutFewer

\* A peer receives.
LEMMA OutReceived ==
  ASSUME TypeOK, NEW c \in Conn, outq[c] # <<>>, PeerReceive(c)
  PROVE  OutFewer
<1>1. outq[c] \in Seq(Packet) /\ outq'[c] = Tail(outq[c])
  BY DEF TypeOK, TransportTypeOK, PeerReceive
<1>2. \A d \in Conn \ {c} : outq'[d] = outq[d]
  BY DEF TypeOK, TransportTypeOK, PeerReceive
<1>3. \A x : Fewer(Tail(outq[c]), outq[c], Asks(x))
  BY <1>1, FewerTail
<1> QED
  BY <1>1, <1>2, <1>3, FewerSame DEF OutFewer

\* A peer closes connections.
LEMMA OutClosed ==
  ASSUME NEW cs, PeerClose(cs)
  PROVE  OutFewer
<1>1. \A c \in Conn : outq'[c] = <<>> \/ outq'[c] = outq[c]
  BY DEF PeerClose
<1> QED
  BY <1>1, FewerSame DEF OutFewer

\* spd sends something else, or not to a service proxy.
LEMMA OutSent ==
  ASSUME TypeOK, NEW c, NEW p \in Packet, Send(c, p),
         (\A x : p \notin Asks(x)) \/ (\A s \in Service : svc[s].connection # c)
  PROVE  OutFewer
<1>1. \A d \in Conn \ {c} : outq'[d] = outq[d]
  BY DEF TypeOK, TransportTypeOK, Send
<1>2. c \in Conn => outq'[c] = outq[c] \/ (Used(c) /\ outq'[c] = Append(outq[c], p))
  BY DEF TypeOK, TransportTypeOK, Send, Used
<1>3. c \in Conn => outq[c] \in Seq(Packet)
  BY DEF TypeOK, TransportTypeOK
<1>4. ASSUME NEW s \in Service, NEW x, svc[s].connection \in Conn
      PROVE  Fewer(outq'[svc[s].connection], outq[svc[s].connection], Asks(x))
  <2>1. CASE svc[s].connection # c
    BY <1>1, <1>4, <2>1, FewerSame
  <2>2. CASE svc[s].connection = c
    <3>1. Fewer(Append(outq[c], p), outq[c], Asks(x))
      BY <1>3, <1>4, <2>2, FewerAppend
    <3> QED
      BY <1>2, <1>4, <2>2, <3>1, FewerSame
  <2> QED
    BY <2>1, <2>2
<1> QED
  BY <1>1, <1>2, <1>4 DEF OutFewer

\* A step that leaves the queues to spd.
LEMMA InSame ==
  ASSUME UNCHANGED inq
  PROVE  InFewer
BY FewerSame DEF InFewer

\* spd or a relay process receives.
LEMMA InReceived ==
  ASSUME TypeOK, OneReceived
  PROVE  InFewer
<1>1. CASE UNCHANGED inq
  BY <1>1, InSame
<1>2. ASSUME NEW c, inq[c] # <<>>, Consume(c)
      PROVE  InFewer
  <2>1. \A d \in Conn \ {c} : inq'[d] = inq[d]
    BY <1>2 DEF TypeOK, TransportTypeOK, Consume
  <2>2. c \in Conn => inq[c] \in Seq(Packet) /\ inq'[c] = Tail(inq[c])
    BY <1>2 DEF TypeOK, TransportTypeOK, Consume
  <2>3. c \in Conn => \A x : Fewer(Tail(inq[c]), inq[c], Answers(x))
    BY <1>2, <2>2, FewerTail
  <2> QED
    BY <2>1, <2>2, <2>3, FewerSame DEF InFewer
<1> QED
  BY <1>1, <1>2 DEF OneReceived

\* A proxy sends something that is no answer.
LEMMA InSent ==
  ASSUME TypeOK, NEW c, NEW p \in Packet, PeerSend(c, p), \A x : p \notin Answers(x)
  PROVE  InFewer
<1>1. \A d \in Conn \ {c} : inq'[d] = inq[d]
  BY DEF TypeOK, TransportTypeOK, PeerSend
<1>2. c \in Conn => /\ inq[c] \in Seq(Packet)
                    /\ inq'[c] = inq[c] \/ inq'[c] = Append(inq[c], p)
  BY DEF TypeOK, TransportTypeOK, PeerSend
<1>3. c \in Conn => \A x : Fewer(Append(inq[c], p), inq[c], Answers(x))
  BY <1>2, FewerAppend
<1> QED
  BY <1>1, <1>2, <1>3, FewerSame DEF InFewer

-----------------------------------------------------------------------------
(* Frames: steps that give nobody an id *)

ServiceFrame(s, x) ==
  /\ Bears(s, x)' => Bears(s, x)
  /\ ServiceOnce(s, x) => ServiceOnce(s, x)'
CarrierFrame(a, x) ==
  /\ Carries(a, x)' => Carries(a, x)
  /\ AnswerOnce(a, x) => AnswerOnce(a, x)'
Framed(x) ==
  /\ \A s \in Service : ServiceFrame(s, x)
  /\ \A a \in Conn : CarrierFrame(a, x)

\* No service proxy makes a new helper, or gets a connection.
SameMaking(s) ==
  /\ svc'[s].connection = svc[s].connection
  /\ svc'[s].pc \in {"dialling", "forking"} =>
       svc[s].pc \in {"dialling", "forking"} /\ svc'[s].clientID = svc[s].clientID
  /\ svc[s].pc = "exited" => svc'[s].pc = "exited"

\* No helper is started, or given another id.
SameHelping(a) ==
  helper'[a].pc = "connecting" =>
    helper[a].pc = "connecting" /\ helper'[a].clientID = helper[a].clientID

\* What keeps an id of a service proxy.
LEMMA ServiceFramesOf ==
  ASSUME NEW s \in Service, SameMaking(s), NEW x,
         svc[s].connection \in Conn =>
           Fewer(outq'[svc[s].connection], outq[svc[s].connection], Asks(x))
  PROVE  ServiceFrame(s, x)
<1>1. Asked(s, x)' => Asked(s, x)
  BY DEF Fewer, SameMaking, Asked, Reads
<1>2. Making(s, x)' => Making(s, x)
  BY DEF SameMaking, Making
<1>3. ServiceOnce(s, x) => ServiceOnce(s, x)'
  BY <1>1, <1>2 DEF Fewer, SameMaking, ServiceOnce, Reads
<1> QED
  BY <1>1, <1>2, <1>3 DEF ServiceFrame, Bears

\* What keeps them all.
LEMMA ServiceFrames ==
  ASSUME OutFewer, NEW s \in Service, SameMaking(s), NEW x
  PROVE  ServiceFrame(s, x)
BY ServiceFramesOf DEF OutFewer

\* What keeps the helpers' and spd's.
LEMMA CarrierFrames ==
  ASSUME SettledKept, InFewer, NEW a \in Conn, SameHelping(a), NEW x
  PROVE  CarrierFrame(a, x)
<1>1. Answered(a, x)' => Answered(a, x)
  BY DEF InFewer, Fewer, Answered
<1>2. Helping(a, x)' => Helping(a, x)
  BY DEF SameHelping, Helping
<1>3. AnswerOnce(a, x) => AnswerOnce(a, x)'
  BY <1>1, <1>2 DEF SettledKept, InFewer, Fewer, AnswerOnce
<1> QED
  BY <1>1, <1>2, <1>3 DEF SettledKept, CarrierFrame, Carries

\* Services keep their helpers.
ChildrenGrow == \A s \in Service : svc[s].children \subseteq svc'[s].children

\* A step that gives nobody x keeps it at one place, as long as x waits.
LEMMA FramedKeeps ==
  ASSUME NEW x, OneBearer(x), BearerWanted(x), Framed(x), ChildrenGrow,
         \A id \in ServerID : Wanted(x, id) => Wanted(x, id)'
  PROVE  OneBearer(x)' /\ BearerWanted(x)'
<1>1. OneBearer(x)'
  BY DEF OneBearer, Framed, ServiceFrame, CarrierFrame
<1>2. \A s \in Service : serviceID[s] \in ServerID
  BY ProcessAssumption
<1>3. BearerWanted(x)'
  BY <1>2 DEF BearerWanted, Framed, ServiceFrame, CarrierFrame, ChildrenGrow
<1> QED
  BY <1>1, <1>3

\* A step after which nobody has x.
LEMMA NobodyKeeps ==
  ASSUME NEW x, OneBearer(x), Framed(x),
         \A s \in Service : ~Bears(s, x)', \A a \in Conn : ~Carries(a, x)'
  PROVE  OneBearer(x)' /\ BearerWanted(x)'
BY DEF OneBearer, BearerWanted, Framed, ServiceFrame, CarrierFrame

-----------------------------------------------------------------------------
(* The steps of the peers *)

\* They bring nothing back that spd is done with.
LEMMA PeerKeepsSettled ==
  ASSUME TypeOK, PeerStepOK
  PROVE  SettledKept
BY PeerReturnsNone, KeepsSettled

\* They leave the clients and the children as they are.
LEMMA PeerKeepsPairs ==
  ASSUME RegistryInv, ChildrenApart, PairingInv, PeerStepOK, OutFewer, ChildrenGrow
  PROVE  /\ UnusedEmpty' /\ ChildrenOfClients' /\ PairedWithRequestedService'
         /\ \A x, id : Wanted(x, id) => Wanted(x, id)'
         /\ spd' = spd
<1>1. spd' = spd /\ fdTable' = fdTable /\ child' = child
      /\ pendingConnections' = pendingConnections
  BY DEF PeerStepOK, hostVars, serverVars
<1>2. UnusedEmpty'
  BY DEF PairingInv, UnusedEmpty, PeerStepOK, OutFewer, StaysUsed, Used
<1>3. \A a \in Conn : child[a].pc # "none" => child[a].client \in Conn
  BY DEF ChildrenApart, Settled
<1>4. \A k \in Client : client[k].connection \in Conn =>
        client'[k].connection = client[k].connection
  BY NumberTypes DEF PeerStepOK, OwnersKept
<1>5. ChildrenOfClients'
  BY <1>1, <1>3, <1>4 DEF PairingInv, ChildrenOfClients
<1>6. PairedWithRequestedService'
  BY <1>1, <1>3, <1>4 DEF PairingInv, PairedWithRequestedService, ChildrenGrow
<1>7. ASSUME NEW x, NEW id, Wanted(x, id)
      PROVE  Wanted(x, id)'
  BY <1>1, <1>4, <1>7 DEF Wanted, OpenAt
<1> QED
  BY <1>1, <1>2, <1>5, <1>6, <1>7

\* They keep the pairing when they give nobody an id.
LEMMA PeerFramed ==
  ASSUME RegistryInv, ChildrenApart, PairingInv, PeerStepOK, OutFewer, ChildrenGrow,
         spd = "up" => \A x \in NodeID : Framed(x)
  PROVE  PairingInv'
<1>1. /\ UnusedEmpty' /\ ChildrenOfClients' /\ PairedWithRequestedService'
      /\ \A x, id : Wanted(x, id) => Wanted(x, id)'
      /\ spd' = spd
  BY PeerKeepsPairs
<1>2. ASSUME spd = "up", NEW x \in NodeID
      PROVE  OneBearer(x)' /\ BearerWanted(x)'
  BY <1>1, <1>2, FramedKeeps DEF PairingInv
<1> QED
  BY <1>1, <1>2 DEF PairingInv

\* A service proxy that connects has nothing queued for it.
LEMMA ConnectFrames ==
  ASSUME TypeOK, UnusedEmpty, NEW s \in Service, Connect(s), NEW x
  PROVE  /\ OutFewer /\ ChildrenGrow
         /\ \A t \in Service : ServiceFrame(t, x)
<1>1. PICK c \in Conn : Connect(s)!2!(c)
  BY DEF Connect
<1>2. outq[c] = <<>> /\ outq' = outq
  BY <1>1, DialUses DEF TypeOK, UnusedEmpty, Connect
<1>3. OutFewer
  BY <1>2, OutSame
<1>4. /\ svc'[s].connection = c /\ svc'[s].pc = "dialled"
      /\ svc'[s].children = svc[s].children
      /\ \A t \in Service \ {s} : svc'[t] = svc[t]
  BY <1>1 DEF TypeOK, ServiceTypeOK
<1>5. \A t \in Service \ {s} : SameMaking(t)
  BY <1>4 DEF SameMaking
<1>6. ~Has(outq'[c], Asks(x)) /\ Once(outq'[c], Asks(x))
  BY <1>2, FewerSame
<1>7. ServiceFrame(s, x)
  <2>1. ~Asked(s, x)' /\ ~Making(s, x)'
    BY <1>4, <1>6 DEF Asked, Making
  <2> QED
    BY <1>4, <1>6, <2>1 DEF ServiceFrame, ServiceOnce, Bears
<1> QED
  BY <1>3, <1>4, <1>5, <1>7, ServiceFrames DEF ChildrenGrow

\* A request that a service proxy reads is no longer queued.
LEMMA ReadFrames ==
  ASSUME TypeOK, HandlesKnown, NEW s \in Service, ReadConnectRequest(s), NEW x
  PROVE  /\ OutFewer /\ ChildrenGrow
         /\ \A t \in Service : ServiceFrame(t, x)
<1> DEFINE c == svc[s].connection
           p == Head(outq[c])
<1>0. svc[s] \in SvcRecord
  BY SvcType DEF TypeOK
<1>1. outq[c] # <<>> /\ isConnectRequest(p) /\ PeerReceive(c) /\ svc[s].pc = "serving"
  BY DEF ReadConnectRequest
<1>2. /\ svc'[s].pc = "dialling" /\ svc'[s].clientID = p.node_id
      /\ svc'[s].connection = c /\ svc'[s].children = svc[s].children
      /\ \A t \in Service \ {s} : svc'[t] = svc[t]
  BY DEF ReadConnectRequest, TypeOK, ServiceTypeOK, getClientID
<1>3. \A t \in Service \ {s} : SameMaking(t)
  BY <1>2 DEF SameMaking
<1>4. c \in Conn /\ outq[c] \in Seq(Packet) /\ p \in Packet
  <2>1. c \in Conn
    BY <1>0, <1>1 DEF HandlesKnown, SvcReady, SvcRecord
  <2> QED
    BY <1>1, <2>1, PeerReceiveType DEF TypeOK, TransportTypeOK
<1>5. p = makeProxyConnectRequest(p.node_id)
  BY <1>1, <1>4 DEF isConnectRequest, HasType, Packet, Request, Response, Payload,
     makeProxyConnectRequest, makeRequest
<1>6. OutFewer /\ outq'[c] = Tail(outq[c])
  BY <1>1, <1>4, OutReceived DEF PeerReceive, TypeOK, TransportTypeOK
<1>7. /\ Asked(s, x)' => Asked(s, x)
      /\ Once(outq[c], Asks(x)) => Once(outq'[c], Asks(x))
  BY <1>1, <1>2, <1>4, <1>6 DEF OutFewer, Fewer, Asked, Reads
<1> HIDE DEF p
<1>8. ServiceFrame(s, x)
  <2>1. CASE x = p.node_id
    <3>1. p \in Asks(x) /\ Asked(s, x)
      BY <1>1, <1>4, <1>5, <2>1, TailPackets DEF Asks, Asked, Reads, Has, p
    <3>2. Once(outq[c], Asks(x)) => ~Has(Tail(outq[c]), Asks(x))
      BY <1>1, <1>4, <3>1, OnlyReceived DEF p
    <3>3. Once(outq[c], Asks(x)) => ~Asked(s, x)'
      BY <1>2, <1>6, <3>2 DEF Asked
    <3> QED
      BY <1>2, <1>4, <1>7, <3>1, <3>3 DEF ServiceFrame, ServiceOnce, Asked, Bears
  <2>2. CASE x # p.node_id
    <3>1. ~Making(s, x)'
      BY <1>2, <2>2 DEF Making
    <3> QED
      BY <1>1, <1>2, <1>4, <1>7, <3>1 DEF ServiceFrame, ServiceOnce, Reads, Bears
  <2> QED
    BY <2>1, <2>2
<1> QED
  BY <1>2, <1>3, <1>6, <1>8, ServiceFrames DEF ChildrenGrow

\* What else a service proxy does gives it no id.
LEMMA ServiceRest ==
  ASSUME TypeOK, NEW s \in Service,
         \/ ConnectRefused(s) \/ SendRegister(s) \/ ReadRegisterResponse(s)
         \/ ReadThrows(s) \/ DialProxy(s) \/ DialProxyFails(s) \/ ForkFails(s)
         \/ Interrupt(s) \/ InterruptRefused(s) \/ SendUnregister(s) \/ Crash(s)
  PROVE  OutFewer /\ ChildrenGrow /\ \A t \in Service : SameMaking(t)
<1> DEFINE R == OutFewer /\ ChildrenGrow /\ \A t \in Service : SameMaking(t)
<1>0. svc[s] \in SvcRecord /\ svc \in [Service -> SvcRecord]
  BY SvcType DEF TypeOK, ServiceTypeOK, SvcRecord
<1>g. ASSUME NEW pc \in {"awaiting", "serving", "exited"}, Goto(s, pc),
             svc[s].pc # "exited" \/ pc = "exited"
      PROVE  ChildrenGrow /\ \A t \in Service : SameMaking(t)
  BY <1>0, <1>g DEF Goto, ChildrenGrow, SameMaking
<1>e. ASSUME NEW cs, Exit(s, cs)
      PROVE  R
  BY <1>e, <1>g, ExitIsGoto, OutClosed DEF Exit
<1>1. ASSUME ConnectRefused(s) PROVE R
  BY <1>1, <1>g, OutSame DEF ConnectRefused, netVars
<1>2. ASSUME SendRegister(s) PROVE R
  BY <1>2, <1>g, OutSame DEF SendRegister
<1>3. ASSUME ReadRegisterResponse(s) PROVE R
  <2>1. CASE Exit(s, {})
    BY <2>1, <1>e
  <2>2. CASE Goto(s, "serving") /\ PeerReceive(svc[s].connection)
    <3>1. svc[s].connection \in Conn => OutFewer
      BY <1>3, <2>2, OutReceived DEF ReadRegisterResponse
    <3>2. svc[s].connection \notin Conn => OutFewer
      BY <2>2, OutSame DEF PeerReceive, TypeOK, TransportTypeOK
    <3> QED
      BY <1>3, <2>2, <3>1, <3>2, <1>g DEF ReadRegisterResponse
  <2> QED
    BY <1>3, <2>1, <2>2 DEF ReadRegisterResponse
<1>4. ASSUME ReadThrows(s) PROVE R
  BY <1>4, <1>e DEF ReadThrows
<1>5. ASSUME DialProxy(s) PROVE R
  <2>1. PICK a \in Conn : DialProxy(s)!2!(a)
    BY <1>5 DEF DialProxy
  <2>2. /\ svc'[s].connection = svc[s].connection /\ svc'[s].clientID = svc[s].clientID
        /\ svc'[s].children = svc[s].children
        /\ svc'[s].pc = "forking" => svc[s].pc = "dialling"
        /\ svc'[s].pc # "dialling" /\ svc[s].pc # "exited"
        /\ \A t \in Service \ {s} : svc'[t] = svc[t]
    BY <1>0, <1>5, <2>1 DEF DialProxy, SvcRecord
  <2> QED
    BY <1>5, <2>2, OutSame DEF DialProxy, ChildrenGrow, SameMaking
<1>6. ASSUME DialProxyFails(s) PROVE R
  BY <1>0, <1>6, OutSame DEF DialProxyFails, netVars, ChildrenGrow, SameMaking
<1>7. ASSUME ForkFails(s) PROVE R
  BY <1>0, <1>7, OutClosed DEF ForkFails, ChildrenGrow, SameMaking
<1>8. ASSUME Interrupt(s) PROVE R
  <2>1. PICK c \in Conn : Interrupt(s)!3!(c)
    BY <1>8 DEF Interrupt
  <2>2. /\ svc'[s].connection = svc[s].connection /\ svc'[s].clientID = svc[s].clientID
        /\ svc'[s].children = svc[s].children
        /\ svc'[s].pc = "forking" => svc[s].pc = "dialling"
        /\ svc'[s].pc # "dialling" /\ svc[s].pc # "exited"
        /\ \A t \in Service \ {s} : svc'[t] = svc[t]
    BY <1>0, <1>8, <2>1 DEF Interrupt, Alive, SvcRecord
  <2> QED
    BY <1>8, <2>2, OutSame DEF Interrupt, ChildrenGrow, SameMaking
<1>9. ASSUME InterruptRefused(s) PROVE R
  BY <1>9, <1>e DEF InterruptRefused
<1>10. ASSUME SendUnregister(s) PROVE R
  BY <1>10, <1>e DEF SendUnregister
<1>11. ASSUME Crash(s) PROVE R
  BY <1>11, <1>e DEF Crash
<1> QED
  BY <1>1, <1>2, <1>3, <1>4, <1>5, <1>6, <1>7, <1>8, <1>9, <1>10, <1>11

\* Sending no answer, or nothing, carries no id, if helpers stay what they are.
LEMMA ServiceSends ==
  ASSUME TypeOK, NEW s \in Service,
         \/ Connect(s) \/ ConnectRefused(s) \/ SendRegister(s)
         \/ ReadRegisterResponse(s) \/ ReadConnectRequest(s) \/ ReadThrows(s)
         \/ DialProxy(s) \/ DialProxyFails(s) \/ Fork(s) \/ ForkFails(s)
         \/ Interrupt(s) \/ InterruptRefused(s) \/ SendUnregister(s) \/ Crash(s)
  PROVE  InFewer /\ (Fork(s) \/ UNCHANGED helper)
<1>0. serviceID[s] \in NodeID
  BY ProcessAssumption DEF NodeID
<1>1. CASE SendRegister(s)
  BY <1>0, <1>1, InSent, PacketTypes, Kinds DEF SendRegister
<1>2. CASE SendUnregister(s)
  BY <1>0, <1>2, InSent, PacketTypes, Kinds DEF SendUnregister
<1>3. CASE ~SendRegister(s) /\ ~SendUnregister(s)
  BY <1>3, InSame DEF Connect, ConnectRefused, ReadRegisterResponse, ReadConnectRequest,
     ReadThrows, DialProxy, DialProxyFails, Fork, ForkFails, Interrupt,
     InterruptRefused, Crash, netVars
<1> QED
  BY <1>1, <1>2, <1>3

\* A helper that sends its answer has the id no longer.
LEMMA AnswerFrames ==
  ASSUME TypeOK, HandlesKnown, SettledKept, NEW s, NEW a \in Conn,
         HelperConnected(s, a) \/ HelperFailed(s, a), NEW x, NEW b \in Conn
  PROVE  CarrierFrame(b, x)
<1> DEFINE id == helper[a].clientID
<1>1. /\ helper[a].pc = "connecting" /\ helper'[a].pc # "connecting"
      /\ \A d \in Conn \ {a} : helper'[d] = helper[d]
  BY DEF HelperConnected, HelperFailed, HelperExit, TypeOK, ServiceTypeOK
<1>2. id \in NodeID
  BY <1>1 DEF HandlesKnown, HelperReady
<1>3. PICK p \in Packet : p \in Answers(id) /\ PeerSend(a, p)
  BY <1>2, PacketTypes DEF HelperConnected, HelperFailed, Answers
<1>4. \A y : p \in Answers(y) => y = id
  <2>1. p = makeConnectionCreatedRequest(id) \/ p = makeConnectionFailedRequest(id)
    BY <1>3 DEF Answers
  <2> QED
    BY <2>1, Kinds
<1>5. /\ \A d \in Conn \ {a} : inq'[d] = inq[d]
      /\ inq[a] \in Seq(Packet)
      /\ inq'[a] = inq[a] \/ inq'[a] = Append(inq[a], p)
  BY <1>3 DEF PeerSend, TypeOK, TransportTypeOK
<1> HIDE DEF id
<1>6. CASE b # a
  <2>1. Fewer(inq'[b], inq[b], Answers(x))
    BY <1>5, <1>6, FewerSame
  <2> QED
    BY <1>1, <1>6, <2>1 DEF SettledKept, CarrierFrame, Carries, AnswerOnce, Answered,
       Helping, Fewer
<1>7. CASE b = a /\ x = id
  <2>1. ~Has(inq[a], Answers(x)) => Once(inq'[a], Answers(x))
    <3>1. ~Has(inq[a], Answers(x)) => Once(Append(inq[a], p), Answers(x))
      BY <1>5, FirstAppended
    <3>2. ~Has(inq[a], Answers(x)) => Once(inq[a], Answers(x))
      BY DEF Has, Once
    <3> QED
      BY <1>5, <3>1, <3>2
  <2>2. Helping(a, x) /\ ~Helping(a, x)'
    BY <1>1, <1>7 DEF Helping, id
  <2> QED
    BY <1>7, <2>1, <2>2 DEF SettledKept, CarrierFrame, Carries, AnswerOnce, Answered
<1>8. CASE b = a /\ x # id
  <2>1. Fewer(inq'[a], inq[a], Answers(x))
    BY <1>4, <1>5, <1>8, FewerAppend, FewerSame
  <2>2. ~Helping(a, x)'
    BY <1>1 DEF Helping
  <2> QED
    BY <1>8, <2>1, <2>2 DEF SettledKept, CarrierFrame, Carries, AnswerOnce, Answered, Fewer
<1> QED
  BY <1>6, <1>7, <1>8

\* What else a helper does gives it none.
LEMMA HelperRest ==
  ASSUME TypeOK, NEW s \in Service, NEW a \in Conn,
         \/ HelperPayload(s, a) \/ HelperDone(s, a) \/ HelperInterrupt(s, a)
         \/ HelperInterruptRefused(s, a) \/ HelperUnregister(s, a) \/ HelperCrash(s, a)
  PROVE  InFewer /\ \A b \in Conn : SameHelping(b)
<1>0. serviceID[s] \in NodeID
  BY ProcessAssumption DEF NodeID
<1>1. InFewer
  <2>1. CASE HelperPayload(s, a)
    BY <2>1, InSent, PacketTypes, Kinds DEF HelperPayload
  <2>2. CASE HelperUnregister(s, a)
    BY <1>0, <2>2, InSent, PacketTypes, Kinds DEF HelperUnregister
  <2>3. CASE ~HelperPayload(s, a) /\ ~HelperUnregister(s, a)
    BY <2>3, InSame DEF HelperDone, HelperInterrupt, HelperInterruptRefused, HelperCrash
  <2> QED
    BY <2>1, <2>2, <2>3
<1>2. /\ helper'[a].pc # "connecting"
      /\ \A b \in Conn \ {a} : helper'[b] = helper[b]
  BY DEF HelperPayload, HelperDone, HelperInterrupt, HelperInterruptRefused,
     HelperUnregister, HelperCrash, HelperExit, TypeOK, ServiceTypeOK
<1> QED
  BY <1>1, <1>2 DEF SameHelping

\* A helper receives nothing from spd, and may close connections.
LEMMA HelperOut ==
  ASSUME NEW s, NEW a,
         \/ HelperConnected(s, a) \/ HelperFailed(s, a) \/ HelperPayload(s, a)
         \/ HelperDone(s, a) \/ HelperInterrupt(s, a) \/ HelperInterruptRefused(s, a)
         \/ HelperUnregister(s, a) \/ HelperCrash(s, a)
  PROVE  OutFewer /\ UNCHANGED svc
<1>1. UNCHANGED outq \/ \E cs : PeerClose(cs)
  BY DEF HelperConnected, HelperFailed, HelperPayload, HelperDone, HelperInterrupt,
     HelperInterruptRefused, HelperUnregister, HelperCrash, HelperExit
<1>2. UNCHANGED svc
  BY DEF HelperConnected, HelperFailed, HelperPayload, HelperDone, HelperInterrupt,
     HelperInterruptRefused, HelperUnregister, HelperCrash
<1> QED
  BY <1>1, <1>2, OutSame, OutClosed

\* Every step of a helper keeps the pairing.
LEMMA HelperPairing ==
  ASSUME RegistryInv, ChildrenApart, PairingInv, NEW s \in Service, NEW a \in Conn,
         UNCHANGED <<serverVars, client>>,
         \/ HelperConnected(s, a) \/ HelperFailed(s, a) \/ HelperPayload(s, a)
         \/ HelperDone(s, a) \/ HelperInterrupt(s, a) \/ HelperInterruptRefused(s, a)
         \/ HelperUnregister(s, a) \/ HelperCrash(s, a)
  PROVE  PairingInv'
<1>1. PeerStepOK
  BY HelperPeer
<1>2. OutFewer /\ UNCHANGED svc
  BY HelperOut
<1>3. \A x \in NodeID, t \in Service : ServiceFrame(t, x)
  BY <1>2, ServiceFrames DEF SameMaking
<1>4. \A x \in NodeID, b \in Conn : CarrierFrame(b, x)
  BY <1>1, PeerKeepsSettled, AnswerFrames, HelperRest, CarrierFrames DEF RegistryInv
<1> QED
  BY <1>1, <1>2, <1>3, <1>4, PeerFramed DEF Framed, ChildrenGrow

\* A service proxy that forks a helper hands its id over.
LEMMA ForkPairing ==
  ASSUME RegistryInv, ChildrenApart, PairingInv, NEW s \in Service, Fork(s),
         UNCHANGED <<serverVars, client>>
  PROVE  PairingInv'
<1> DEFINE a == svc[s].newProxyConnection
           id == svc[s].clientID
<1>0. TypeOK /\ svc[s] \in SvcRecord
  BY SvcType DEF RegistryInv, TypeOK
<1>1. PeerStepOK
  BY ServicePeer
<1>2. a \in Conn /\ svc[s].pc = "forking"
  BY <1>0 DEF Fork, RegistryInv, HandlesKnown, SvcReady, SvcRecord
<1>3. /\ svc'[s].pc = "serving" /\ svc'[s].connection = svc[s].connection
      /\ svc'[s].children = svc[s].children \cup {a}
      /\ \A t \in Service \ {s} : svc'[t] = svc[t]
  BY <1>0 DEF Fork, TypeOK, ServiceTypeOK
<1>4. /\ helper'[a].clientID = id
      /\ \A b \in Conn \ {a} : helper'[b] = helper[b]
  BY <1>0, <1>2 DEF Fork, TypeOK, ServiceTypeOK
<1>5. outq' = outq /\ inq' = inq
  BY DEF Fork, netVars
<1>6. OutFewer /\ InFewer /\ ChildrenGrow /\ SettledKept
  BY <1>0, <1>1, <1>3, <1>5, OutSame, InSame, PeerKeepsSettled DEF ChildrenGrow
<1>7. /\ UnusedEmpty' /\ ChildrenOfClients' /\ PairedWithRequestedService'
      /\ \A x, jd : Wanted(x, jd) => Wanted(x, jd)'
      /\ spd' = spd
  BY <1>1, <1>6, PeerKeepsPairs
<1>8. \A x : \A t \in Service : ServiceFrame(t, x)
  <2>1. \A t \in Service : SameMaking(t)
    BY <1>2, <1>3 DEF SameMaking
  <2> QED
    BY <1>6, <2>1, ServiceFrames
<1> HIDE DEF a, id
<1>9. ASSUME NEW x, NEW b \in Conn, b # a \/ x # id
      PROVE  CarrierFrame(b, x)
  <2>1. Helping(b, x)' => Helping(b, x)
    BY <1>4, <1>9 DEF Helping
  <2> QED
    BY <1>5, <1>6, <2>1 DEF SettledKept, CarrierFrame, Carries, Answered, AnswerOnce
<1>10. ASSUME spd = "up", NEW x \in NodeID
       PROVE  OneBearer(x)' /\ BearerWanted(x)'
  <2>0. OneBearer(x) /\ BearerWanted(x)
    BY <1>10 DEF PairingInv
  <2>1. CASE x # id
    BY <1>6, <1>7, <1>8, <1>9, <2>0, <2>1, FramedKeeps DEF Framed
  <2>2. CASE x = id
    <3>1. Making(s, x) /\ Bears(s, x)
      BY <1>2, <2>2 DEF Making, Bears, id
    <3>2. /\ \A t \in Service : Bears(t, x) => t = s
          /\ \A b \in Conn : ~Carries(b, x)
      BY <2>0, <3>1 DEF OneBearer
    <3>3. \A t \in Service : ~Bears(t, x)'
      <4>1. ~Making(s, x)' /\ ~Asked(s, x)'
        BY <1>2, <1>3, <1>5, <2>0, <3>1 DEF OneBearer, ServiceOnce, Making, Asked, Reads
      <4> QED
        BY <1>8, <3>2, <4>1 DEF ServiceFrame, Bears
    <3>4. \A b \in Conn : (Carries(b, x)' => b = a) /\ AnswerOnce(b, x)'
      <4>1. ASSUME NEW b \in Conn
            PROVE  Settled(b)' \/ (~Answered(b, x)' /\ Once(inq'[b], Answers(x)))
        BY <1>5, <1>6, <2>0, <3>2 DEF SettledKept, Carries, Answered, OneBearer, AnswerOnce
      <4>2. \A b \in Conn : Carries(b, x)' => b = a
        BY <1>9, <3>2 DEF CarrierFrame
      <4> QED
        BY <4>1, <4>2 DEF AnswerOnce
    <3>5. OneBearer(x)'
      BY <1>8, <2>0, <3>3, <3>4 DEF OneBearer, ServiceFrame
    <3>6. a \in svc'[s].children /\ Wanted(x, serviceID[s])'
      BY <1>3, <1>7, <2>0, <3>1 DEF BearerWanted
    <3>7. BearerWanted(x)'
      BY <3>3, <3>4, <3>6 DEF BearerWanted
    <3> QED
      BY <3>5, <3>7
  <2> QED
    BY <2>1, <2>2
<1> QED
  BY <1>7, <1>10 DEF PairingInv

\* Every step of a service proxy keeps the pairing.
LEMMA ServicePairing ==
  ASSUME RegistryInv, ChildrenApart, PairingInv, NEW s \in Service,
         UNCHANGED <<serverVars, client>>,
         \/ Connect(s) \/ ConnectRefused(s) \/ SendRegister(s)
         \/ ReadRegisterResponse(s) \/ ReadConnectRequest(s) \/ ReadThrows(s)
         \/ DialProxy(s) \/ DialProxyFails(s) \/ Fork(s) \/ ForkFails(s)
         \/ Interrupt(s) \/ InterruptRefused(s) \/ SendUnregister(s) \/ Crash(s)
  PROVE  PairingInv'
<1>0. TypeOK /\ HandlesKnown /\ UnusedEmpty
  BY DEF RegistryInv, PairingInv
<1>1. CASE Fork(s)
  BY <1>1, ForkPairing
<1>2. CASE ~Fork(s)
  <2>1. PeerStepOK
    BY ServicePeer
  <2>2. InFewer /\ UNCHANGED helper
    BY <1>0, <1>2, ServiceSends
  <2>3. \A x : \A b \in Conn : CarrierFrame(b, x)
    BY <1>0, <2>1, <2>2, PeerKeepsSettled, CarrierFrames DEF SameHelping
  <2>4. /\ OutFewer /\ ChildrenGrow
        /\ \A x : \A t \in Service : ServiceFrame(t, x)
    <3>1. CASE Connect(s)
      BY <1>0, <3>1, ConnectFrames
    <3>2. CASE ReadConnectRequest(s)
      BY <1>0, <3>2, ReadFrames
    <3>3. CASE ~Connect(s) /\ ~ReadConnectRequest(s)
      <4>1. OutFewer /\ ChildrenGrow /\ \A t \in Service : SameMaking(t)
        BY <1>0, <1>2, <3>3, ServiceRest
      <4> QED
        BY <4>1, ServiceFrames
    <3> QED
      BY <3>1, <3>2, <3>3
  <2> QED
    BY <2>1, <2>3, <2>4, PeerFramed DEF Framed
<1> QED
  BY <1>1, <1>2

\* So does every step of a client proxy.
LEMMA ClientPairing ==
  ASSUME RegistryInv, ChildrenApart, PairingInv, NEW k \in Client,
         UNCHANGED <<serverVars, serviceVars>>,
         \/ ClientConnect(k) \/ ClientConnectRefused(k) \/ SendConnect(k)
         \/ ReadConnectResponse(k) \/ ClientReadThrows(k) \/ ClientRecvFails(k)
         \/ ClientListenFails(k) \/ ClientAccept(k) \/ ClientDone(k) \/ ClientCrash(k)
  PROVE  PairingInv'
<1>0. TypeOK /\ wantedID[k] \in NodeID
  BY ProcessAssumption DEF RegistryInv, NodeID
<1>1. PeerStepOK
  BY ClientPeer DEF serviceVars
<1>2. OutFewer
  <2>1. \/ UNCHANGED outq \/ \E cs : PeerClose(cs)
        \/ outq[client[k].connection] # <<>> /\ PeerReceive(client[k].connection)
    BY DEF ClientConnect, ClientConnectRefused, SendConnect, ReadConnectResponse,
       ClientReadThrows, ClientRecvFails, ClientListenFails, ClientAccept, ClientDone,
       ClientCrash, ClientExit, netVars
  <2>2. CASE outq[client[k].connection] # <<>> /\ PeerReceive(client[k].connection)
    <3>1. client[k].connection \in Conn => OutFewer
      BY <1>0, <2>2, OutReceived
    <3>2. client[k].connection \notin Conn => OutFewer
      BY <1>0, <2>2, OutSame DEF PeerReceive, TypeOK, TransportTypeOK
    <3> QED
      BY <3>1, <3>2
  <2> QED
    BY <2>1, <2>2, OutSame, OutClosed
<1>3. InFewer
  <2>1. CASE SendConnect(k)
    BY <1>0, <2>1, InSent, PacketTypes, Kinds DEF SendConnect
  <2>2. CASE ~SendConnect(k)
    BY <2>2, InSame DEF ClientConnect, ClientConnectRefused, ReadConnectResponse,
       ClientReadThrows, ClientRecvFails, ClientListenFails, ClientAccept, ClientDone,
       ClientCrash, netVars
  <2> QED
    BY <2>1, <2>2
<1>4. ChildrenGrow /\ \A x : Framed(x)
  BY <1>0, <1>1, <1>2, <1>3, PeerKeepsSettled, ServiceFrames, CarrierFrames DEF Framed, ChildrenGrow, SameMaking,
     SameHelping, serviceVars
<1> QED
  BY <1>1, <1>2, <1>4, PeerFramed

-----------------------------------------------------------------------------
(* The steps of spd *)

\* No child is forked, and none gets another client or outcome.
SamePairs ==
  \A a \in Conn : /\ child'[a].client = child[a].client
                  /\ child'[a].ok = child[a].ok
                  /\ child'[a].pc = "none" <=> child[a].pc = "none"

\* An spd that goes on forgets no client that waits.
KeepsWaiting ==
  spd' = "up" =>
    /\ spd = "up"
    /\ \A x \in pendingConnections :
         x \in pendingConnections' /\ fdTable'[atoi(x)] = fdTable[atoi(x)]

\* Who waits for a service goes on waiting for it.
LEMMA WantedKept ==
  ASSUME UNCHANGED client, NEW x, x \in pendingConnections =>
           x \in pendingConnections' /\ fdTable'[atoi(x)] = fdTable[atoi(x)],
         NEW id, Wanted(x, id)
  PROVE  Wanted(x, id)'
BY DEF Wanted, OpenAt

\* A step of spd that gives nobody an id, and answers nobody.
LEMMA SpdFramed ==
  ASSUME RegistryInv, PairingInv, SettledKept, UNCHANGED <<svc, helper, client, peer>>,
         OutFewer, OneReceived, SamePairs, KeepsWaiting
  PROVE  PairingInv'
<1>1. UnusedEmpty'
  BY DEF PairingInv, UnusedEmpty, OutFewer, Used
<1>2. ChildrenOfClients' /\ PairedWithRequestedService'
  BY DEF PairingInv, ChildrenOfClients, PairedWithRequestedService, SamePairs
<1>3. \A x : Framed(x)
  BY InReceived, ServiceFrames, CarrierFrames DEF RegistryInv, Framed, SameMaking, SameHelping
<1>4. ASSUME spd' = "up", NEW x \in NodeID
      PROVE  OneBearer(x)' /\ BearerWanted(x)'
  <2>1. OneBearer(x) /\ BearerWanted(x)
    BY <1>4 DEF PairingInv, KeepsWaiting
  <2>2. \A id \in ServerID : Wanted(x, id) => Wanted(x, id)'
    BY <1>4, WantedKept DEF KeepsWaiting
  <2> QED
    BY <1>3, <2>1, <2>2, FramedKeeps DEF ChildrenGrow
<1> QED
  BY <1>1, <1>2, <1>4 DEF PairingInv

\* Closing numbers that no client waits at.
LEMMA ClosingKeepsWaiting ==
  ASSUME RegistryInv, UNCHANGED spd, UNCHANGED pendingConnections,
         NEW fs, fdTable' = CloseFds(fs), \A x \in pendingConnections : atoi(x) \notin fs
  PROVE  KeepsWaiting
<1>1. \A x \in pendingConnections : atoi(x) \in FD
  BY ClientNames DEF RegistryInv, TypeOK, ServerTypeOK
<1> QED
  BY <1>1 DEF KeepsWaiting, CloseFds

\* Registering, unregistering, refusing and accepting keep the pairing.
LEMMA RefusalPairing ==
  ASSUME RegistryInv, PairingInv, SettledKept, UNCHANGED <<serviceVars, client>>,
         \/ AcceptConnection \/ RecvError \/ ParseThrows \/ HandleConnectKilled
         \/ HandleRegister \/ HandleUnregister
         \/ HandleConnectUnknown \/ HandleUnexpected
         \/ \E x \in ClientID, success \in BOOLEAN :
              HandleAnswer!(x, success) /\ RefuseAnswer(x)
  PROVE  PairingInv'
<1> USE DEF RegistryInv, serviceVars
<1> DEFINE R == OutFewer /\ OneReceived /\ SamePairs /\ KeepsWaiting /\ UNCHANGED peer
<1>0. \A x \in pendingConnections : atoi(x) \in FD /\ fdTable[atoi(x)] \in Conn
  BY DEF DescriptorsNotStale, PendingNotStale, OpenAt
<1>1. CASE AcceptConnection
  <2>1. PICK f \in FD : fdTable[f] = NoConn /\ fdTable' = [fdTable EXCEPT ![f] = Head(backlog)]
    BY <1>1 DEF AcceptConnection
  <2>2. \A x \in pendingConnections : fdTable'[atoi(x)] = fdTable[atoi(x)]
    BY <1>0, <2>1, NumberTypes DEF TypeOK, TransportTypeOK
  <2>3. R
    BY <1>1, <2>2, OutSame DEF AcceptConnection, OneReceived, SamePairs, KeepsWaiting
  <2> QED
    BY <2>3, SpdFramed
<1>2. CASE RecvError \/ ParseThrows \/ HandleConnectKilled
  <2>1. R
    BY <1>2, OutSame DEF RecvError, ParseThrows, HandleConnectKilled, Die, ProcessExit,
       hostVars, netVars, OneReceived, SamePairs, KeepsWaiting
  <2> QED
    BY <2>1, SpdFramed
<1>3. ASSUME NEW ok \in BOOLEAN, Send(request, makeResponse(ok)), NEW req, Receive(req),
             UNCHANGED <<child, peer>>, KeepsWaiting
      PROVE  R
  <2>1. OutFewer
    BY <1>3, OutSent, PacketTypes, Kinds
  <2>2. OneReceived
    BY <1>3, RequestReceived
  <2> QED
    BY <1>3, <2>1, <2>2 DEF SamePairs
<1>4. ASSUME requestFd # NoFd
      PROVE  \A x \in pendingConnections : atoi(x) \notin {requestFd}
  BY <1>4, NumbersDistinct
<1>5. CASE HandleRegister
  <2>1. PICK id \in ServerID : HandleRegister!(id)
    BY <1>5 DEF HandleRegister
  <2>2. PICK ok \in BOOLEAN : Send(request, makeResponse(ok))
    <3>1. (~Registered(id)) \in BOOLEAN
      OBVIOUS
    <3> QED
      BY <2>1, <3>1
  <2>3. KeepsWaiting
    BY <2>1 DEF hostVars, KeepsWaiting
  <2>4. R
    BY <2>1, <2>2, <2>3, <1>3
  <2> QED
    BY <2>4, SpdFramed
<1>6. CASE HandleUnregister
  <2>1. PICK id \in ServerID : HandleUnregister!(id)
    BY <1>6 DEF HandleUnregister
  <2>2. \A x \in pendingConnections : atoi(x) \notin ClosedByUnregister(id)
    BY <1>0, <2>1, NumbersDistinct, NumberTypes DEF ClosedByUnregister, Registered, Receive,
       Handling
  <2>3. KeepsWaiting
    BY <2>1, <2>2, ClosingKeepsWaiting
  <2>4. R
    BY <2>1, <2>3, <1>3
  <2> QED
    BY <2>4, SpdFramed
<1>7. CASE HandleConnectUnknown
  <2>1. PICK id \in ServerID : HandleConnectUnknown!(id)
    BY <1>7 DEF HandleConnectUnknown
  <2>2. KeepsWaiting
    BY <2>1, <1>4, ClosingKeepsWaiting DEF Receive, Handling
  <2>3. R
    BY <2>1, <2>2, <1>3
  <2> QED
    BY <2>3, SpdFramed
<1>8. CASE HandleUnexpected
  <2>1. KeepsWaiting
    BY <1>8, <1>4, ClosingKeepsWaiting DEF HandleUnexpected, Receive, Handling
  <2>2. R
    BY <1>8, <2>1, <1>3 DEF HandleUnexpected
  <2> QED
    BY <2>2, SpdFramed
<1>9. CASE \E x \in ClientID, success \in BOOLEAN :
             HandleAnswer!(x, success) /\ RefuseAnswer(x)
  <2>1. KeepsWaiting
    BY <1>9, <1>4, ClosingKeepsWaiting DEF RefuseAnswer, Receive, Handling
  <2>2. R
    BY <1>9, <2>1, <1>3 DEF RefuseAnswer
  <2> QED
    BY <2>2, SpdFramed
<1> QED
  BY <1>1, <1>2, <1>5, <1>6, <1>7, <1>8, <1>9

\* spd gives a client's id to the service it asks for: nobody has it yet, for
\* the number was free until the client was accepted.
LEMMA ConnectPairing ==
  ASSUME RegistryInv, PairingInv, SettledKept, HandleConnect,
         UNCHANGED <<serviceVars, client>>
  PROVE  PairingInv'
<1> USE DEF RegistryInv
<1>1. PICK id \in ServerID : HandleConnect!(id)
  BY DEF HandleConnect
<1> DEFINE y == to_string(requestFd)
           c == fdTable[serverMap[id]]
           p == makeProxyConnectRequest(y)
<1>2. /\ requestFd \in FD /\ request \in Conn /\ OneReceived
      /\ 1 \in DOMAIN inq[request] /\ inq[request][1] = makeConnectRequest(id)
  BY <1>1, RequestReceived
<1>3. PICK k \in Client : wantedID[k] = id /\ client[k].connection = request
  BY <1>2 DEF PacketsOwned
<1>4. PICK s \in Service : serviceID[s] = id /\ c \in Conn /\ svc[s].connection = c
  BY <1>1 DEF DescriptorsNotStale, RegistryNotStale, OpenAt
<1>5. /\ UNCHANGED <<spd, fdTable, child, peer, svc, helper, client>>
      /\ pendingConnections' = pendingConnections \cup {y}
      /\ spd = "up" /\ requestFd # NoFd /\ Send(c, p)
  BY <1>1 DEF hostVars, serviceVars, Receive, Handling
<1>6. /\ y \notin pendingConnections /\ y \in ClientID /\ y \in NodeID /\ atoi(y) = requestFd
      /\ p \in Packet
  BY <1>2, <1>5, ClientNames, PacketTypes DEF HandlingFresh, NodeID
<1>7. /\ \A d \in Conn \ {c} : outq'[d] = outq[d]
      /\ outq'[c] = outq[c] \/ outq'[c] = Append(outq[c], p)
      /\ outq[c] \in Seq(Packet)
  BY <1>4, <1>5 DEF Send, TypeOK, TransportTypeOK
<1>8. \A x : p \in Asks(x) => x = y
  BY Kinds
<1> HIDE DEF c, p
<1>9. \A x : \A a \in Conn : CarrierFrame(a, x)
  BY <1>2, <1>5, InReceived, CarrierFrames DEF SameHelping
<1>10. ASSUME NEW x, NEW t \in Service, x # y \/ t # s
       PROVE  ServiceFrame(t, x)
  <2>1. CASE svc[t].connection = c
    <3>1. t = s
      BY <1>4, <2>1, NumberTypes DEF OwnersDistinct
    <3>2. Fewer(outq'[c], outq[c], Asks(x))
      BY <1>7, <1>8, <1>6, <1>10, <3>1, FewerSame, FewerAppend
    <3> QED
      BY <1>5, <2>1, <3>2, ServiceFramesOf DEF SameMaking
  <2>2. CASE svc[t].connection # c
    <3>1. svc[t].connection \in Conn =>
            Fewer(outq'[svc[t].connection], outq[svc[t].connection], Asks(x))
      BY <1>7, <2>2, FewerSame
    <3> QED
      BY <1>5, <3>1, ServiceFramesOf DEF SameMaking
  <2> QED
    BY <2>1, <2>2
<1>11. UnusedEmpty'
  <2>1. Used(c)
    BY <1>4, NumberTypes DEF OwnersDistinct
  <2> QED
    BY <1>5, <1>7, <2>1 DEF PairingInv, UnusedEmpty, Used
<1>12. ChildrenOfClients' /\ PairedWithRequestedService'
  BY <1>5 DEF PairingInv, ChildrenOfClients, PairedWithRequestedService
<1>13. ASSUME NEW x \in NodeID
       PROVE  OneBearer(x)' /\ BearerWanted(x)'
  <2>1. OneBearer(x) /\ BearerWanted(x)
    BY <1>5 DEF PairingInv
  <2>2. CASE x # y
    <3>1. \A jd \in ServerID : Wanted(x, jd) => Wanted(x, jd)'
      BY <1>5, WantedKept
    <3> QED
      BY <1>5, <1>9, <1>10, <2>1, <2>2, <3>1, FramedKeeps DEF Framed, ChildrenGrow
  <2>3. CASE x = y
    <3>1. (\A t \in Service : ~Bears(t, x)) /\ (\A a \in Conn : ~Carries(a, x))
      BY <1>6, <2>1, <2>3 DEF BearerWanted, Wanted
    <3>2. (\A t \in Service \ {s} : ~Bears(t, x)') /\ (\A a \in Conn : ~Carries(a, x)')
      BY <1>9, <1>10, <3>1 DEF ServiceFrame, CarrierFrame
    <3>3. ~Making(s, x)'
      BY <1>5, <3>1 DEF Bears, Making
    <3>4. ASSUME Reads(s)
          PROVE  Once(outq'[c], Asks(x))
      <4>1. ~Has(outq[c], Asks(x))
        BY <1>4, <3>1, <3>4 DEF Bears, Asked
      <4>2. Once(outq[c], Asks(x))
        BY <4>1 DEF Has, Once
      <4>3. Once(Append(outq[c], p), Asks(x))
        BY <1>6, <1>7, <4>1, FirstAppended
      <4> QED
        BY <1>7, <4>2, <4>3
    <3>5. \A t \in Service : ServiceOnce(t, x)'
      <4>1. ServiceOnce(s, x)'
        BY <1>4, <1>5, <3>3, <3>4 DEF ServiceOnce, Reads
      <4> QED
        BY <1>10, <2>1, <4>1 DEF ServiceFrame, OneBearer
    <3>6. OneBearer(x)'
      BY <1>9, <2>1, <3>2, <3>5 DEF OneBearer, CarrierFrame
    <3>7. Wanted(x, serviceID[s])'
      BY <1>2, <1>3, <1>4, <1>5, <1>6, <2>3 DEF Wanted, OpenAt, request
    <3>8. BearerWanted(x)'
      BY <3>2, <3>7 DEF BearerWanted
    <3> QED
      BY <3>6, <3>8
  <2> QED
    BY <2>2, <2>3
<1> QED
  BY <1>11, <1>12, <1>13 DEF PairingInv

\* spd is not done with a connection whose request it handles.
LEMMA RequestUnsettled ==
  ASSUME requestFd \in FD
  PROVE  ~Settled(request)
BY DEF Settled, request

\* spd forks the messenger of a client for the service that had its id, and
\* nobody has the id then.
LEMMA ResolvePairing ==
  ASSUME RegistryInv, PairingInv, SettledKept, UNCHANGED <<serviceVars, client>>,
         NEW x \in ClientID, NEW success \in BOOLEAN,
         HandleAnswer!(x, success), ResolvePending(x, success)
  PROVE  PairingInv'
<1> USE DEF RegistryInv
<1> DEFINE p == IF success THEN makeConnectionCreatedRequest(x)
                           ELSE makeConnectionFailedRequest(x)
<1>1. /\ requestFd \in FD /\ request \in Conn /\ OneReceived
      /\ 1 \in DOMAIN inq[request] /\ inq[request][1] = p
      /\ Receive(p)
  BY RequestReceived
<1>2. /\ UNCHANGED <<spd, outq, peer, svc, helper, client>>
      /\ spd = "up" /\ requestFd # NoFd
      /\ fdTable' = CloseFds({atoi(x), requestFd})
      /\ pendingConnections' = pendingConnections \ {x}
      /\ x \in NodeID /\ x \in pendingConnections
  BY <1>1 DEF ResolvePending, NoLongerPending, serviceVars, Receive, Handling, NodeID
<1>3. p \in Answers(x)
  BY DEF Answers
<1> HIDE DEF p
<1>4. Answered(request, x) /\ Carries(request, x)
  BY <1>1, <1>3, RequestUnsettled DEF Answered, Has, Carries
<1>5. OneBearer(x) /\ BearerWanted(x)
  BY <1>2 DEF PairingInv
<1>6. PICK s \in Service : request \in svc[s].children /\ Wanted(x, serviceID[s])
  BY <1>1, <1>4, <1>5 DEF BearerWanted
<1>7. PICK k \in Client : /\ wantedID[k] = serviceID[s]
                          /\ client[k].connection = fdTable[atoi(x)]
  BY <1>6 DEF Wanted, OpenAt
<1>8. \A y : Framed(y)
  BY <1>1, <1>2, InReceived, OutSame, ServiceFrames, CarrierFrames DEF Framed, SameMaking,
     SameHelping
<1>9. UnusedEmpty'
  BY <1>2 DEF PairingInv, UnusedEmpty, Used
<1>10. \A a \in Conn :
         \/ child'[a] = child[a]
         \/ a = request /\ child'[a].client = fdTable[atoi(x)]
  BY <1>1 DEF ResolvePending, Forked, TypeOK, ServerTypeOK
<1>11. ChildrenOfClients'
  BY <1>2, <1>7, <1>10 DEF PairingInv, ChildrenOfClients
<1>12. PairedWithRequestedService'
  BY <1>2, <1>6, <1>7, <1>10 DEF PairingInv, PairedWithRequestedService
<1>13. ASSUME NEW y \in NodeID
       PROVE  OneBearer(y)' /\ BearerWanted(y)'
  <2>1. CASE y # x
    <3>1. y \in pendingConnections =>
            y \in pendingConnections' /\ fdTable'[atoi(y)] = fdTable[atoi(y)]
      <4>1. y \in pendingConnections => atoi(y) \in FD /\ atoi(y) \notin {atoi(x), requestFd}
        BY <1>2, <2>1, NumbersDistinct, ClientNames DEF TypeOK, ServerTypeOK
      <4> QED
        BY <1>2, <2>1, <4>1 DEF CloseFds
    <3>2. \A id \in ServerID : Wanted(y, id) => Wanted(y, id)'
      BY <1>2, <3>1, WantedKept
    <3> QED
      BY <1>2, <1>8, <3>2, FramedKeeps DEF PairingInv, ChildrenGrow
  <2>2. CASE y = x
    <3>1. \A t \in Service : ~Bears(t, x)'
      BY <1>1, <1>4, <1>5, <1>8 DEF OneBearer, Framed, ServiceFrame
    <3>2. PICK a \in Conn : a = request
      BY <1>1
    <3>3. \A b \in Conn \ {a} : ~Carries(b, x)'
      BY <1>4, <1>5, <1>8, <3>2 DEF OneBearer, Framed, CarrierFrame
    <3>4. inq[a] \in Seq(Packet) /\ inq[a] # <<>> /\ p = Head(inq[a])
      BY <1>1, <3>2 DEF Receive, TypeOK, TransportTypeOK
    <3>5. Once(inq[a], Answers(x)) /\ ~Helping(a, x)
      BY <1>1, <1>4, <1>5, <3>2, RequestUnsettled DEF OneBearer, AnswerOnce
    <3>6. inq'[a] = Tail(inq[a])
      BY <1>1, <3>2 DEF Receive, Consume, TypeOK, TransportTypeOK
    <3>7. ~Has(inq'[a], Answers(x))
      BY <1>3, <3>4, <3>5, <3>6, OnlyReceived
    <3>8. ~Carries(a, x)'
      BY <1>2, <3>5, <3>7 DEF Carries, Answered, Helping
    <3> QED
      BY <1>5, <1>8, <2>2, <3>1, <3>3, <3>8, NobodyKeeps
  <2> QED
    BY <2>1, <2>2
<1> QED
  BY <1>9, <1>11, <1>12, <1>13 DEF PairingInv

\* What a relay process does gives nobody an id: it sends to a client, and
\* what it sends there no service proxy reads.
LEMMA ChildPairing ==
  ASSUME RegistryInv, ChildrenApart, PairingInv, SettledKept, UNCHANGED <<serviceVars, client>>,
         NEW a \in Conn, ChildNotify(a) \/ ChildForward(a) \/ ChildRelayed(a) \/ ChildKilled(a)
  PROVE  PairingInv'
<1> USE DEF RegistryInv
<1>1. OutFewer
  <2>1. CASE ChildNotify(a)
    <3>1. PICK ok \in BOOLEAN : Send(child[a].client, makeResponse(ok))
      BY <2>1 DEF ChildNotify, Notice, TypeOK, ServerTypeOK
    <3> QED
      BY <3>1, OutSent, PacketTypes, Kinds
  <2>2. CASE ChildForward(a)
    <3>1. Head(inq[a]) \in Packet
      BY <2>2, ConsumeType DEF ChildForward, TypeOK
    <3>2. child[a].client \in Conn
      BY <2>2 DEF ChildForward, ChildrenApart, Settled
    <3>3. \A s \in Service : svc[s].connection # child[a].client
      BY <2>2, <3>2, NumberTypes DEF ChildForward, PairingInv, ChildrenOfClients,
         OwnersDistinct
    <3> QED
      BY <2>2, <3>1, <3>3, OutSent DEF ChildForward
  <2>3. CASE ChildRelayed(a) \/ ChildKilled(a)
    BY <2>3, OutSame DEF ChildRelayed, ChildKilled
  <2> QED
    BY <2>1, <2>2, <2>3
<1>2. OneReceived
  BY DEF ChildNotify, ChildForward, ChildRelayed, ChildKilled, ChildExit, OneReceived
<1>3. SamePairs
  BY DEF ChildNotify, ChildForward, ChildRelayed, ChildKilled, ChildExit, serverVars,
     SamePairs, TypeOK, ServerTypeOK
<1>4. KeepsWaiting /\ UNCHANGED peer
  BY DEF ChildNotify, ChildForward, ChildRelayed, ChildKilled, ChildExit, hostVars,
     serverVars, KeepsWaiting
<1> QED
  BY <1>1, <1>2, <1>3, <1>4, SpdFramed DEF serviceVars

\* A new spd meets nobody with an id, when the service proxies have ended: a
\* connection of a helper either was with the last spd, or is to be dialled.
LEMMA RestartPairing ==
  ASSUME RegistryInv, PairingInv, NothingLeft, SettledKept, Run,
         UNCHANGED <<serviceVars, client>>, \A s \in Service : ~Alive(s)
  PROVE  PairingInv'
<1> USE DEF RegistryInv
<1>1. /\ UNCHANGED <<fdTable, child, pendingConnections, inq, outq, peer, svc, helper>>
      /\ backlog = <<>> /\ spd = "down"
  BY DEF Run, Listening, NothingLeft, netVars, serviceVars, TypeOK, TransportTypeOK
<1>2. \A s \in Service : ~Reads(s) /\ svc[s].pc \notin {"dialling", "forking"}
  BY NumberTypes DEF OwnersDistinct, Alive, Reads
<1>3. ASSUME NEW a \in Conn
      PROVE  Settled(a) \/ (inq[a] = <<>> /\ helper[a].pc = "none")
  <2>1. (\A f \in FD : fdTable[f] # a) /\ \A i \in DOMAIN backlog : backlog[i] # a
    BY <1>1, NumberTypes DEF DownIsEmpty
  <2> QED
    BY <2>1 DEF Settled, NothingLeft
<1>4. UnusedEmpty' /\ ChildrenOfClients' /\ PairedWithRequestedService'
  BY <1>1 DEF PairingInv, UnusedEmpty, ChildrenOfClients, PairedWithRequestedService, Used
<1>5. ASSUME NEW x
      PROVE  OneBearer(x)' /\ BearerWanted(x)'
  <2>1. \A s \in Service : ~Bears(s, x)' /\ ServiceOnce(s, x)'
    BY <1>1, <1>2 DEF Bears, Asked, Making, ServiceOnce, Reads
  <2>2. \A a \in Conn : Settled(a)' \/ (inq'[a] = <<>> /\ ~Helping(a, x)')
    BY <1>1, <1>3 DEF SettledKept, Helping
  <2>3. \A a \in Conn : ~Carries(a, x)' /\ AnswerOnce(a, x)'
    BY <2>2, FewerSame DEF Carries, Answered, AnswerOnce
  <2> QED
    BY <2>1, <2>3 DEF OneBearer, BearerWanted
<1> QED
  BY <1>4, <1>5 DEF PairingInv

\* spd is not started again while service proxies of the last one run.
NoHaste == MaxStarts = 1 \/ "hasty" \notin Events

\* Every step of spd and of its relay processes keeps the pairing.
LEMMA ServerPairing ==
  ASSUME NoHaste, RegistryInv, ChildrenApart, NothingLeft, PairingInv,
         ServerStep, RestartAwaits, UNCHANGED <<serviceVars, client>>
  PROVE  PairingInv'
<1>0. SettledKept
  BY ServerReturnsNone, KeepsSettled
<1>1. CASE Run
  <2>1. MaxStarts # 1
    BY <1>1 DEF Run, RegistryInv, TypeOK, ServerTypeOK
  <2> QED
    BY <1>0, <1>1, <2>1, RestartPairing DEF NoHaste, RestartAwaits
<1>2. CASE HandleAnswer
  <2>1. PICK x \in ClientID, success \in BOOLEAN : HandleAnswer!(x, success)
    BY <1>2 DEF HandleAnswer
  <2>2. CASE ResolvePending(x, success)
    BY <1>0, <2>1, <2>2, ResolvePairing
  <2>3. CASE RefuseAnswer(x)
    BY <1>0, <2>1, <2>3, RefusalPairing
  <2> QED
    BY <2>1, <2>2, <2>3
<1>3. CASE HandleConnect
  BY <1>0, <1>3, ConnectPairing
<1>4. CASE \E a \in Conn : ChildNotify(a) \/ ChildForward(a) \/ ChildRelayed(a)
                           \/ ChildKilled(a)
  BY <1>0, <1>4, ChildPairing
<1>5. CASE \/ AcceptConnection \/ RecvError \/ ParseThrows \/ HandleConnectKilled
           \/ HandleRegister \/ HandleUnregister
           \/ HandleConnectUnknown \/ HandleUnexpected
  BY <1>0, <1>5, RefusalPairing
<1> QED
  BY <1>1, <1>2, <1>3, <1>4, <1>5 DEF ServerStep

\* Resets, and programs that are none of these, name no client.
LEMMA EventPairing ==
  ASSUME RegistryInv, ChildrenApart, PairingInv, NEW c \in Conn,
         ResetConnection(c) \/ StrayRequest(c)
  PROVE  PairingInv'
<1>1. PeerStepOK
  BY EventPeer
<1>2. UNCHANGED <<outq, svc, helper>>
  BY DEF ResetConnection, StrayRequest, serviceVars
<1>3. InFewer
  <2>1. CASE ResetConnection(c)
    BY <2>1, InSame DEF ResetConnection
  <2>2. CASE StrayRequest(c)
    <3>1. /\ \A d \in Conn \ {c} : inq'[d] = inq[d]
          /\ inq'[c] = <<makeResponse(TRUE)>>
      BY <2>2 DEF StrayRequest, RegistryInv, TypeOK, TransportTypeOK
    <3>2. \A x : Fewer(<<makeResponse(TRUE)>>, inq[c], Answers(x))
      <4>1. \A i \in DOMAIN <<makeResponse(TRUE)>> :
              <<makeResponse(TRUE)>>[i] = makeResponse(TRUE)
        BY OnePacket
      <4> QED
        BY <4>1, Kinds DEF Fewer, Has, Once
    <3> QED
      BY <3>1, <3>2, FewerSame DEF InFewer
  <2> QED
    BY <2>1, <2>2
<1>4. OutFewer /\ ChildrenGrow /\ \A x : Framed(x)
  BY <1>1, <1>2, <1>3, PeerKeepsSettled, OutSame, ServiceFrames, CarrierFrames DEF RegistryInv, Framed,
     ChildrenGrow, SameMaking, SameHelping
<1> QED
  BY <1>1, <1>4, PeerFramed

-----------------------------------------------------------------------------
(* The theorem *)

\* PairingInv is inductive, given that a new spd finds nothing of the last one's.
LEMMA PairingStep ==
  ASSUME NoHaste
  PROVE  RegistryInv /\ ChildrenApart /\ NothingLeft /\ PairingInv /\ [Next]_vars
           => PairingInv'
<1> SUFFICES ASSUME RegistryInv, ChildrenApart, NothingLeft, PairingInv, [Next]_vars
             PROVE  PairingInv'
  OBVIOUS
<1>1. CASE ServerStep /\ RestartAwaits /\ UNCHANGED <<serviceVars, client>>
  BY <1>1, ServerPairing
<1>2. CASE ServiceStep /\ UNCHANGED <<serverVars, client>>
  <2>1. PICK s \in Service : ServiceStep!(s)
    BY <1>2 DEF ServiceStep
  <2>2. svc[s].children \in SUBSET Conn
    BY SvcType DEF RegistryInv, TypeOK, SvcRecord
  <2> QED
    BY <1>2, <2>1, <2>2, ServicePairing, HelperPairing
<1>3. CASE ClientStep /\ UNCHANGED <<serverVars, serviceVars>>
  <2>1. PICK k \in Client : ClientStep!(k)
    BY <1>3 DEF ClientStep
  <2> QED
    BY <1>3, <2>1, ClientPairing
<1>4. CASE \E c \in Conn : ResetConnection(c) \/ StrayRequest(c)
  BY <1>4, EventPairing
<1>5. CASE UNCHANGED vars
  <2>1. UNCHANGED <<inq, outq, peer, spd, fdTable, child, pendingConnections, svc,
                    helper, client>>
    BY <1>5 DEF vars, transportVars, hostVars, netVars, serverVars, serviceVars
  <2>2. OutFewer /\ OneReceived /\ SamePairs /\ KeepsWaiting
    BY <2>1, OutSame DEF OneReceived, SamePairs, KeepsWaiting
  <2>3. SettledKept
    BY <1>5 DEF vars, transportVars, hostVars, netVars, SettledKept, Settled, Used
  <2> QED
    BY <2>1, <2>2, <2>3, SpdFramed
<1> QED
  BY <1>1, <1>2, <1>3, <1>4, <1>5 DEF Next

\* Nobody is asked, answers or is answered at first.
LEMMA PairingInit == Init => PairingInv
<1> SUFFICES ASSUME Init PROVE PairingInv
  OBVIOUS
<1>1. UnusedEmpty /\ ChildrenOfClients /\ PairedWithRequestedService
  BY DEF Init, TransportInit, ServerInit, UnusedEmpty, ChildrenOfClients,
     PairedWithRequestedService
<1>2. ASSUME NEW x
      PROVE  OneBearer(x) /\ BearerWanted(x)
  <2>1. \A s \in Service : ~Asked(s, x) /\ ~Making(s, x)
    BY NumberTypes DEF Init, ServiceInit, Asked, Making, Reads
  <2>2. \A a \in Conn : inq[a] = <<>> /\ ~Helping(a, x)
    BY DEF Init, TransportInit, ServiceInit, Helping
  <2>3. \A a \in Conn : ~Answered(a, x) /\ Once(inq[a], Answers(x))
    BY <2>2, FewerSame DEF Answered
  <2>4. \A s \in Service : ~Reads(s)
    BY NumberTypes DEF Init, ServiceInit, Reads
  <2> QED
    BY <2>1, <2>2, <2>3, <2>4 DEF OneBearer, BearerWanted, Bears, Carries, ServiceOnce,
       AnswerOnce
<1> QED
  BY <1>1, <1>2 DEF PairingInv

\* Whatever crashes and whoever connects, and however often spd is started again
\* once the service proxies have ended: a client told of a connection, and
\* relayed, is joined to a helper of a service proxy that serves the id the
\* client asked for.
THEOREM PairedWithoutHaste ==
  ASSUME NoHaste
  PROVE  Spec => []PairedWithRequestedService
<1>1. RegistryInv /\ ChildrenApart /\ NothingLeft /\ PairingInv /\ [Next]_vars => PairingInv'
  BY PairingStep
<1>2. PairingInv => PairedWithRequestedService
  BY DEF PairingInv
<1> QED
  BY <1>1, <1>2, PairingInit, HostInvariant, PTL DEF Spec
=============================================================================
