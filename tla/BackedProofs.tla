---------------------------- MODULE BackedProofs ----------------------------
(***************************************************************************)
(* Proofs that a client is only told of a connection that a helper made,   *)
(* and that spd goes on as long as no service proxy is interrupted and no  *)
(* process fails.                                                          *)
(***************************************************************************)
EXTENDS DescriptorProofs

-----------------------------------------------------------------------------
(* What the peers do *)

\* A helper that reached its service has; none is forked for a connection that
\* is not dialled.
HelpersGoOn ==
  \A a \in Conn : /\ Reached(a) => Reached(a)'
                  /\ Used(a) \/ helper'[a].pc = helper[a].pc

\* Nothing is sent on a connection that is not dialled.
SendsOnUsed == \A c \in Conn : peer'[c] = "none" => inq'[c] = inq[c]

\* Only helpers that reached their service say so.
CreatedIsReached ==
  \A a \in Conn : Has(inq'[a], Created) => Has(inq[a], Created) \/ Reached(a)'

\* A client does not move, and no request to unregister is sent on its connection.
ClientStays(k) ==
  LET c == client[k].connection IN
  /\ client'[k] = client[k]
  /\ c \in Conn => (Has(inq'[c], Unregisters) => Has(inq[c], Unregisters))

\* What the service proxies and helpers dialled and keep: see BackedInv.
LinesBacked ==
  /\ \A s \in Service : Unhelped(s) /\ NoClients(svc[s].farewell)
  /\ \A a \in Conn : NoClients(helper[a].farewell)

\* A send is on a connection that is dialled.
LEMMA SentOnUsed ==
  ASSUME TypeOK, StaysUsed, NEW c, NEW p, PeerSend(c, p)
  PROVE  SendsOnUsed
BY DEF TypeOK, TransportTypeOK, StaysUsed, PeerSend, SendsOnUsed, Used

\* What is not dialled stays silent.
LEMMA SilenceKept ==
  ASSUME TypeOK, BackedInv, StaysUsed, SendsOnUsed, HelpersGoOn,
         PeerReads \/ UNCHANGED outq,
         NEW c \in Conn, peer'[c] = "none"
  PROVE  Silent(c)'
<1>1. ~Used(c) /\ Silent(c)
  BY DEF StaysUsed, Used, BackedInv
<1>2. outq'[c] = <<>>
  BY <1>1 DEF PeerReads, PeerReceive, PeerClose, Silent, TypeOK, TransportTypeOK
<1> QED
  BY <1>1, <1>2 DEF SendsOnUsed, HelpersGoOn, Silent

\* The peers' steps keep the promises to the clients.
LEMMA PeerBacked ==
  ASSUME RegistryInv, BackedInv, PeerStepOK, PeerReads \/ UNCHANGED outq,
         SendsOnUsed, HelpersGoOn, CreatedIsReached, LinesBacked',
         \A k \in Client : ClientStays(k) \/ Promised(k)'
  PROVE  BackedInv'
<1> USE DEF RegistryInv
<1>1. UNCHANGED child /\ StaysUsed
  BY DEF PeerStepOK, serverVars
<1>2. NoneTold(Okay)
  BY ReadsNoneTold DEF NoneTold
<1>3. \A c : Backed(c) => Backed(c)'
  BY <1>1 DEF Backed, HelpersGoOn
<1>4. ASSUME NEW c \in Conn, ~Used(c)'
      PROVE  Silent(c)'
  BY <1>1, <1>4, SilenceKept DEF Used
<1>5. ASSUME NEW k \in Client
      PROVE  Promised(k)'
  <2>1. SUFFICES ASSUME ClientStays(k) PROVE Promised(k)'
    BY <1>5
  <2>2. PICK c \in Conn \cup {NoConn} : c = client[k].connection
    BY DEF TypeOK, ClientTypeOK
  <2>3. client'[k] = client[k] /\ Promised(k)
    BY <2>1 DEF ClientStays, BackedInv
  <2>4. c # NoConn => ~Has(inq'[c], Unregisters)
    BY <2>1, <2>2, <2>3 DEF ClientStays, Promised
  <2>5. c # NoConn => (Has(outq'[c], Okay) => Has(outq[c], Okay))
    BY <1>2, <2>2 DEF NoneTold
  <2>6. Backed(c) => Backed(c)'
    BY <1>3
  <2> QED
    BY <2>2, <2>3, <2>4, <2>5, <2>6 DEF Promised, Backed
<1>6. ASSUME NEW a \in Conn
      PROVE  /\ Has(inq'[a], Created) => Reached(a)'
             /\ child'[a].ok => Reached(a)' /\ child'[a].pc # "none"
             /\ child'[a].pc = "relay" => child'[a].ok
  BY <1>1 DEF BackedInv, CreatedIsReached, HelpersGoOn
<1> QED
  BY <1>4, <1>5, <1>6 DEF BackedInv, LinesBacked

-----------------------------------------------------------------------------
(* The lines of service proxies and helpers *)

\* No service proxy and no helper dials: a connection for a helper is kept or
\* given up, and no helper is forked for one.
LEMMA LinesKept ==
  ASSUME TypeOK, BackedInv, StaysUsed,
         \A k \in Client : client'[k].connection = client[k].connection
                         \/ ~Used(client'[k].connection),
         \A s \in Service :
           /\ svc'[s].newProxyConnection \in {svc[s].newProxyConnection, NoConn}
           /\ svc'[s].farewell = svc[s].farewell,
         \A a \in Conn : /\ helper'[a].farewell = helper[a].farewell
                         /\ helper[a].pc = "none" => helper'[a].pc = "none"
  PROVE  LinesBacked'
<1>1. \A c \in Conn \cup {NoConn} : NoClients(c) => NoClients(c)'
  BY DEF NoClients, StaysUsed, Used
<1>2. /\ \A s \in Service : /\ svc[s].farewell \in Conn \cup {NoConn}
                            /\ svc[s].newProxyConnection \in Conn \cup {NoConn}
      /\ \A a \in Conn : helper[a].farewell \in Conn \cup {NoConn}
  BY SvcType DEF TypeOK, SvcRecord, ServiceTypeOK
<1>3. ASSUME NEW s \in Service
      PROVE  Unhelped(s)'
  <2>1. Unhelped(s) /\ \A t \in Service : Unhelped(t)
    BY DEF BackedInv
  <2> QED
    BY <1>2, <2>1 DEF Unhelped, StaysUsed, Used
<1>4. ASSUME NEW s \in Service
      PROVE  NoClients(svc[s].farewell)'
  <2>1. PICK c \in Conn \cup {NoConn} : c = svc[s].farewell
    BY <1>2
  <2>2. NoClients(c)'
    BY <1>1, <2>1 DEF BackedInv
  <2> QED
    BY <2>1, <2>2 DEF NoClients
<1>5. ASSUME NEW a \in Conn
      PROVE  NoClients(helper[a].farewell)'
  <2>1. PICK c \in Conn \cup {NoConn} : c = helper[a].farewell
    BY <1>2
  <2>2. NoClients(c)'
    BY <1>1, <2>1 DEF BackedInv
  <2> QED
    BY <2>1, <2>2 DEF NoClients
<1> QED
  BY <1>3, <1>4, <1>5 DEF LinesBacked

\* What somebody dials now was no client's, and had no helper.
LEMMA DialsFresh ==
  ASSUME RegistryInv, BackedInv, NEW c \in Conn, Dial(c)
  PROVE  /\ ~Used(c) /\ peer'[c] # "none" /\ StaysUsed /\ c # NoConn
         /\ \A k \in Client : client[k].connection # c
         /\ \A s \in Service : svc[s].newProxyConnection # c /\ svc[s].farewell # c
         /\ \A a \in Conn : helper[a].farewell # c
         /\ Silent(c)
<1>1. ~Used(c) /\ peer'[c] # "none" /\ StaysUsed /\ c # NoConn
  BY DialUses, NumberTypes DEF RegistryInv, TypeOK
<1> QED
  BY <1>1 DEF RegistryInv, OwnersDistinct, BackedInv, Unhelped, NoClients

\* A dial for a helper: nobody else has the connection.
LEMMA LinesDialled ==
  ASSUME RegistryInv, BackedInv, UNCHANGED <<client, helper>>, NEW c \in Conn, Dial(c),
         NEW s \in Service, \A t \in Service \ {s} : svc'[t] = svc[t],
         \/ svc'[s].newProxyConnection = c /\ svc'[s].farewell = svc[s].farewell
         \/ svc'[s].farewell = c /\ svc'[s].newProxyConnection = svc[s].newProxyConnection
  PROVE  LinesBacked'
<1> USE DEF RegistryInv
<1>1. /\ ~Used(c) /\ peer'[c] # "none" /\ StaysUsed /\ c # NoConn
      /\ \A k \in Client : client[k].connection # c
      /\ \A t \in Service : svc[t].newProxyConnection # c
      /\ helper[c].pc = "none"
  BY DialsFresh DEF Silent
<1>2. /\ \A t \in Service : /\ svc[t].farewell \in Conn \cup {NoConn}
                            /\ svc[t].newProxyConnection \in Conn \cup {NoConn}
      /\ \A a \in Conn : helper[a].farewell \in Conn \cup {NoConn}
  BY SvcType DEF TypeOK, SvcRecord, ServiceTypeOK
<1>3. \A d \in Conn \cup {NoConn} : NoClients(d) => NoClients(d)'
  BY <1>1 DEF NoClients, StaysUsed, Used
<1>4. NoClients(c)'
  BY <1>1 DEF NoClients, Used
<1>5. ASSUME NEW t \in Service
      PROVE  NoClients(svc[t].farewell)'
  <2>1. PICK d \in Conn \cup {NoConn} : d = svc'[t].farewell /\ (d = c \/ d = svc[t].farewell)
    BY <1>2
  <2>2. NoClients(d)'
    BY <1>3, <1>4, <2>1 DEF BackedInv
  <2> QED
    BY <2>1, <2>2 DEF NoClients
<1>6. ASSUME NEW a \in Conn
      PROVE  NoClients(helper[a].farewell)'
  <2>1. PICK d \in Conn \cup {NoConn} : d = helper[a].farewell
    BY <1>2
  <2>2. NoClients(d)'
    BY <1>3, <2>1 DEF BackedInv
  <2> QED
    BY <2>1, <2>2 DEF NoClients
<1>7. ASSUME NEW t \in Service
      PROVE  Unhelped(t)'
  <2>1. \A u \in Service : Unhelped(u)
    BY DEF BackedInv
  <2> QED
    BY <1>1, <1>2, <2>1 DEF Unhelped, StaysUsed, Used
<1> QED
  BY <1>5, <1>6, <1>7 DEF LinesBacked

\* What is neither the answer of a helper that reached its service nor, on a
\* client's connection, a request to unregister.
LEMMA OtherMessages ==
  /\ \A x : /\ makeRegisterRequest(x) \notin Created \cup Unregisters
            /\ makeConnectRequest(x) \notin Created \cup Unregisters
            /\ makeConnectionFailedRequest(x) \notin Created \cup Unregisters
            /\ makeResponse(x) \notin Created \cup Unregisters
            /\ makeConnectionCreatedRequest(x) \notin Unregisters
            /\ makeUnregisterRequest(x) \notin Created
  /\ Payload \notin Created \cup Unregisters
BY DEF Created, Unregisters, makeRegisterRequest, makeUnregisterRequest, makeConnectRequest,
   makeConnectionCreatedRequest, makeConnectionFailedRequest, makeResponse, makeRequest,
   Payload, REGISTER, UNREGISTER, CONNECT, CONNECTION_CREATED, CONNECTION_FAILED, OK, ERROR

\* A client that does not move, while nobody sends a request to unregister.
LEMMA ClientsStay ==
  ASSUME NoneSaid(Unregisters), UNCHANGED client
  PROVE  \A k \in Client : ClientStays(k)
BY DEF NoneSaid, ClientStays

\* Unregistering on a connection of no client.
LEMMA UnregisterSaid ==
  ASSUME RegistryInv, UNCHANGED client, NEW c \in Conn \cup {NoConn}, NoClients(c),
         NEW id \in ServerID, PeerSend(c, makeUnregisterRequest(id))
  PROVE  NoneSaid(Created) /\ \A k \in Client : ClientStays(k)
<1> USE DEF RegistryInv
<1>1. makeUnregisterRequest(id) \in Packet
  BY PacketTypes DEF NodeID
<1>2. NoneSaid(Created)
  BY <1>1, OtherSaid, OtherMessages
<1>3. \A d \in Conn \ {c} : inq'[d] = inq[d]
  BY DEF PeerSend, TypeOK, TransportTypeOK
<1>4. \A k \in Client : client[k].connection \in Conn => client[k].connection # c
  BY NumberTypes DEF NoClients
<1> QED
  BY <1>2, <1>3, <1>4 DEF ClientStays

\* The steps of a service proxy keep the promises.
LEMMA ServiceBacked ==
  ASSUME RegistryInv, BackedInv, NEW s \in Service, UNCHANGED <<serverVars, client>>,
         \/ Connect(s) \/ ConnectRefused(s) \/ SendRegister(s)
         \/ ReadRegisterResponse(s) \/ ReadConnectRequest(s) \/ ReadThrows(s)
         \/ DialProxy(s) \/ DialProxyFails(s) \/ Fork(s) \/ ForkFails(s)
         \/ Interrupt(s) \/ InterruptRefused(s) \/ SendUnregister(s) \/ Crash(s)
  PROVE  BackedInv'
<1> USE DEF RegistryInv
<1>0. PeerStepOK /\ StaysUsed
  BY ServicePeer DEF PeerStepOK
<1>r. svc[s] \in SvcRecord /\ serviceID[s] \in ServerID
  BY SvcType, ProcessAssumption DEF TypeOK
<1>q. UNCHANGED inq => SendsOnUsed /\ NoneSaid(Created) /\ NoneSaid(Unregisters)
  BY DEF SendsOnUsed, NoneSaid
<1>h. UNCHANGED helper => HelpersGoOn
  BY DEF HelpersGoOn, Reached
<1>c. NoneSaid(Created) => CreatedIsReached
  BY DEF NoneSaid, CreatedIsReached
<1>o. ASSUME PeerReads, UNCHANGED <<inq, helper>>, LinesBacked'
      PROVE  BackedInv'
  BY <1>0, <1>q, <1>h, <1>c, <1>o, ClientsStay, PeerBacked
<1>l. ASSUME UNCHANGED helper,
             svc'[s].newProxyConnection \in {svc[s].newProxyConnection, NoConn},
             svc'[s].farewell = svc[s].farewell, \A t \in Service \ {s} : svc'[t] = svc[t]
      PROVE  LinesBacked'
  BY <1>0, <1>l, LinesKept
<1>g. ASSUME UNCHANGED helper, NEW pc, Goto(s, pc)
      PROVE  LinesBacked'
  BY <1>g, <1>l DEF Goto, TypeOK, ServiceTypeOK
<1>e. ASSUME UNCHANGED helper, NEW cs, Exit(s, cs)
      PROVE  PeerReads /\ LinesBacked'
  BY <1>e, <1>g, ExitIsGoto DEF Exit, PeerReads
<1>1. ASSUME Connect(s) PROVE BackedInv'
  <2>1. PICK c \in Conn : Connect(s)!2!(c)
    BY <1>1 DEF Connect
  <2>2. LinesBacked'
    BY <1>1, <1>l, <2>1 DEF Connect, TypeOK, ServiceTypeOK
  <2> QED
    BY <1>1, <1>o, <2>2 DEF Connect, PeerReads
<1>2. ASSUME ConnectRefused(s) PROVE BackedInv'
  BY <1>2, <1>o, <1>g DEF ConnectRefused, netVars, PeerReads
<1>3. ASSUME SendRegister(s) PROVE BackedInv'
  <2>1. makeRegisterRequest(serviceID[s]) \in Packet
    BY <1>r, PacketTypes DEF NodeID
  <2>2. SendsOnUsed /\ NoneSaid(Created) /\ NoneSaid(Unregisters)
    BY <1>0, <1>3, <2>1, SentOnUsed, OtherSaid, OtherMessages DEF SendRegister
  <2> QED
    BY <1>0, <1>3, <1>c, <1>g, <1>h, <2>2, ClientsStay, PeerBacked DEF SendRegister, PeerReads
<1>4. ASSUME ReadRegisterResponse(s) PROVE BackedInv'
  <2>1. svc[s].connection \in Conn
    BY <1>4, <1>r DEF ReadRegisterResponse, SvcRecord, HandlesKnown, SvcReady
  <2> QED
    BY <1>4, <2>1, <1>e, <1>g, <1>o DEF ReadRegisterResponse, PeerReads
<1>5. ASSUME ReadConnectRequest(s) PROVE BackedInv'
  <2>1. svc[s].connection \in Conn
    BY <1>5, <1>r DEF ReadConnectRequest, SvcRecord, HandlesKnown, SvcReady
  <2>2. LinesBacked'
    BY <1>5, <1>l DEF ReadConnectRequest, TypeOK, ServiceTypeOK
  <2> QED
    BY <1>5, <2>1, <2>2, <1>o DEF ReadConnectRequest, PeerReads
<1>6. ASSUME ReadThrows(s) \/ InterruptRefused(s) \/ Crash(s) PROVE BackedInv'
  BY <1>6, <1>e, <1>o DEF ReadThrows, InterruptRefused, Crash
<1>7. ASSUME DialProxy(s) PROVE BackedInv'
  <2>1. PICK a \in Conn : DialProxy(s)!2!(a)
    BY <1>7 DEF DialProxy
  <2>2. /\ svc'[s].newProxyConnection = a /\ svc'[s].farewell = svc[s].farewell
        /\ \A t \in Service \ {s} : svc'[t] = svc[t]
    BY <2>1 DEF TypeOK, ServiceTypeOK
  <2>3. LinesBacked'
    BY <1>7, <2>1, <2>2, LinesDialled DEF DialProxy
  <2> QED
    BY <1>7, <2>3, <1>o DEF DialProxy, PeerReads
<1>8. ASSUME DialProxyFails(s) PROVE BackedInv'
  BY <1>8, <1>l, <1>o DEF DialProxyFails, netVars, PeerReads, TypeOK, ServiceTypeOK
<1>9. ASSUME ForkFails(s) PROVE BackedInv'
  BY <1>9, <1>l, <1>o DEF ForkFails, PeerReads, TypeOK, ServiceTypeOK
<1>10. ASSUME Fork(s) PROVE BackedInv'
  <2>1. PICK a \in Conn : a = svc[s].newProxyConnection
    BY <1>10, <1>r, NumberTypes DEF Fork, SvcRecord, HandlesKnown, SvcReady
  <2>2. Used(a) /\ helper[a].pc = "none" /\ \A t \in Service \ {s} : svc[t].newProxyConnection # a
    BY <2>1, NumberTypes DEF BackedInv, Unhelped
  <2>3. /\ svc'[s].newProxyConnection = NoConn /\ svc'[s].farewell = svc[s].farewell
        /\ \A t \in Service \ {s} : svc'[t] = svc[t]
    BY <1>10 DEF Fork, TypeOK, ServiceTypeOK
  <2>4. /\ \A b \in Conn \ {a} : helper'[b] = helper[b]
        /\ helper'[a].farewell = helper[a].farewell /\ helper'[a].reached = helper[a].reached
    BY <1>10, <2>1 DEF Fork, TypeOK, ServiceTypeOK
  <2>5. HelpersGoOn
    BY <2>2, <2>4 DEF HelpersGoOn, Reached
  <2>6. UNCHANGED peer
    BY <1>10 DEF Fork, netVars
  <2>7. LinesBacked'
    <3>1. \A t \in Service : Unhelped(t)'
      <4>1. \A t \in Service : Unhelped(t) /\ svc[t].newProxyConnection \in Conn \cup {NoConn}
        BY SvcType DEF BackedInv, TypeOK, SvcRecord
      <4> QED
        BY <2>2, <2>3, <2>4, <2>6, <4>1 DEF Unhelped, Used
    <3>2. \A t \in Service : NoClients(svc[t].farewell)'
      BY <2>3, <2>6 DEF NoClients, BackedInv, Used
    <3>3. \A b \in Conn : NoClients(helper[b].farewell)'
      BY <2>4, <2>6 DEF NoClients, BackedInv, Used
    <3> QED
      BY <3>1, <3>2, <3>3 DEF LinesBacked
  <2>8. PeerReads /\ UNCHANGED inq
    BY <1>10 DEF Fork, netVars, PeerReads
  <2> QED
    BY <1>0, <1>q, <1>c, <2>5, <2>7, <2>8, ClientsStay, PeerBacked
<1>11. ASSUME Interrupt(s) PROVE BackedInv'
  <2>1. PICK c \in Conn : Interrupt(s)!3!(c)
    BY <1>11 DEF Interrupt
  <2>2. /\ svc'[s].farewell = c /\ svc'[s].newProxyConnection = svc[s].newProxyConnection
        /\ \A t \in Service \ {s} : svc'[t] = svc[t]
    BY <2>1 DEF TypeOK, ServiceTypeOK
  <2>3. LinesBacked'
    BY <1>11, <2>1, <2>2, LinesDialled DEF Interrupt
  <2> QED
    BY <1>11, <2>3, <1>o DEF Interrupt, PeerReads
<1>12. ASSUME SendUnregister(s) PROVE BackedInv'
  <2>1. NoClients(svc[s].farewell) /\ svc[s].farewell \in Conn \cup {NoConn}
    BY <1>r DEF BackedInv, SvcRecord
  <2>2. NoneSaid(Created) /\ \A k \in Client : ClientStays(k)
    BY <1>12, <1>r, <2>1, UnregisterSaid DEF SendUnregister
  <2>3. SendsOnUsed
    BY <1>0, <1>12, SentOnUsed DEF SendUnregister
  <2> QED
    BY <1>0, <1>12, <1>c, <1>e, <1>h, <2>2, <2>3, PeerBacked DEF SendUnregister
<1> QED
  BY <1>1, <1>2, <1>3, <1>4, <1>5, <1>6, <1>7, <1>8, <1>9, <1>10, <1>11, <1>12

\* A helper only goes on, and dials no client's connection.
LEMMA HelperBacked ==
  ASSUME RegistryInv, BackedInv, NEW s \in Service, NEW a \in Conn,
         UNCHANGED <<serverVars, client>>,
         \/ HelperConnected(s, a) \/ HelperFailed(s, a) \/ HelperPayload(s, a)
         \/ HelperDone(s, a) \/ HelperInterrupt(s, a) \/ HelperInterruptRefused(s, a)
         \/ HelperUnregister(s, a) \/ HelperCrash(s, a)
  PROVE  BackedInv'
<1> USE DEF RegistryInv
<1>0. PeerStepOK /\ StaysUsed
  BY HelperPeer DEF PeerStepOK
<1>1. UNCHANGED svc /\ \A b \in Conn \ {a} : helper'[b] = helper[b]
  BY DEF HelperConnected, HelperFailed, HelperPayload, HelperDone, HelperInterrupt,
     HelperInterruptRefused, HelperUnregister, HelperCrash, HelperExit, TypeOK, ServiceTypeOK
<1>2. /\ helper[a].pc # "none" /\ helper'[a].pc \in {"relay", "relayed", "stopping", "exited"}
      /\ helper[a].reached \/ HelperConnected(s, a) => helper'[a].reached
  BY DEF HelperConnected, HelperFailed, HelperPayload, HelperDone, HelperInterrupt,
     HelperInterruptRefused, HelperUnregister, HelperCrash, HelperExit, HelperAlive, TypeOK,
     ServiceTypeOK
<1>3. HelpersGoOn
  <2>1. Used(a)
    BY <1>2 DEF BackedInv, Silent
  <2> QED
    BY <1>1, <1>2, <2>1 DEF HelpersGoOn, Reached
<1>4. PeerReads
  BY DEF HelperConnected, HelperFailed, HelperPayload, HelperDone, HelperInterrupt,
     HelperInterruptRefused, HelperUnregister, HelperCrash, HelperExit, PeerReads
<1>5. SendsOnUsed
  BY <1>0, SentOnUsed DEF HelperConnected, HelperFailed, HelperPayload, HelperDone,
     HelperInterrupt, HelperInterruptRefused, HelperUnregister, HelperCrash, SendsOnUsed
<1>6. LinesBacked'
  <2>1. CASE ~HelperInterrupt(s, a)
    <3>1. helper'[a].farewell = helper[a].farewell
      BY <2>1 DEF HelperConnected, HelperFailed, HelperPayload, HelperDone,
         HelperInterruptRefused, HelperUnregister, HelperCrash, HelperExit, TypeOK,
         ServiceTypeOK
    <3> QED
      BY <1>0, <1>1, <1>2, <3>1, LinesKept
  <2>2. CASE HelperInterrupt(s, a)
    <3>1. PICK c \in Conn : HelperInterrupt(s, a)!4!(c)
      BY <2>2 DEF HelperInterrupt
    <3>2. /\ peer'[c] # "none" /\ c # NoConn
          /\ \A k \in Client : client[k].connection # c
      BY <3>1, DialsFresh
    <3>3. helper'[a].farewell = c
      BY <3>1 DEF TypeOK, ServiceTypeOK
    <3>4. /\ \A t \in Service : /\ svc[t].farewell \in Conn \cup {NoConn}
                                /\ svc[t].newProxyConnection \in Conn \cup {NoConn}
          /\ \A b \in Conn : helper[b].farewell \in Conn \cup {NoConn}
      BY SvcType DEF TypeOK, SvcRecord, ServiceTypeOK
    <3>5. \A t \in Service : Unhelped(t)'
      <4>1. \A t \in Service : Unhelped(t)
        BY DEF BackedInv
      <4> QED
        BY <1>0, <1>1, <1>2, <3>4, <4>1 DEF Unhelped, StaysUsed, Used
    <3>6. \A t \in Service : NoClients(svc[t].farewell)'
      BY <1>0, <1>1, <3>4 DEF BackedInv, NoClients, StaysUsed, Used
    <3>7. \A b \in Conn : NoClients(helper[b].farewell)'
      BY <1>0, <1>1, <3>2, <3>3, <3>4 DEF BackedInv, NoClients, StaysUsed, Used
    <3> QED
      BY <3>5, <3>6, <3>7 DEF LinesBacked
  <2> QED
    BY <2>1, <2>2
<1>7. CreatedIsReached /\ \A k \in Client : ClientStays(k)
  <2>1. serviceID[s] \in ServerID /\ serviceID[s] \in NodeID /\ HelperReady(helper[a])
    BY ProcessAssumption DEF NodeID, HandlesKnown
  <2>2. NoneSaid(Created) => CreatedIsReached
    BY DEF NoneSaid, CreatedIsReached
  <2>3. CASE UNCHANGED inq
    BY <2>2, <2>3, ClientsStay DEF NoneSaid
  <2>4. CASE HelperConnected(s, a)
    <3>1. makeConnectionCreatedRequest(helper[a].clientID) \in Packet
      BY <2>1, <2>4, PacketTypes DEF HelperConnected, HelperReady
    <3>2. NoneSaid(Unregisters)
      BY <2>4, <3>1, OtherSaid, OtherMessages DEF HelperConnected
    <3>3. \A b \in Conn \ {a} : inq'[b] = inq[b]
      BY <2>4 DEF HelperConnected, PeerSend, TypeOK, TransportTypeOK
    <3>4. Reached(a)'
      BY <1>2, <2>4 DEF Reached
    <3> QED
      BY <3>2, <3>3, <3>4, ClientsStay DEF CreatedIsReached
  <2>5. CASE HelperFailed(s, a) \/ HelperPayload(s, a)
    <3>1. PICK p \in Packet : PeerSend(a, p) /\ p \notin Created \cup Unregisters
      BY <2>1, <2>5, PacketTypes, OtherMessages DEF HelperFailed, HelperPayload, HelperReady
    <3>2. NoneSaid(Created) /\ NoneSaid(Unregisters)
      BY <3>1, OtherSaid
    <3> QED
      BY <2>2, <3>2, ClientsStay
  <2>6. CASE HelperUnregister(s, a)
    <3>1. NoClients(helper[a].farewell) /\ helper[a].farewell \in Conn \cup {NoConn}
      BY DEF BackedInv, TypeOK, ServiceTypeOK
    <3> QED
      BY <2>1, <2>2, <2>6, <3>1, UnregisterSaid DEF HelperUnregister
  <2> QED
    BY <2>3, <2>4, <2>5, <2>6 DEF HelperDone, HelperInterrupt, HelperInterruptRefused,
       HelperCrash
<1> QED
  BY <1>0, <1>3, <1>4, <1>5, <1>6, <1>7, PeerBacked

\* A client that moves with its connection, told of nothing that is not backed.
LEMMA PromiseKept ==
  ASSUME RegistryInv, BackedInv, UNCHANGED <<child, helper>>, NoneTold(Okay),
         NoneSaid(Unregisters), NEW k \in Client,
         client'[k].connection = client[k].connection,
         client'[k].pc \in {"dialled", "waiting"} => client[k].pc \in {"dialled", "waiting"},
         client'[k].pc \in {"connected", "relaying"} => Backed(client[k].connection)
  PROVE  Promised(k)'
<1>1. PICK c \in Conn \cup {NoConn} : c = client[k].connection
  BY DEF RegistryInv, TypeOK, ClientTypeOK
<1>2. Promised(k)
  BY DEF BackedInv
<1>3. Backed(c) => Backed(c)'
  BY DEF Backed, Reached
<1> QED
  BY <1>1, <1>2, <1>3 DEF Promised, Backed, NoneTold, NoneSaid

\* The steps of a client proxy keep the promises.
LEMMA ClientBacked ==
  ASSUME RegistryInv, BackedInv, NEW k \in Client, UNCHANGED <<serverVars, serviceVars>>,
         \/ ClientConnect(k) \/ ClientConnectRefused(k) \/ SendConnect(k)
         \/ ReadConnectResponse(k) \/ ClientReadThrows(k) \/ ClientRecvFails(k)
         \/ ClientListenFails(k) \/ ClientAccept(k) \/ ClientDone(k) \/ ClientCrash(k)
  PROVE  BackedInv'
<1> USE DEF RegistryInv, serviceVars
<1>0. PeerStepOK /\ StaysUsed /\ UNCHANGED child
  BY ClientPeer DEF PeerStepOK, serverVars
<1>1. HelpersGoOn
  BY DEF HelpersGoOn, Reached
<1>2. PeerReads
  BY ClientReads
<1>3. SendsOnUsed
  BY <1>0, SentOnUsed DEF ClientConnect, ClientConnectRefused, SendConnect,
     ReadConnectResponse, ClientReadThrows, ClientRecvFails, ClientListenFails,
     ClientAccept, ClientDone, ClientCrash, SendsOnUsed, netVars
<1>4. \A P \in {Created, Unregisters} : NoneSaid(P)
  <2>1. CASE UNCHANGED inq
    BY <2>1 DEF NoneSaid
  <2>2. CASE SendConnect(k)
    <3>1. makeConnectRequest(wantedID[k]) \in Packet
      BY ProcessAssumption, PacketTypes DEF NodeID
    <3> QED
      BY <2>2, <3>1, OtherSaid, OtherMessages DEF SendConnect
  <2> QED
    BY <2>1, <2>2 DEF ClientConnect, ClientConnectRefused, ReadConnectResponse,
       ClientReadThrows, ClientRecvFails, ClientListenFails, ClientAccept, ClientDone,
       ClientCrash, netVars
<1>5. CreatedIsReached
  BY <1>4 DEF NoneSaid, CreatedIsReached
<1>6. \A j \in Client \ {k} : ClientStays(j)
  <2>1. \A j \in Client \ {k} : client'[j] = client[j]
    BY DEF ClientConnect, ClientConnectRefused, SendConnect, ReadConnectResponse,
       ClientReadThrows, ClientRecvFails, ClientListenFails, ClientAccept, ClientDone,
       ClientCrash, ClientExit, ClientGoto, TypeOK, ClientTypeOK
  <2> QED
    BY <1>4, <2>1 DEF ClientStays, NoneSaid
<1>7. CASE ClientConnect(k)
  <2>1. PICK c \in Conn : ClientConnect(k)!2!(c)
    BY <1>7 DEF ClientConnect
  <2>2. /\ ~Used(c) /\ peer'[c] # "none" /\ c # NoConn /\ Silent(c)
    BY <2>1, DialsFresh
  <2>3. /\ client'[k] = [pc |-> "dialled", connection |-> c]
        /\ \A j \in Client \ {k} : client'[j] = client[j]
    BY <2>1 DEF TypeOK, ClientTypeOK
  <2>4. UNCHANGED <<inq, outq>>
    BY <1>7 DEF ClientConnect
  <2>5. Promised(k)'
    BY <2>2, <2>3, <2>4 DEF Promised, Silent, Has
  <2>6. LinesBacked'
    BY <1>0, <2>2, <2>3, LinesKept
  <2> QED
    BY <1>0, <1>1, <1>2, <1>3, <1>5, <1>6, <2>5, <2>6, PeerBacked
<1>8. CASE ~ClientConnect(k)
  <2>1. client'[k].connection = client[k].connection
    BY <1>8 DEF ClientConnectRefused, SendConnect, ReadConnectResponse, ClientReadThrows,
       ClientRecvFails, ClientListenFails, ClientAccept, ClientDone, ClientCrash,
       ClientExit, ClientGoto, TypeOK, ClientTypeOK
  <2>2. client'[k].pc \in {"dialled", "waiting"} => client[k].pc \in {"dialled", "waiting"}
    BY <1>8 DEF ClientConnectRefused, SendConnect, ReadConnectResponse, ClientReadThrows,
       ClientRecvFails, ClientListenFails, ClientAccept, ClientDone, ClientCrash,
       ClientExit, ClientGoto, TypeOK, ClientTypeOK
  <2>3. ASSUME client'[k].pc \in {"connected", "relaying"}
        PROVE  Backed(client[k].connection)
    <3>1. CASE client[k].pc \in {"connected", "relaying"}
      BY <3>1 DEF BackedInv, Promised
    <3>2. CASE client[k].pc \notin {"connected", "relaying"}
      <4>1. /\ ReadConnectResponse(k) /\ client[k].pc = "waiting"
            /\ outq[client[k].connection] # <<>> /\ isOK(Head(outq[client[k].connection]))
        BY <1>8, <2>3, <3>2 DEF ClientConnectRefused, SendConnect, ReadConnectResponse,
           ClientReadThrows, ClientRecvFails, ClientListenFails, ClientAccept, ClientDone,
           ClientCrash, ClientExit, ClientGoto, TypeOK, ClientTypeOK
      <4>2. PICK c \in Conn : c = client[k].connection
        BY <4>1 DEF BackedInv, Promised, TypeOK, ClientTypeOK
      <4>3. 1 \in DOMAIN outq[c] /\ outq[c][1] = Head(outq[c]) /\ outq[c][1] \in Packet
        BY <4>1, <4>2, TailPackets DEF TypeOK, TransportTypeOK
      <4>4. Head(outq[c]) \in Okay
        BY <4>1, <4>2, <4>3 DEF isOK, Okay, makeResponse, Packet, Request, Response,
           Payload, OK, ERROR
      <4> QED
        BY <4>2, <4>3, <4>4, NumberTypes DEF BackedInv, Promised, Has
    <3> QED
      BY <3>1, <3>2
  <2>4. Promised(k)'
    BY <1>0, <1>2, <1>4, <2>1, <2>2, <2>3, PromiseKept, ReadsNoneTold
  <2>5. LinesBacked'
    <3>1. \A j \in Client : client'[j].connection = client[j].connection
      BY <1>8 DEF ClientConnectRefused, SendConnect, ReadConnectResponse, ClientReadThrows,
         ClientRecvFails, ClientListenFails, ClientAccept, ClientDone, ClientCrash,
         ClientExit, ClientGoto, TypeOK, ClientTypeOK
    <3> QED
      BY <1>0, <3>1, LinesKept
  <2> QED
    BY <1>0, <1>1, <1>2, <1>3, <1>5, <1>6, <2>4, <2>5, PeerBacked
<1> QED
  BY <1>7, <1>8

\* Another program, and the network, promise a client nothing.
LEMMA EventBacked ==
  ASSUME RegistryInv, BackedInv, NEW c \in Conn, ResetConnection(c) \/ StrayRequest(c)
  PROVE  BackedInv'
<1> USE DEF RegistryInv, serviceVars
<1>1. PeerStepOK /\ StaysUsed
  BY EventPeer DEF PeerStepOK
<1>2. UNCHANGED <<outq, client, svc, helper>>
  BY DEF ResetConnection, StrayRequest
<1>3. HelpersGoOn /\ LinesBacked'
  BY <1>1, <1>2, LinesKept DEF HelpersGoOn, Reached
<1>4. \A P \in {Created, Unregisters} : NoneSaid(P)
  <2>1. CASE ResetConnection(c)
    BY <2>1 DEF ResetConnection, NoneSaid
  <2>2. CASE StrayRequest(c)
    <3>1. \A d \in Conn \ {c} : inq'[d] = inq[d]
      BY <2>2 DEF StrayRequest, TypeOK, TransportTypeOK
    <3>2. inq'[c] = <<makeResponse(TRUE)>>
      BY <2>2 DEF StrayRequest, TypeOK, TransportTypeOK
    <3>3. \A i \in DOMAIN <<makeResponse(TRUE)>> : <<makeResponse(TRUE)>>[i] = makeResponse(TRUE)
      BY OnePacket
    <3>4. \A P \in {Created, Unregisters} : ~Has(inq'[c], P)
      BY <3>2, <3>3, OtherMessages DEF Has
    <3> QED
      BY <3>1, <3>4 DEF NoneSaid
  <2> QED
    BY <2>1, <2>2
<1>5. SendsOnUsed
  BY DialUses DEF ResetConnection, StrayRequest, SendsOnUsed, TypeOK, TransportTypeOK
<1>6. CreatedIsReached /\ \A k \in Client : ClientStays(k)
  BY <1>2, <1>4, ClientsStay DEF NoneSaid, CreatedIsReached
<1> QED
  BY <1>1, <1>2, <1>3, <1>5, <1>6, PeerBacked

-----------------------------------------------------------------------------
(* What spd and the relay processes do *)

\* Children are forked for helpers that reached their service, and relay for
\* these alone.
ChildrenBacked ==
  \A a \in Conn :
    /\ child[a].ok => child'[a].ok /\ child'[a].client = child[a].client
    /\ child'[a].ok => Reached(a) /\ child'[a].pc # "none"
    /\ child'[a].pc = "relay" => child'[a].ok

\* Nothing is sent on a connection that is not dialled, and a success to a
\* client only if a helper reached the service.
NoClient(c) == \A k \in Client : client[k].connection # c
TellsBacked ==
  \A c \in Conn : /\ Used(c) \/ outq'[c] = outq[c]
                  /\ Has(outq'[c], Okay) => Has(outq[c], Okay) \/ Backed(c) \/ NoClient(c)

\* A send that keeps the promises.
LEMMA SendsBacked ==
  ASSUME TypeOK, NEW c, NEW p \in Packet, Send(c, p),
         p \notin Okay \/ Backed(c) \/ NoClient(c)
  PROVE  TellsBacked
<1>1. \A d \in Conn \ {c} : outq'[d] = outq[d]
  BY DEF TypeOK, TransportTypeOK, Send
<1>2. c \in Conn => /\ outq[c] \in Seq(Packet)
                    /\ \/ outq'[c] = outq[c]
                       \/ Used(c) /\ outq'[c] = Append(outq[c], p)
  BY DEF TypeOK, TransportTypeOK, Send, Used
<1>3. c \in Conn /\ p \notin Okay => Fewer(Append(outq[c], p), outq[c], Okay)
  BY <1>2, FewerAppend
<1> QED
  BY <1>1, <1>2, <1>3 DEF TellsBacked, Fewer

\* The steps of spd and its relay processes keep the promises.
LEMMA SpdBacked ==
  ASSUME RegistryInv, BackedInv, UNCHANGED <<peer, serviceVars, client>>, OneReceived,
         ChildrenBacked, TellsBacked
  PROVE  BackedInv'
<1> USE DEF RegistryInv, serviceVars
<1>1. NoneSaid(Created) /\ NoneSaid(Unregisters)
  BY ReceivedNoneSaid
<1>2. \A c : Backed(c) => Backed(c)'
  BY DEF Backed, ChildrenBacked, Reached
<1>3. ASSUME NEW c \in Conn, ~Used(c)'
      PROVE  Silent(c)'
  <2>1. ~Used(c) /\ Silent(c)
    BY <1>3 DEF Used, BackedInv
  <2>2. inq'[c] = <<>>
    BY <2>1 DEF OneReceived, Consume, Silent, TypeOK, TransportTypeOK
  <2> QED
    BY <2>1, <2>2 DEF Silent, TellsBacked
<1>4. ASSUME NEW k \in Client
      PROVE  Promised(k)'
  <2>1. PICK c \in Conn \cup {NoConn} : c = client[k].connection
    BY DEF TypeOK, ClientTypeOK
  <2>2. Promised(k) /\ ~NoClient(c)
    BY <2>1 DEF BackedInv, NoClient
  <2>3. Backed(c) => Backed(c)'
    BY <1>2
  <2>4. c # NoConn => (Has(outq'[c], Okay) => Backed(c))
    BY <2>1, <2>2 DEF TellsBacked, Promised
  <2> QED
    BY <1>1, <2>1, <2>2, <2>3, <2>4 DEF Promised, Backed, NoneSaid
<1>5. \A s \in Service : Unhelped(s)' /\ NoClients(svc[s].farewell)'
  BY DEF BackedInv, Unhelped, NoClients, Used
<1>6. ASSUME NEW a \in Conn
      PROVE  /\ NoClients(helper[a].farewell)'
             /\ Has(inq'[a], Created) => Reached(a)'
             /\ child'[a].ok => Reached(a)' /\ child'[a].pc # "none"
             /\ child'[a].pc = "relay" => child'[a].ok
  BY <1>1 DEF BackedInv, ChildrenBacked, NoneSaid, NoClients, Reached, Used
<1> QED
  BY <1>3, <1>4, <1>5, <1>6 DEF BackedInv

\* A step that forks no child leaves the children backed.
LEMMA ChildrenSame ==
  ASSUME BackedInv, UNCHANGED child
  PROVE  ChildrenBacked
BY DEF BackedInv, ChildrenBacked

\* spd answers a request, and forks no child: no client is told of a success.
LEMMA RequestsBacked ==
  ASSUME RegistryInv, BackedInv, UNCHANGED <<serviceVars, client>>,
         \/ HandleRegister \/ HandleUnregister \/ HandleConnect \/ HandleConnectUnknown
         \/ HandleUnexpected
  PROVE  BackedInv'
<1> USE DEF RegistryInv
<1>1. UNCHANGED <<peer, child>> /\ \E req : Receive(req)
  BY DEF HandleRegister, HandleUnregister, HandleConnect, HandleConnectUnknown,
     HandleUnexpected
<1>2. OneReceived /\ request \in Conn
  BY <1>1, RequestReceived
<1>3. TellsBacked
  <2>1. CASE HandleRegister
    <3>1. PICK id \in ServerID : HandleRegister!(id)
      BY <2>1 DEF HandleRegister
    <3>2. PICK s \in Service : svc[s].connection = request
      BY <1>2, <3>1, RequestReceived DEF PacketsOwned
    <3>3. NoClient(request)
      BY <1>2, <3>2, NumberTypes DEF OwnersDistinct, NoClient
    <3> QED
      BY <3>1, <3>3, SendsBacked, PacketTypes
  <2>2. CASE HandleUnregister
    <3>1. PICK id \in ServerID : HandleUnregister!(id)
      BY <2>2 DEF HandleUnregister
    <3>2. Has(inq[request], Unregisters)
      BY <3>1, RequestReceived DEF Has, Unregisters
    <3>3. NoClient(request)
      BY <1>2, <3>2, NumberTypes DEF BackedInv, Promised, NoClient
    <3> QED
      BY <3>1, <3>3, SendsBacked, PacketTypes
  <2>3. CASE HandleConnect
    <3>1. PICK id \in ServerID : HandleConnect!(id)
      BY <2>3 DEF HandleConnect
    <3>2. PICK x \in NodeID : x = to_string(requestFd)
      BY <3>1, ClientNames, RequestReceived DEF NodeID
    <3>3. makeProxyConnectRequest(x) \in Packet /\ makeProxyConnectRequest(x) \notin Okay
      BY PacketTypes DEF Okay, makeProxyConnectRequest, makeRequest, makeResponse
    <3> QED
      BY <3>1, <3>2, <3>3, SendsBacked
  <2>4. CASE HandleConnectUnknown \/ HandleUnexpected
    <3>1. Send(request, makeResponse(FALSE))
      BY <2>4 DEF HandleConnectUnknown, HandleUnexpected
    <3> QED
      BY <3>1, SendsBacked, PacketTypes, OtherPackets
  <2> QED
    BY <2>1, <2>2, <2>3, <2>4
<1> QED
  BY <1>1, <1>2, <1>3, ChildrenSame, SpdBacked

\* The child forked to report a success has the connection of a helper that
\* reached its service.
LEMMA AnswerBacked ==
  ASSUME RegistryInv, ChildrenApart, BackedInv, HandleAnswer,
         UNCHANGED <<serviceVars, client>>
  PROVE  BackedInv'
<1> USE DEF RegistryInv
<1>1. PICK x \in ClientID, success \in BOOLEAN : HandleAnswer!(x, success)
  BY DEF HandleAnswer
<1>2. /\ requestFd \in FD /\ request \in Conn /\ OneReceived
      /\ 1 \in DOMAIN inq[request]
      /\ success => inq[request][1] = makeConnectionCreatedRequest(x)
  BY <1>1, RequestReceived
<1>3. CASE RefuseAnswer(x)
  <2>1. TellsBacked
    BY <1>3, SendsBacked, PacketTypes, OtherPackets DEF RefuseAnswer
  <2> QED
    BY <1>1, <1>2, <1>3, <2>1, ChildrenSame, SpdBacked DEF RefuseAnswer
<1>4. CASE ResolvePending(x, success)
  <2>1. success => Reached(request)
    <3>1. success => makeConnectionCreatedRequest(x) \in Created
      BY DEF Created, NodeID
    <3> QED
      BY <1>2, <3>1 DEF BackedInv, Has
  <2>2. child[request].pc = "none" /\ ~child[request].ok
    BY <1>2 DEF ChildrenApart, Settled, request, BackedInv
  <2>3. ChildrenBacked
    <3>1. CASE UNCHANGED child
      BY <3>1, ChildrenSame
    <3>2. CASE child' = Forked(atoi(x), success)
      <4>1. /\ \A a \in Conn \ {request} : child'[a] = child[a]
            /\ child'[request].ok = success /\ child'[request].pc = "notify"
        BY <1>2, <3>2 DEF Forked, TypeOK, ServerTypeOK
      <4> QED
        BY <2>1, <2>2, <4>1 DEF ChildrenBacked, BackedInv
    <3> QED
      BY <1>4, <3>1, <3>2 DEF ResolvePending
  <2>4. TellsBacked
    BY <1>4 DEF ResolvePending, TellsBacked
  <2> QED
    BY <1>1, <1>2, <2>3, <2>4, SpdBacked
<1> QED
  BY <1>1, <1>3, <1>4

\* A relay process sends only to its client, whose helper reached the service
\* unless it is told of a failure.
LEMMA ChildBacked ==
  ASSUME RegistryInv, BackedInv, UNCHANGED <<serviceVars, client>>, NEW a \in Conn,
         ChildNotify(a) \/ ChildForward(a) \/ ChildRelayed(a) \/ ChildKilled(a)
  PROVE  BackedInv'
<1> USE DEF RegistryInv
<1>1. UNCHANGED peer /\ OneReceived
  BY DEF ChildNotify, ChildForward, ChildRelayed, ChildKilled, ChildExit, OneReceived
<1>2. /\ \A b \in Conn \ {a} : child'[b] = child[b]
      /\ child'[a].ok = child[a].ok /\ child'[a].client = child[a].client
      /\ child[a].pc # "none" /\ child'[a].pc # "none"
      /\ child'[a].pc = "relay" => child[a].ok
  BY DEF ChildNotify, ChildForward, ChildRelayed, ChildKilled, ChildExit, serverVars, TypeOK,
     ServerTypeOK, BackedInv
<1>3. ChildrenBacked
  BY <1>2 DEF ChildrenBacked, BackedInv
<1>4. TellsBacked
  <2>1. child[a].ok => Backed(child[a].client)
    BY DEF BackedInv, Backed
  <2>2. CASE ChildNotify(a)
    BY <2>1, <2>2, SendsBacked, PacketTypes, OtherPackets DEF ChildNotify, Notice, TypeOK,
       ServerTypeOK
  <2>3. CASE ChildForward(a)
    <3>1. Head(inq[a]) \in Packet
      BY <2>3, ConsumeType DEF ChildForward, TypeOK
    <3> QED
      BY <2>1, <2>3, <3>1, SendsBacked DEF ChildForward, BackedInv
  <2>4. CASE ChildRelayed(a) \/ ChildKilled(a)
    BY <2>4 DEF ChildRelayed, ChildKilled, TellsBacked
  <2> QED
    BY <2>2, <2>3, <2>4
<1> QED
  BY <1>1, <1>3, <1>4, SpdBacked

\* Every step of spd and of its relay processes keeps the promises.
LEMMA ServerBacked ==
  ASSUME RegistryInv, ChildrenApart, BackedInv, ServerStep, UNCHANGED <<serviceVars, client>>
  PROVE  BackedInv'
<1>1. CASE \/ Run \/ AcceptConnection \/ RecvError \/ ParseThrows \/ HandleConnectKilled
  <2>1. UNCHANGED <<peer, inq, outq, child>>
    BY <1>1 DEF Run, AcceptConnection, RecvError, ParseThrows, HandleConnectKilled, Die,
       ProcessExit, netVars
  <2> QED
    BY <2>1, ChildrenSame, SpdBacked DEF OneReceived, TellsBacked
<1> QED
  BY <1>1, RequestsBacked, AnswerBacked, ChildBacked DEF ServerStep

-----------------------------------------------------------------------------
(* The theorem *)

\* BackedInv is inductive, given that numbers are not stale and children apart.
LEMMA BackedStep ==
  RegistryInv /\ ChildrenApart /\ BackedInv /\ [Next]_vars => BackedInv'
<1> SUFFICES ASSUME RegistryInv, ChildrenApart, BackedInv, [Next]_vars
             PROVE  BackedInv'
  OBVIOUS
<1>1. CASE ServerStep /\ UNCHANGED <<serviceVars, client>>
  BY <1>1, ServerBacked
<1>2. CASE ServiceStep /\ UNCHANGED <<serverVars, client>>
  <2>1. PICK s \in Service : ServiceStep!(s)
    BY <1>2 DEF ServiceStep
  <2>2. svc[s].children \in SUBSET Conn
    BY SvcType DEF RegistryInv, TypeOK, SvcRecord
  <2> QED
    BY <1>2, <2>1, <2>2, ServiceBacked, HelperBacked
<1>3. CASE ClientStep /\ UNCHANGED <<serverVars, serviceVars>>
  BY <1>3, ClientBacked DEF ClientStep
<1>4. CASE \E c \in Conn : ResetConnection(c) \/ StrayRequest(c)
  BY <1>4, EventBacked
<1>5. CASE UNCHANGED vars
  <2>1. UNCHANGED <<peer, serviceVars, client, inq, outq, child>>
    BY <1>5 DEF vars, transportVars, netVars, serverVars
  <2> QED
    BY <2>1, ChildrenSame, SpdBacked DEF OneReceived, TellsBacked
<1> QED
  BY <1>1, <1>2, <1>3, <1>4, <1>5 DEF Next

\* Whatever fails, and however often spd is started: a client that was told it
\* is connected has a relay process of spd, and a helper that reached a service
\* at its other end.
THEOREM ConnectedAreBacked == Spec => []ConnectedIsBacked
<1>1. Init => BackedInv
  <2> SUFFICES ASSUME Init PROVE BackedInv
    OBVIOUS
  <2>1. \A c \in Conn : Silent(c) /\ ~Has(inq[c], Created)
    BY DEF Init, TransportInit, ServiceInit, Silent, Has
  <2>2. \A s \in Service : svc[s].newProxyConnection = NoConn /\ svc[s].farewell = NoConn
    BY DEF Init, ServiceInit
  <2>3. \A a \in Conn : helper[a].farewell = NoConn /\ ~child[a].ok /\ child[a].pc = "none"
    BY DEF Init, ServiceInit, ServerInit
  <2>4. \A k \in Client : client[k].connection = NoConn /\ client[k].pc = "off"
    BY DEF Init, ClientInit
  <2> QED
    BY <2>1, <2>2, <2>3, <2>4 DEF BackedInv, Unhelped, NoClients, Promised
<1>2. BackedInv => ConnectedIsBacked
  BY DEF BackedInv, Promised, Backed, Reached, ConnectedIsBacked
<1> QED
  BY <1>1, <1>2, BackedStep, RegistryInvariant, ChildrenInvariant, PTL DEF Spec

-----------------------------------------------------------------------------
(* Why spd goes on.  First what the peers do *)

\* All that is asked of the programs, and all that goes wrong.
Orderly == Events \subseteq {"shutdown", "eager", "stray"}

\* The peers receive, speak before they close, and send packets first.
PeerActs ==
  \A d \in Conn :
    /\ outq[d] = <<>> => outq'[d] = <<>>
    /\ inq[d] # <<>> => inq'[d] # <<>>
    /\ Early(d) /\ inq'[d] # <<>> => inq'[d][1] # Payload
    /\ peer'[d] = "closed" => peer[d] = "closed" \/ inq'[d] # <<>> \/ ~Early(d)
    /\ peer[d] = "closed" => peer'[d] = "closed"
    /\ rst'[d] # "no" => rst[d] # "no" \/ peer'[d] = "closed"

\* Nobody gets a connection to answer with, or one to register on that is not new.
LinesFewer ==
  \A s \in Service : /\ Opened(s)' \subseteq Opened(s)
                     /\ \/ svc'[s].connection = svc[s].connection
                        \/ ~Used(svc'[s].connection)

\* The connection of s is not touched.
Untouched(s) ==
  LET c == svc[s].connection IN
  /\ svc'[s].pc = svc[s].pc /\ svc'[s].connection = c
  /\ c # NoConn => peer'[c] = peer[c] /\ outq'[c] = outq[c]

\* A peer's step makes nothing early.
LEMMA PeerEarly ==
  ASSUME TypeOK, PeerStepOK
  PROVE  \A c \in Conn : Early(c)' => Early(c)
<1>1. UNCHANGED <<fdTable, requestFd>>
  BY DEF PeerStepOK, hostVars, serverVars
<1>2. \A i \in DOMAIN backlog' :
        (\E j \in DOMAIN backlog : backlog[j] = backlog'[i]) \/ ~Used(backlog'[i])
  <2>1. CASE UNCHANGED backlog
    BY <2>1
  <2>2. ASSUME NEW d \in Conn, Dial(d)
        PROVE  \A i \in DOMAIN backlog' :
                 (\E j \in DOMAIN backlog : backlog[j] = backlog'[i]) \/ ~Used(backlog'[i])
    <3>1. backlog \in Seq(Conn) /\ backlog' = Append(backlog, d) /\ ~Used(d)
      BY <2>2, DialUses DEF Dial, TypeOK, TransportTypeOK
    <3> QED
      BY <3>1, AppendPackets
  <2> QED
    BY <2>1, <2>2 DEF PeerStepOK
<1>3. \A c \in Conn : ~Used(c)' => ~Used(c)
  BY DEF PeerStepOK, StaysUsed, Used
<1> QED
  BY <1>1, <1>2, <1>3 DEF Early, request

\* Who has spoken has.
LEMMA SpokeStays ==
  ASSUME TypeOK, PeerStepOK, PeerActs
  PROVE  \A c \in Conn : Spoke(c) => Spoke(c)'
BY PeerEarly DEF PeerActs, Spoke

\* Such a step keeps spd going.
LEMMA PeerGoing ==
  ASSUME RegistryInv, Going, PeerStepOK, PeerActs, \A s \in Service : Listens(s)',
         LinesUsed', \A a \in Conn : helper'[a].pc # "stopping", Spoken'
  PROVE  Going'
<1>1. spd' = "up"
  BY DEF Going, PeerStepOK, hostVars
<1>2. ASSUME NEW c \in Conn, Early(c)'
      PROVE  Receivable(c)'
  <2>1. Early(c) /\ Receivable(c)
    BY <1>2, PeerEarly DEF Going, RegistryInv
  <2> QED
    BY <2>1 DEF PeerActs, Receivable
<1>3. \A c \in Conn : rst'[c] # "no" => peer'[c] = "closed"
  BY DEF PeerActs, Going
<1> QED
  BY <1>1, <1>2, <1>3 DEF Going

\* A registration is what it was.
LEMMA PeerHolding ==
  ASSUME PeerStepOK, NEW s \in Service, svc'[s].connection = svc[s].connection
  PROVE  Holds(s)' <=> Holds(s)
BY DEF PeerStepOK, hostVars, serverVars, Holds, Registered

\* A service proxy that is left alone listens on.
LEMMA UntouchedListens ==
  ASSUME RegistryInv, Going, PeerStepOK, NEW s \in Service, Untouched(s)
  PROVE  Listens(s)'
<1>1. PICK c \in Conn \cup {NoConn} : c = svc[s].connection
  BY SvcType DEF RegistryInv, TypeOK, SvcRecord
<1>2. svc'[s].connection = c /\ svc'[s].pc = svc[s].pc
  BY <1>1 DEF Untouched
<1>3. c # NoConn => /\ Early(c)' => Early(c)
                    /\ peer'[c] = peer[c] /\ outq'[c] = outq[c]
  BY <1>1, PeerEarly DEF Untouched, RegistryInv
<1>4. Holds(s)' => Holds(s) /\ c # NoConn
  BY <1>1, <1>2, PeerHolding DEF Holds
<1>5. Listens(s)
  BY DEF Going
<1>6. svc'[s].pc # "stopping" /\ (c # NoConn /\ Early(c)' =>
        svc'[s].pc \in {"dialled", "awaiting"} /\ peer'[c] = "open")
  BY <1>1, <1>2, <1>3, <1>5 DEF Listens
<1>7. Holds(s)' => Held(s)'
  BY <1>1, <1>2, <1>3, <1>4, <1>5 DEF Listens, Held
<1> QED
  BY <1>2, <1>6, <1>7 DEF Listens

\* What is opened stays apart from what is registered.
LEMMA LinesUsedKept ==
  ASSUME RegistryInv, Going, PeerStepOK, LinesFewer
  PROVE  LinesUsed'
<1>1. \A s \in Service : Opened(s) \subseteq Conn
  BY SvcType, NumberTypes DEF RegistryInv, TypeOK, SvcRecord, Opened
<1>2. \A a \in Conn : Used(a) => Used(a)'
  BY DEF PeerStepOK, StaysUsed, Used
<1> QED
  BY <1>1, <1>2 DEF LinesFewer, LinesUsed, Going

\* Sending on a connection that was dialled: application bytes not first.
LEMMA SendActs ==
  ASSUME RegistryInv, Going, NEW c \in Conn, Used(c), NEW p \in Packet, PeerSend(c, p),
         p = Payload => Spoke(c)
  PROVE  /\ \A d \in Conn : /\ inq[d] # <<>> => inq'[d] # <<>>
                            /\ Early(d) /\ inq'[d] # <<>> => inq'[d][1] # Payload
         /\ inq'[c] # <<>> \/ ~Early(c)
<1> USE DEF RegistryInv
<1>1. \A d \in Conn \ {c} : inq'[d] = inq[d]
  BY DEF PeerSend, TypeOK, TransportTypeOK
<1>2. inq[c] \in Seq(Packet) /\ (inq'[c] = inq[c] \/ inq'[c] = Append(inq[c], p))
  BY DEF PeerSend, TypeOK, TransportTypeOK
<1>3. /\ inq[c] # <<>> => inq'[c] # <<>> /\ inq'[c][1] = inq[c][1]
      /\ inq'[c] # <<>> /\ inq[c] = <<>> => inq'[c][1] = p
  BY <1>2
<1>4. Early(c) /\ inq[c] = <<>> => p # Payload /\ peer[c] = "open" /\ SpdHolds(c)
  <2>1. Early(c) /\ inq[c] = <<>> => peer[c] = "open"
    BY DEF Going, Receivable, Used, TypeOK, TransportTypeOK
  <2>2. Early(c) => SpdHolds(c)
    BY DEF Early, SpdHolds, Open, request, TypeOK, ServerTypeOK
  <2> QED
    BY <2>1, <2>2 DEF Spoke
<1>5. Early(c) /\ inq[c] = <<>> => inq'[c] = Append(inq[c], p)
  BY <1>4 DEF PeerSend, TypeOK, TransportTypeOK
<1>6. inq'[c] # <<>> \/ ~Early(c)
  BY <1>2, <1>3, <1>5
<1>7. \A d \in Conn : Early(d) /\ inq[d] # <<>> => inq[d][1] # Payload
  BY DEF Going, Receivable
<1> QED
  BY <1>1, <1>3, <1>4, <1>6, <1>7

\* A step that only sends there.
LEMMA OnlySends ==
  ASSUME RegistryInv, Going, UNCHANGED <<outq, peer, rst>>,
         NEW c \in Conn, Used(c), NEW p \in Packet, PeerSend(c, p), p = Payload => Spoke(c)
  PROVE  PeerActs /\ (inq'[c] # <<>> \/ ~Early(c))
BY SendActs DEF PeerActs

\* A step that only receives, or does nothing.
LEMMA OnlyReceives ==
  ASSUME RegistryInv, Going, UNCHANGED <<inq, peer, rst>>,
         UNCHANGED outq \/ \E c \in Conn : outq[c] # <<>> /\ PeerReceive(c)
  PROVE  PeerActs
<1>1. \A d \in Conn : outq[d] = <<>> => outq'[d] = <<>>
  BY DEF PeerReceive, RegistryInv, TypeOK, TransportTypeOK
<1> QED
  BY <1>1 DEF PeerActs, Going, Receivable

\* A step that closes connections, on which something was said.
LEMMA OnlyCloses ==
  ASSUME RegistryInv, Going, NEW cs, PeerClose(cs),
         \A d \in Conn : inq[d] # <<>> => inq'[d] # <<>>,
         \A d \in Conn : Early(d) /\ inq'[d] # <<>> => inq'[d][1] # Payload,
         \A d \in Conn : d \in cs => inq'[d] # <<>> \/ ~Early(d)
  PROVE  PeerActs
BY DEF PeerActs, PeerClose

\* Dialling speaks of nothing.
LEMMA OnlyDials ==
  ASSUME RegistryInv, Going, UNCHANGED <<inq, outq, rst>>, NEW c \in Conn, Dial(c)
  PROVE  PeerActs
BY DEF PeerActs, Going, Receivable, Dial, Fresh, RegistryInv, TypeOK, TransportTypeOK

\* Who says the first words in this step, or is past them.
SpeakersSpoke ==
  /\ \A s \in Service :
       \/ svc'[s].pc \in {"off", "dialled"}
       \/ /\ svc'[s].connection = svc[s].connection
          /\ \/ svc[s].pc \notin {"off", "dialled"}
             \/ \A c \in Conn : svc[s].connection = c => Spoke(c)'
  /\ \A k \in Client :
       \/ client'[k].pc \in {"off", "dialled"}
       \/ /\ client'[k].connection = client[k].connection
          /\ \/ client[k].pc \notin {"off", "dialled"}
             \/ \A c \in Conn : client[k].connection = c => Spoke(c)'
  /\ \A a \in Conn :
       \/ helper'[a].pc \in {"none", "connecting"}
       \/ helper[a].pc \notin {"none", "connecting"}
       \/ Spoke(a)'

\* They have spoken after it.
LEMMA SpokenKept ==
  ASSUME RegistryInv, Going, PeerStepOK, PeerActs, SpeakersSpoke
  PROVE  Spoken'
<1> USE DEF RegistryInv
<1>0. \A c \in Conn : Spoke(c) => Spoke(c)'
  BY SpokeStays
<1>1. ASSUME NEW s \in Service, svc'[s].pc \notin {"off", "dialled"}, svc'[s].connection # NoConn
      PROVE  Spoke(svc[s].connection)'
  <2>1. PICK c \in Conn : c = svc[s].connection /\ c = svc'[s].connection
    BY <1>1, SvcType DEF TypeOK, SvcRecord, SpeakersSpoke
  <2>2. Spoke(c)'
    BY <1>0, <1>1, <2>1 DEF SpeakersSpoke, Going, Spoken
  <2> QED
    BY <2>1, <2>2 DEF Spoke
<1>2. ASSUME NEW k \in Client, client'[k].pc \notin {"off", "dialled"},
             client'[k].connection # NoConn
      PROVE  Spoke(client[k].connection)'
  <2>1. PICK c \in Conn : c = client[k].connection /\ c = client'[k].connection
    BY <1>2 DEF TypeOK, ClientTypeOK, SpeakersSpoke
  <2>2. Spoke(c)'
    BY <1>0, <1>2, <2>1 DEF SpeakersSpoke, Going, Spoken
  <2> QED
    BY <2>1, <2>2 DEF Spoke
<1>3. ASSUME NEW a \in Conn, helper'[a].pc \notin {"none", "connecting"}
      PROVE  Spoke(a)'
  BY <1>0, <1>3 DEF SpeakersSpoke, Going, Spoken
<1> QED
  BY <1>1, <1>2, <1>3 DEF Spoken

\* The other service proxies, when one does what it does on its own connection
\* or on one that is no service proxy's.
LEMMA OthersUntouched ==
  ASSUME RegistryInv, NEW s \in Service, NEW t \in Service \ {s}, svc'[t] = svc[t],
         \A c \in Conn \ {svc[s].connection} :
           svc[t].connection = c => peer'[c] = peer[c] /\ outq'[c] = outq[c]
  PROVE  Untouched(t)
<1>1. PICK c \in Conn \cup {NoConn} : c = svc[t].connection
  BY SvcType DEF RegistryInv, TypeOK, SvcRecord
<1>2. c # NoConn => c # svc[s].connection
  BY <1>1 DEF RegistryInv, OwnersDistinct
<1> QED
  BY <1>1, <1>2 DEF Untouched

\* What a service proxy does that is neither interrupted nor ends.
LEMMA ServiceGoes ==
  ASSUME RegistryInv, Going, NEW s \in Service, UNCHANGED <<serverVars, client>>,
         \/ Connect(s) \/ SendRegister(s) \/ ReadConnectRequest(s)
         \/ DialProxy(s) \/ Fork(s)
         \/ ReadRegisterResponse(s) /\ svc'[s].pc = "serving"
  PROVE  Going'
<1> USE DEF RegistryInv
<1>0. PeerStepOK
  BY ServicePeer
<1>r. /\ svc[s] \in SvcRecord /\ serviceID[s] \in ServerID /\ Listens(s)
      /\ \A t \in Service \ {s} : svc'[t] = svc[t]
  <2>1. \A t \in Service \ {s} : svc'[t] = svc[t]
    BY DEF Connect, SendRegister, ReadConnectRequest, DialProxy, Fork, ReadRegisterResponse,
       Goto, Exit, TypeOK, ServiceTypeOK
  <2> QED
    BY <2>1, SvcType, ProcessAssumption DEF TypeOK, Going
<1>h. /\ \A a \in Conn : helper'[a].pc # "stopping"
      /\ \A a \in Conn : helper'[a].pc \in {"none", "connecting"} \/ helper'[a].pc = helper[a].pc
  BY DEF Connect, SendRegister, ReadConnectRequest, DialProxy, Fork, ReadRegisterResponse,
     Going, TypeOK, ServiceTypeOK
<1>e. svc[s].connection # NoConn /\ outq[svc[s].connection] # <<>> => ~Early(svc[s].connection)
  BY <1>r DEF SvcRecord, Going, Receivable
<1>1. ASSUME Connect(s) PROVE Going'
  <2>1. PICK c \in Conn : Connect(s)!2!(c)
    BY <1>1 DEF Connect
  <2>2. /\ ~Used(c) /\ peer'[c] = "open" /\ \A d \in Conn \ {c} : peer'[d] = peer[d]
        /\ UNCHANGED <<inq, outq, rst, helper>>
    BY <1>1, <2>1, DialUses DEF Connect, Dial, TypeOK, TransportTypeOK
  <2>3. /\ svc'[s].pc = "dialled" /\ svc'[s].connection = c
        /\ svc'[s].children = svc[s].children
        /\ svc'[s].newProxyConnection = svc[s].newProxyConnection
    BY <2>1 DEF TypeOK, ServiceTypeOK
  <2>4. PeerActs
    BY <2>1, <2>2, OnlyDials
  <2>5. ASSUME NEW t \in Service PROVE Listens(t)'
    <3>1. CASE t # s
      <4>1. svc[t].connection # c
        BY <2>2, NumberTypes DEF OwnersDistinct
      <4> QED
        BY <1>0, <1>r, <2>2, <3>1, <4>1, UntouchedListens, OthersUntouched
    <3>2. CASE t = s
      <4>1. ~Holds(s)'
        <5>1. \A f \in FD : fdTable[f] # c
          BY <2>2, NumberTypes DEF HostConsistent
        <5>2. Registered(serviceID[s]) => serverMap[serviceID[s]] \in FD
          BY <1>r DEF Registered, TypeOK, ServerTypeOK
        <5> QED
          BY <1>0, <2>3, <5>1, <5>2 DEF Holds, PeerStepOK, hostVars, serverVars, Registered
      <4> QED
        BY <2>2, <2>3, <3>2, <4>1 DEF Listens
    <3> QED
      BY <3>1, <3>2
  <2>6. LinesFewer
    BY <1>r, <2>2, <2>3 DEF LinesFewer, Opened
  <2>7. SpeakersSpoke
    BY <1>r, <1>h, <2>3, NumberTypes DEF SpeakersSpoke, OwnersDistinct
  <2> QED
    BY <1>0, <1>h, <2>4, <2>5, <2>6, <2>7, PeerGoing, LinesUsedKept, SpokenKept
<1>g. ASSUME PeerActs, Listens(s)', LinesUsed', svc'[s].connection = svc[s].connection,
             \A c \in Conn \ {svc[s].connection} :
               Used(c) => peer'[c] = peer[c] /\ outq'[c] = outq[c],
             \/ svc[s].pc \notin {"off", "dialled"}
             \/ \A c \in Conn : svc[s].connection = c => Spoke(c)'
      PROVE  Going'
  <2>1. ASSUME NEW t \in Service \ {s}
        PROVE  Listens(t)'
    <3>1. \A c \in Conn : svc[t].connection = c => Used(c)
      BY NumberTypes DEF OwnersDistinct
    <3> QED
      BY <1>0, <1>r, <1>g, <3>1, UntouchedListens, OthersUntouched
  <2>2. SpeakersSpoke
    BY <1>r, <1>h, <1>g DEF SpeakersSpoke
  <2> QED
    BY <1>0, <1>h, <1>g, <2>1, <2>2, PeerGoing, SpokenKept
<1>k. ASSUME svc'[s].connection = svc[s].connection, svc'[s].children = svc[s].children,
             svc'[s].newProxyConnection = svc[s].newProxyConnection
      PROVE  LinesUsed'
  BY <1>0, <1>r, <1>k, LinesUsedKept DEF LinesFewer, Opened
<1>c. PICK c \in Conn \cup {NoConn} : c = svc[s].connection
  BY <1>r DEF SvcRecord
<1>i. c # NoConn => /\ Early(c)' => Early(c) /\ svc[s].pc \in {"dialled", "awaiting"} /\ peer[c] = "open"
                    /\ outq[c] # <<>> => ~Early(c)'
  BY <1>0, <1>r, <1>c, <1>e, PeerEarly DEF Listens
<1>2. ASSUME SendRegister(s) PROVE Going'
  <2>1. makeRegisterRequest(serviceID[s]) \in Packet \ {Payload}
    BY <1>r, PacketTypes DEF NodeID, makeRegisterRequest, makeRequest, Payload
  <2>2. svc[s].pc = "dialled" /\ UNCHANGED <<outq, peer, rst, helper>> /\ c # NoConn
    BY <1>2, <1>c DEF SendRegister, HandlesKnown, SvcReady
  <2>3. PeerActs /\ (inq'[c] # <<>> \/ ~Early(c))
    BY <1>2, <1>c, <2>1, <2>2, OnlySends DEF SendRegister, OwnersDistinct
  <2>4. /\ svc'[s].pc = "awaiting" /\ svc'[s].connection = c
        /\ svc'[s].children = svc[s].children
        /\ svc'[s].newProxyConnection = svc[s].newProxyConnection
    BY <1>2, <1>c DEF SendRegister, Goto, TypeOK, ServiceTypeOK
  <2>5. ~Holds(s)'
    BY <1>0, <1>c, <1>r, <2>2, <2>4, PeerHolding DEF Listens, Held
  <2>6. Listens(s)'
    BY <1>i, <2>2, <2>4, <2>5 DEF Listens
  <2>7. Spoke(c)'
    BY <1>0, <2>2, <2>3, PeerEarly DEF Spoke
  <2> QED
    BY <1>c, <1>g, <1>k, <2>2, <2>3, <2>4, <2>6, <2>7
<1>3. ASSUME c # NoConn, outq[c] # <<>>, PeerReceive(c), UNCHANGED <<inq, peer, rst, helper>>,
             svc[s].pc \in {"awaiting", "serving"}, svc'[s].pc \in {"serving", "dialling"},
             svc'[s].connection = c, svc'[s].children = svc[s].children,
             svc'[s].newProxyConnection = svc[s].newProxyConnection
      PROVE  Going'
  <2>2. PeerActs
    BY <1>3, OnlyReceives
  <2>3. Holds(s)' => Held(s)'
    BY <1>0, <1>c, <1>r, <1>3, PeerHolding DEF Listens, Held
  <2>4. Listens(s)'
    BY <1>i, <1>3, <2>3 DEF Listens
  <2>5. \A d \in Conn \ {c} : outq'[d] = outq[d]
    BY <1>3 DEF PeerReceive, TypeOK, TransportTypeOK
  <2> QED
    BY <1>c, <1>g, <1>k, <1>3, <2>2, <2>4, <2>5
<1>4. ASSUME DialProxy(s) PROVE Going'
  <2>1. PICK a \in Conn : DialProxy(s)!2!(a)
    BY <1>4 DEF DialProxy
  <2>2. /\ ~Used(a) /\ Used(a)' /\ \A d \in Conn \ {a} : peer'[d] = peer[d]
        /\ svc[s].pc = "dialling" /\ UNCHANGED <<inq, outq, rst, helper>>
    BY <1>4, <2>1, DialUses DEF DialProxy, Dial, Used, TypeOK, TransportTypeOK
  <2>3. /\ svc'[s].pc = "forking" /\ svc'[s].connection = c
        /\ svc'[s].children = svc[s].children /\ svc'[s].newProxyConnection = a
    BY <1>c, <2>1 DEF TypeOK, ServiceTypeOK
  <2>4. PeerActs
    BY <2>1, <2>2, OnlyDials
  <2>5. c # NoConn => c # a
    BY <1>c, <2>2 DEF OwnersDistinct
  <2>6. Holds(s)' => Held(s)'
    BY <1>0, <1>c, <1>r, <2>2, <2>3, <2>5, PeerHolding DEF Listens, Held, Holds
  <2>7. Listens(s)'
    BY <1>i, <2>2, <2>3, <2>6 DEF Listens
  <2>8. LinesUsed'
    <3>1. \A t \in Service : svc[t].connection # a
      BY <2>2, NumberTypes DEF OwnersDistinct
    <3>2. \A t \in Service : Opened(t)' \subseteq Opened(t) \cup {a} /\ Opened(t) \subseteq Conn
      BY <1>r, <2>3, SvcType, NumberTypes DEF Opened, TypeOK, SvcRecord
    <3>3. \A t \in Service : svc'[t].connection = svc[t].connection
      BY <1>r, <1>c, <2>3
    <3>4. \A d \in Conn : Used(d) => Used(d)'
      BY <1>0 DEF PeerStepOK, StaysUsed, Used
    <3> QED
      BY <2>2, <3>1, <3>2, <3>3, <3>4 DEF LinesUsed, Going
  <2> QED
    BY <1>c, <1>g, <2>2, <2>3, <2>4, <2>7, <2>8
<1>5. ASSUME Fork(s) PROVE Going'
  <2>1. svc[s].pc = "forking" /\ UNCHANGED <<inq, outq, rst, peer>>
    BY <1>5 DEF Fork, netVars
  <2>2. /\ svc'[s].pc = "serving" /\ svc'[s].connection = c
        /\ svc'[s].newProxyConnection = NoConn
        /\ svc'[s].children = svc[s].children \cup {svc[s].newProxyConnection}
        /\ svc[s].newProxyConnection # NoConn
    BY <1>5, <1>c DEF Fork, TypeOK, ServiceTypeOK, HandlesKnown, SvcReady
  <2>3. PeerActs
    BY <2>1, OnlyReceives
  <2>4. Holds(s)' => Held(s)'
    BY <1>0, <1>c, <1>r, <2>1, <2>2, PeerHolding DEF Listens, Held
  <2>5. Listens(s)'
    BY <1>i, <2>1, <2>2, <2>4 DEF Listens
  <2>6. Opened(s)' \subseteq Opened(s)
    BY <2>2 DEF Opened
  <2>7. LinesFewer
    BY <1>r, <1>c, <2>2, <2>6 DEF LinesFewer, Opened
  <2> QED
    BY <1>0, <1>c, <1>g, <2>1, <2>2, <2>3, <2>5, <2>7, LinesUsedKept
<1>6. CASE ReadRegisterResponse(s) /\ svc'[s].pc = "serving"
  BY <1>3, <1>6, <1>c DEF ReadRegisterResponse, Goto, Exit, HandlesKnown, SvcReady, TypeOK,
     ServiceTypeOK
<1>7. CASE ReadConnectRequest(s)
  BY <1>3, <1>7, <1>c DEF ReadConnectRequest, HandlesKnown, SvcReady, TypeOK, ServiceTypeOK
<1> QED
  BY <1>1, <1>2, <1>4, <1>5, <1>6, <1>7

\* A connection is closed whose owner, or the helper that answered with it, has
\* spoken, and on which spd has registered nobody it serves.
LEMMA ClosingGoes ==
  ASSUME RegistryInv, Going, PeerStepOK, NEW cs, PeerClose(cs), PeerActs,
         \A s \in Service :
           /\ svc'[s].connection = svc[s].connection /\ Opened(s)' \subseteq Opened(s)
           /\ svc'[s].pc = "off" \/ svc[s].pc \notin {"off", "dialled"} \/ svc'[s].pc = svc[s].pc
           /\ \/ Untouched(s)
              \/ /\ svc'[s].pc = "exited" /\ ~Holds(s)
                 /\ \A c \in Conn : svc[s].connection = c => ~Early(c),
         \A k \in Client : /\ client'[k].connection = client[k].connection
                           /\ client'[k].pc = client[k].pc \/ client[k].pc \notin {"off", "dialled"},
         \A a \in Conn :
           /\ helper'[a].pc # "stopping"
           /\ \/ helper'[a].pc = helper[a].pc \/ helper[a].pc \notin {"none", "connecting"}
              \/ Spoke(a)'
  PROVE  Going'
<1> USE DEF RegistryInv
<1>1. ASSUME NEW s \in Service PROVE Listens(s)'
  <2>1. SUFFICES ASSUME svc'[s].pc = "exited", ~Holds(s),
                        \A c \in Conn : svc[s].connection = c => ~Early(c)
                 PROVE  Listens(s)'
    BY UntouchedListens
  <2>2. PICK c \in Conn \cup {NoConn} : c = svc[s].connection /\ c = svc'[s].connection
    BY SvcType DEF TypeOK, SvcRecord
  <2>3. ~Holds(s)'
    BY <2>1, <2>2, PeerHolding
  <2>4. c # NoConn => ~Early(c)'
    BY <2>1, <2>2, PeerEarly
  <2> QED
    BY <2>1, <2>2, <2>3, <2>4 DEF Listens
<1>2. LinesUsed'
  BY LinesUsedKept DEF LinesFewer
<1>3. SpeakersSpoke
  BY DEF SpeakersSpoke, Untouched
<1> QED
  BY <1>1, <1>2, <1>3, PeerGoing, SpokenKept

\* A service proxy ends that spd refused, or that it has forgotten.
LEMMA ServiceEnds ==
  ASSUME Orderly, RegistryInv, Going, NEW s \in Service, UNCHANGED <<serverVars, client>>,
         \/ ReadThrows(s)
         \/ ReadRegisterResponse(s) /\ svc'[s].pc # "serving"
  PROVE  Going'
<1> USE DEF RegistryInv
<1>0. PeerStepOK
  BY ServicePeer
<1>c. PICK c \in Conn : c = svc[s].connection
  BY SvcType DEF TypeOK, SvcRecord, ReadThrows, ReadRegisterResponse, HandlesKnown, SvcReady
<1>1. /\ svc[s].pc \in {"awaiting", "serving"} /\ Exit(s, {}) /\ UNCHANGED <<inq, helper>>
      /\ \/ outq[c] = <<>> /\ (peer[c] = "closed" \/ ~SpdHolds(c))
         \/ outq[c] # <<>> /\ ~isOK(Head(outq[c])) /\ svc[s].pc = "awaiting"
  <2>1. CASE ReadThrows(s)
    BY <1>c, <2>1 DEF ReadThrows, Orderly, PeerAtEof
  <2>2. CASE ReadRegisterResponse(s) /\ svc'[s].pc # "serving"
    BY <1>c, <2>2 DEF ReadRegisterResponse, Goto, TypeOK, ServiceTypeOK
  <2> QED
    BY <2>1, <2>2
<1>2. Used(c)
  BY <1>c, NumberTypes DEF OwnersDistinct
<1>l. Listens(s)
  BY DEF Going
<1>3. ~Early(c)
  <2>1. Early(c) => SpdHolds(c)
    BY <1>2 DEF Early, SpdHolds, Open, request, TypeOK, ServerTypeOK
  <2>2. Early(c) => outq[c] = <<>> /\ peer[c] = "open"
    BY <1>c, <1>l, NumberTypes DEF Going, Receivable, Listens
  <2> QED
    BY <1>1, <2>1, <2>2
<1>4. ~Holds(s)
  <2>1. SUFFICES ASSUME Holds(s) PROVE FALSE
    OBVIOUS
  <2>2. /\ peer[c] = "open"
        /\ svc[s].pc = "awaiting" => outq[c] # <<>> /\ outq[c][1] \in Okay
    BY <1>c, <1>l, <2>1 DEF Listens, Held
  <2>3. SpdHolds(c)
    BY <1>c, <2>1, ProcessAssumption DEF Holds, Registered, SpdHolds, Open, TypeOK, ServerTypeOK
  <2>4. outq[c] # <<>> => Head(outq[c]) = outq[c][1]
    BY TailPackets DEF TypeOK, TransportTypeOK
  <2>5. \A p \in Okay : isOK(p)
    BY DEF Okay, makeResponse, isOK, OK, ERROR
  <2> QED
    BY <1>1, <2>2, <2>3, <2>4, <2>5
<1>5. PICK cs : PeerClose(cs) /\ cs \subseteq {c}
  BY <1>1, <1>c DEF Exit
<1>6. PeerActs
  BY <1>1, <1>3, <1>5, OnlyCloses DEF Going, Receivable
<1>7. /\ svc'[s].pc = "exited" /\ svc'[s].connection = c /\ Opened(s)' \subseteq Opened(s)
      /\ \A t \in Service \ {s} : svc'[t] = svc[t]
  BY <1>1, <1>c DEF Exit, Opened, TypeOK, ServiceTypeOK
<1>8. ASSUME NEW t \in Service \ {s} PROVE Untouched(t) /\ Opened(t)' \subseteq Opened(t)
  BY <1>c, <1>5, <1>7, OthersUntouched DEF PeerClose, Opened
<1>9. \A a \in Conn : helper'[a].pc # "stopping"
  BY <1>1 DEF Going
<1>10. \A t \in Service :
         /\ svc'[t].connection = svc[t].connection /\ Opened(t)' \subseteq Opened(t)
         /\ svc'[t].pc = "off" \/ svc[t].pc \notin {"off", "dialled"} \/ svc'[t].pc = svc[t].pc
         /\ \/ Untouched(t)
            \/ /\ svc'[t].pc = "exited" /\ ~Holds(t)
               /\ \A d \in Conn : svc[t].connection = d => ~Early(d)
  BY <1>c, <1>1, <1>3, <1>4, <1>7, <1>8
<1> QED
  BY <1>0, <1>1, <1>5, <1>6, <1>9, <1>10, ClosingGoes

\* Every step of a service proxy that is not interrupted lets spd go on.
LEMMA ServiceGoing ==
  ASSUME Orderly, RegistryInv, Going, NEW s \in Service, UNCHANGED <<serverVars, client>>,
         \/ Connect(s) \/ ConnectRefused(s) \/ SendRegister(s)
         \/ ReadRegisterResponse(s) \/ ReadConnectRequest(s) \/ ReadThrows(s)
         \/ DialProxy(s) \/ DialProxyFails(s) \/ Fork(s) \/ ForkFails(s)
         \/ InterruptRefused(s) \/ SendUnregister(s) \/ Crash(s)
  PROVE  Going'
<1>1. ~(ConnectRefused(s) \/ DialProxyFails(s) \/ InterruptRefused(s))
  BY DEF Going, Listening, ConnectRefused, DialProxyFails, InterruptRefused
<1>2. ~(ForkFails(s) \/ Crash(s))
  BY DEF Orderly, ForkFails, Crash
<1>3. ~SendUnregister(s)
  BY DEF Going, Listens, SendUnregister
<1> QED
  BY <1>1, <1>2, <1>3, ServiceGoes, ServiceEnds

\* A helper speaks on its own connection, before it closes it; with it goes the
\* connection of a service proxy that spd refused.
LEMMA HelperGoing ==
  ASSUME Orderly, RegistryInv, Going, NEW s \in Service, NEW a \in svc[s].children,
         UNCHANGED <<serverVars, client>>,
         \/ HelperConnected(s, a) \/ HelperFailed(s, a) \/ HelperPayload(s, a)
         \/ HelperDone(s, a) \/ HelperInterrupt(s, a) \/ HelperInterruptRefused(s, a)
         \/ HelperUnregister(s, a) \/ HelperCrash(s, a)
  PROVE  Going'
<1> USE DEF RegistryInv
<1>1. /\ a \in Conn /\ Used(a) /\ \A t \in Service : svc[t].connection # a
      /\ helper[a].pc # "stopping" /\ HelperReady(helper[a])
  BY SvcType DEF TypeOK, SvcRecord, Going, LinesUsed, Opened, HandlesKnown
<1>0. PeerStepOK
  BY <1>1, HelperPeer
<1>2. ~(HelperInterrupt(s, a) \/ HelperInterruptRefused(s, a) \/ HelperUnregister(s, a)
        \/ HelperCrash(s, a))
  BY <1>1 DEF Orderly, HelperInterrupt, HelperInterruptRefused, HelperUnregister, HelperCrash
<1>3. helper[a].pc \in {"relay", "relayed"} => Spoke(a)
  BY <1>1 DEF Going, Spoken
<1>m. ASSUME helper[a].pc = "connecting"
      PROVE  /\ makeConnectionCreatedRequest(helper[a].clientID) \in Packet \ {Payload}
             /\ makeConnectionFailedRequest(helper[a].clientID) \in Packet \ {Payload}
  BY <1>1, <1>m, PacketTypes DEF HelperReady, makeConnectionCreatedRequest,
     makeConnectionFailedRequest, makeRequest, Payload
<1>4. ASSUME UNCHANGED <<outq, peer, rst, svc>>, NEW p \in Packet, PeerSend(a, p),
             p = Payload => Spoke(a), helper'[a].pc \in {"relay", "relayed"},
             \A b \in Conn \ {a} : helper'[b] = helper[b]
      PROVE  Going'
  <2>1. PeerActs /\ (inq'[a] # <<>> \/ ~Early(a))
    BY <1>1, <1>4, OnlySends
  <2>2. Spoke(a)'
    BY <1>0, <1>1, <2>1, PeerEarly DEF Spoke
  <2>3. \A b \in Conn : /\ helper'[b].pc # "stopping"
                        /\ b # a => helper'[b] = helper[b]
    BY <1>1, <1>4 DEF Going, TypeOK, ServiceTypeOK
  <2>4. SpeakersSpoke
    BY <1>4, <2>2, <2>3 DEF SpeakersSpoke
  <2>5. \A t \in Service : Listens(t)'
    BY <1>0, <1>4, UntouchedListens DEF Untouched
  <2>6. LinesFewer
    BY <1>4 DEF LinesFewer, Opened
  <2> QED
    BY <1>0, <2>1, <2>3, <2>4, <2>5, <2>6, PeerGoing, LinesUsedKept, SpokenKept
<1>5. CASE HelperConnected(s, a)
  BY <1>1, <1>4, <1>5, <1>m DEF HelperConnected, TypeOK, ServiceTypeOK
<1>6. CASE HelperPayload(s, a)
  <2>1. Payload \in Packet
    BY PacketTypes
  <2> QED
    BY <1>1, <1>3, <1>4, <1>6, <2>1 DEF HelperPayload, TypeOK, ServiceTypeOK
<1>7. ASSUME HelperFailed(s, a) \/ HelperDone(s, a)
      PROVE  Going'
  <2>1. HelperExit(s, a, {}) /\ UNCHANGED svc
    BY <1>7 DEF HelperFailed, HelperDone
  <2>2. PICK cs : /\ PeerClose(cs) /\ a \in cs
                  /\ \/ cs = {a}
                     \/ ~Alive(s) /\ cs = {a, svc[s].connection}
    <3>1. CASE ~Alive(s) /\ Helpers(s) = {a}
      BY <2>1, <3>1 DEF HelperExit
    <3>2. CASE ~(~Alive(s) /\ Helpers(s) = {a})
      BY <2>1, <3>2 DEF HelperExit
    <3> QED
      BY <3>1, <3>2
  <2>3. /\ \A d \in Conn : /\ inq[d] # <<>> => inq'[d] # <<>>
                           /\ Early(d) /\ inq'[d] # <<>> => inq'[d][1] # Payload
        /\ inq'[a] # <<>> \/ ~Early(a)
    <3>1. CASE HelperFailed(s, a)
      BY <1>1, <1>m, <3>1, SendActs DEF HelperFailed
    <3>2. CASE HelperDone(s, a)
      BY <1>1, <1>3, <3>2 DEF HelperDone, Spoke, Going, Receivable
    <3> QED
      BY <1>7, <3>1, <3>2
  <2>4. ~Alive(s) => ~Holds(s) /\ \A c \in Conn : svc[s].connection = c => ~Early(c)
    BY NumberTypes DEF Alive, Going, Listens, Held
  <2>5. PeerActs
    BY <2>2, <2>3, <2>4, OnlyCloses
  <2>6. ASSUME NEW t \in Service
        PROVE  \/ Untouched(t)
               \/ /\ svc[t].pc = "exited" /\ ~Holds(t)
                  /\ \A c \in Conn : svc[t].connection = c => ~Early(c)
    <3>1. PICK c \in Conn \cup {NoConn} : c = svc[t].connection
      BY SvcType DEF TypeOK, SvcRecord
    <3>2. CASE c = NoConn \/ c \notin cs
      BY <2>1, <2>2, <3>1, <3>2 DEF Untouched, PeerClose
    <3>3. CASE c # NoConn /\ c \in cs
      <4>1. ~Alive(s) /\ c = svc[s].connection /\ t = s
        BY <1>1, <2>2, <3>1, <3>3 DEF OwnersDistinct
      <4>2. svc[s].pc = "exited"
        BY <3>3, <4>1 DEF Alive, OwnersDistinct
      <4> QED
        BY <2>4, <4>1, <4>2
    <3> QED
      BY <3>2, <3>3
  <2>7. \A b \in Conn : /\ helper'[b].pc # "stopping"
                        /\ helper'[b].pc = helper[b].pc \/ helper[b].pc \notin {"none", "connecting"}
                             \/ Spoke(b)'
    <3>1. Spoke(a)'
      BY <1>0, <1>1, <2>3, PeerEarly DEF Spoke
    <3>2. \A b \in Conn : b # a => helper'[b] = helper[b]
      BY <2>1 DEF HelperExit, TypeOK, ServiceTypeOK
    <3>3. helper'[a].pc = "exited"
      BY <1>1, <2>1 DEF HelperExit, TypeOK, ServiceTypeOK
    <3> QED
      BY <3>1, <3>2, <3>3 DEF Going
  <2> QED
    BY <1>0, <2>1, <2>2, <2>5, <2>6, <2>7, ClosingGoes DEF Opened
<1>8. CASE HelperFailed(s, a) \/ HelperDone(s, a)
  BY <1>7, <1>8
<1> QED
  BY <1>2, <1>5, <1>6, <1>8

\* A client proxy asks, receives, and closes what it has asked on.
LEMMA ClientGoing ==
  ASSUME Orderly, RegistryInv, Going, NEW k \in Client, UNCHANGED <<serverVars, serviceVars>>,
         \/ ClientConnect(k) \/ ClientConnectRefused(k) \/ SendConnect(k)
         \/ ReadConnectResponse(k) \/ ClientReadThrows(k) \/ ClientRecvFails(k)
         \/ ClientListenFails(k) \/ ClientAccept(k) \/ ClientDone(k) \/ ClientCrash(k)
  PROVE  Going'
<1> USE DEF RegistryInv, serviceVars
<1>0. PeerStepOK
  BY ClientPeer
<1>c. PICK c \in Conn \cup {NoConn} : c = client[k].connection
  BY DEF TypeOK, ClientTypeOK
<1>1. \A t \in Service : c # NoConn => svc[t].connection # c
  BY <1>c DEF OwnersDistinct
<1>2. ~ClientConnectRefused(k) /\ ~ClientCrash(k)
  BY DEF Orderly, ClientConnectRefused, ClientCrash, Going, Listening
<1>3. \A j \in Client \ {k} : client'[j] = client[j]
  BY DEF ClientConnect, ClientConnectRefused, SendConnect, ReadConnectResponse,
     ClientReadThrows, ClientRecvFails, ClientListenFails, ClientAccept, ClientDone,
     ClientCrash, ClientExit, ClientGoto, TypeOK, ClientTypeOK
<1>4. LinesUsed' /\ \A a \in Conn : helper'[a].pc # "stopping"
  BY <1>0, LinesUsedKept DEF LinesFewer, Opened, Going
<1>5. ASSUME PeerActs, SpeakersSpoke,
             \A t \in Service : \A d \in Conn : svc[t].connection = d =>
               peer'[d] = peer[d] /\ outq'[d] = outq[d]
      PROVE  Going'
  <2>1. \A t \in Service : Untouched(t)
    BY <1>5, SvcType DEF Untouched, TypeOK, SvcRecord
  <2> QED
    BY <1>0, <1>4, <1>5, <2>1, PeerGoing, UntouchedListens, SpokenKept
<1>6. CASE ClientConnect(k)
  <2>1. PICK d \in Conn : ClientConnect(k)!2!(d)
    BY <1>6 DEF ClientConnect
  <2>2. /\ ~Used(d) /\ \A e \in Conn \ {d} : peer'[e] = peer[e]
        /\ UNCHANGED <<inq, outq, rst>> /\ client'[k].pc = "dialled"
    BY <1>6, <2>1, DialUses DEF ClientConnect, Dial, TypeOK, TransportTypeOK, ClientTypeOK
  <2>3. PeerActs
    BY <2>1, <2>2, OnlyDials
  <2>4. SpeakersSpoke
    BY <1>3, <2>2 DEF SpeakersSpoke
  <2>5. \A t \in Service : svc[t].connection # d
    BY <2>2, NumberTypes DEF OwnersDistinct
  <2> QED
    BY <1>5, <2>2, <2>3, <2>4, <2>5
<1>7. CASE SendConnect(k)
  <2>1. makeConnectRequest(wantedID[k]) \in Packet \ {Payload}
    BY ProcessAssumption, PacketTypes DEF NodeID, makeConnectRequest, makeRequest, Payload
  <2>2. /\ client[k].pc = "dialled" /\ UNCHANGED <<outq, peer, rst>>
        /\ client'[k].pc = "waiting" /\ client'[k].connection = c
    BY <1>7, <1>c DEF SendConnect, ClientGoto, TypeOK, ClientTypeOK
  <2>3. CASE c \in Conn
    <3>1. PeerActs /\ (inq'[c] # <<>> \/ ~Early(c))
      BY <1>7, <1>c, <2>1, <2>2, <2>3, NumberTypes, OnlySends DEF SendConnect, OwnersDistinct
    <3>2. Spoke(c)'
      BY <1>0, <2>3, <3>1, PeerEarly DEF Spoke
    <3>3. SpeakersSpoke
      BY <1>3, <1>c, <2>2, <3>2 DEF SpeakersSpoke
    <3> QED
      BY <1>5, <2>2, <3>1, <3>3
  <2>4. CASE c \notin Conn
    <3>1. UNCHANGED inq
      BY <1>7, <1>c, <2>4 DEF SendConnect, PeerSend, TypeOK, TransportTypeOK
    <3>2. PeerActs
      BY <2>2, <3>1, OnlyReceives
    <3>3. SpeakersSpoke
      BY <1>3, <1>c, <2>2, <2>4 DEF SpeakersSpoke
    <3> QED
      BY <1>5, <2>2, <3>2, <3>3
  <2> QED
    BY <2>3, <2>4
<1>8. ASSUME \/ ReadConnectResponse(k) \/ ClientReadThrows(k) \/ ClientRecvFails(k)
             \/ ClientListenFails(k) \/ ClientAccept(k) \/ ClientDone(k)
      PROVE  Going'
  <2>1. /\ client[k].pc \in {"waiting", "connected", "relaying"} /\ UNCHANGED inq
        /\ client'[k].connection = c
    BY <1>8, <1>c DEF ReadConnectResponse, ClientReadThrows, ClientRecvFails,
       ClientListenFails, ClientAccept, ClientDone, ClientExit, ClientGoto, netVars, TypeOK,
       ClientTypeOK
  <2>2. SpeakersSpoke
    BY <1>3, <1>c, <2>1 DEF SpeakersSpoke
  <2>3. \/ PeerClose({c})
        \/ UNCHANGED <<peer, rst, outq>>
        \/ UNCHANGED <<peer, rst>> /\ outq[c] # <<>> /\ PeerReceive(c)
    BY <1>8, <1>c DEF ReadConnectResponse, ClientReadThrows, ClientRecvFails,
       ClientListenFails, ClientAccept, ClientDone, ClientExit, netVars
  <2>4. c \in Conn => Spoke(c)
    BY <1>c, <2>1, NumberTypes DEF Going, Spoken
  <2>5. PeerActs
    <3>1. CASE PeerClose({c})
      BY <2>1, <2>4, <3>1, OnlyCloses DEF Spoke, Going, Receivable
    <3>2. CASE UNCHANGED <<peer, rst, outq>>
      BY <2>1, <3>2, OnlyReceives
    <3>3. CASE UNCHANGED <<peer, rst>> /\ outq[c] # <<>> /\ PeerReceive(c)
      <4>1. CASE c \in Conn
        BY <2>1, <3>3, <4>1, OnlyReceives
      <4>2. CASE c \notin Conn
        <5>1. UNCHANGED outq
          BY <3>3, <4>2 DEF PeerReceive, TypeOK, TransportTypeOK
        <5> QED
          BY <2>1, <3>3, <5>1, OnlyReceives
      <4> QED
        BY <4>1, <4>2
    <3> QED
      BY <2>3, <3>1, <3>2, <3>3
  <2>6. \A d \in Conn : d # c => peer'[d] = peer[d] /\ outq'[d] = outq[d]
    BY <2>3 DEF PeerClose, PeerReceive, TypeOK, TransportTypeOK
  <2> QED
    BY <1>1, <1>5, <1>c, <2>2, <2>5, <2>6, NumberTypes
<1>9. CASE \/ ReadConnectResponse(k) \/ ClientReadThrows(k) \/ ClientRecvFails(k)
           \/ ClientListenFails(k) \/ ClientAccept(k) \/ ClientDone(k)
  BY <1>8, <1>9
<1> QED
  BY <1>2, <1>6, <1>7, <1>9

\* Another program sends a packet; nothing is reset.
LEMMA EventGoing ==
  ASSUME Orderly, RegistryInv, Going, NEW c \in Conn, ResetConnection(c) \/ StrayRequest(c)
  PROVE  Going'
<1> USE DEF RegistryInv, serviceVars
<1>0. PeerStepOK
  BY EventPeer
<1>1. StrayRequest(c)
  BY DEF Orderly, ResetConnection
<1>2. /\ ~Used(c) /\ UNCHANGED <<outq, rst, svc, helper, client>>
      /\ \A d \in Conn \ {c} : peer'[d] = peer[d] /\ inq'[d] = inq[d]
      /\ peer'[c] = "open" /\ inq'[c] = <<makeResponse(TRUE)>>
  BY <1>1, DialUses DEF StrayRequest, Dial, TypeOK, TransportTypeOK
<1>3. makeResponse(TRUE) # Payload
  BY DEF makeResponse, Payload
<1>4. PeerActs
  <2>1. <<makeResponse(TRUE)>> # <<>> /\ <<makeResponse(TRUE)>>[1] = makeResponse(TRUE)
    OBVIOUS
  <2>2. inq'[c] # <<>> /\ inq'[c][1] # Payload
    BY <1>2, <1>3, <2>1
  <2>3. ASSUME NEW d \in Conn \ {c}
        PROVE  /\ inq'[d] = inq[d] /\ peer'[d] = peer[d] /\ outq'[d] = outq[d] /\ rst'[d] = rst[d]
               /\ Early(d) /\ inq[d] # <<>> => inq[d][1] # Payload
    BY <1>2 DEF Going, Receivable
  <2>4. outq'[c] = outq[c] /\ rst'[c] = rst[c] /\ peer[c] # "closed" /\ peer'[c] # "closed"
    BY <1>2 DEF Used
  <2> QED
    BY <2>2, <2>3, <2>4 DEF PeerActs
<1>5. \A t \in Service : svc[t].connection # c
  BY <1>2, NumberTypes DEF OwnersDistinct
<1>6. \A t \in Service : Untouched(t)
  BY <1>2, <1>5, SvcType DEF Untouched, TypeOK, SvcRecord
<1>7. LinesFewer /\ SpeakersSpoke
  BY <1>2 DEF LinesFewer, Opened, SpeakersSpoke
<1> QED
  BY <1>0, <1>2, <1>4, <1>6, <1>7, PeerGoing, UntouchedListens, LinesUsedKept, SpokenKept
     DEF Going

-----------------------------------------------------------------------------
(* What spd and the relay processes do *)

\* spd sends first to whom it has heard, and keeps to who holds a registration.
SpdActs ==
  /\ \A c \in Conn : Early(c)' => Early(c) /\ inq'[c] = inq[c] /\ outq'[c] = outq[c]
  /\ \A c \in Conn : rst'[c] # "no" => rst[c] # "no" \/ peer[c] = "closed"
  /\ \A s \in Service : Holds(s)' => Held(s)'

\* What was queued first still is.
FirstsStay ==
  \A c \in Conn : outq[c] # <<>> => outq'[c] # <<>> /\ outq'[c][1] = outq[c][1]

\* Such a step lets spd go on.
LEMMA SpdGoing ==
  ASSUME RegistryInv, Going, UNCHANGED <<peer, serviceVars, client>>, spd' = "up", SpdActs
  PROVE  Going'
<1> USE DEF RegistryInv, serviceVars
<1>1. \A c \in Conn : Early(c)' => Receivable(c)'
  BY DEF SpdActs, Going, Receivable
<1>2. \A c \in Conn : rst'[c] # "no" => peer'[c] = "closed"
  BY DEF SpdActs, Going
<1>3. ASSUME NEW s \in Service
      PROVE  Listens(s)'
  <2>1. PICK c \in Conn \cup {NoConn} : c = svc[s].connection
    BY SvcType DEF TypeOK, SvcRecord
  <2>2. c # NoConn => (Early(c)' => Early(c))
    BY DEF SpdActs
  <2>3. Listens(s)
    BY DEF Going
  <2> QED
    BY <2>1, <2>2, <2>3 DEF Listens, SpdActs
<1>4. LinesUsed'
  BY DEF Going, LinesUsed, Opened, Used
<1>5. Spoken'
  <2>1. \A c \in Conn : Spoke(c) => Spoke(c)'
    BY DEF Spoke, SpdActs
  <2>2. \A s \in Service : svc[s].connection \in Conn \cup {NoConn}
    BY SvcType DEF TypeOK, SvcRecord
  <2>3. \A k \in Client : client[k].connection \in Conn \cup {NoConn}
    BY DEF TypeOK, ClientTypeOK
  <2> QED
    BY <2>1, <2>2, <2>3 DEF Going, Spoken, Spoke
<1> QED
  BY <1>1, <1>2, <1>3, <1>4, <1>5 DEF Going

\* A registration that stays is held.
LEMMA StaysHeld ==
  ASSUME RegistryInv, Going, UNCHANGED <<peer, serviceVars>>, FirstsStay,
         NEW s \in Service, Holds(s)
  PROVE  Held(s)'
<1>1. PICK c \in Conn \cup {NoConn} : c = svc[s].connection
  BY SvcType DEF RegistryInv, TypeOK, SvcRecord
<1>2. Held(s) /\ c # NoConn
  BY <1>1 DEF Going, Listens, Holds
<1> QED
  BY <1>1, <1>2 DEF Held, FirstsStay, serviceVars

\* send() appends.
LEMMA SendGoes ==
  ASSUME TypeOK, NEW c, NEW p \in Packet, Send(c, p)
  PROVE  /\ FirstsStay
         /\ \A d \in Conn : rst'[d] # "no" => rst[d] # "no" \/ peer[d] = "closed"
         /\ \A d \in Conn \ {c} : outq'[d] = outq[d]
<1>1. \A d \in Conn : /\ outq[d] \in Seq(Packet)
                      /\ \/ outq'[d] = outq[d]
                         \/ d = c /\ outq'[d] = Append(outq[d], p)
  BY DEF Send, TypeOK, TransportTypeOK
<1>2. ASSUME NEW d \in Conn, outq[d] # <<>>
      PROVE  outq'[d] # <<>> /\ outq'[d][1] = outq[d][1]
  <2>1. CASE outq'[d] = outq[d]
    BY <1>2, <2>1
  <2>2. CASE outq'[d] = Append(outq[d], p)
    BY <1>1, <1>2, <2>2
  <2> QED
    BY <1>1, <2>1, <2>2
<1>3. \A d \in Conn : rst'[d] # "no" => rst[d] # "no" \/ peer[d] = "closed"
  BY DEF Send, TypeOK, TransportTypeOK
<1> QED
  BY <1>1, <1>2, <1>3 DEF FirstsStay

\* Registered ids are those of service proxies that hold the registration.
LEMMA RegisteredHeld ==
  ASSUME RegistryInv, Going, NEW id \in ServerID, Registered(id)
  PROVE  \E s \in Service : /\ serviceID[s] = id /\ Holds(s) /\ Held(s)
                            /\ serverMap[id] \in FD
                            /\ fdTable[serverMap[id]] = svc[s].connection
                            /\ svc[s].connection \in Conn
<1>1. PICK s \in Service : serviceID[s] = id /\ OpenAt(serverMap[id], svc[s].connection)
  BY DEF RegistryInv, DescriptorsNotStale, RegistryNotStale
<1>2. Holds(s)
  BY <1>1, NumberTypes DEF Holds, OpenAt
<1>3. Listens(s)
  BY DEF Going
<1> QED
  BY <1>1, <1>2, <1>3 DEF OpenAt, Listens

\* spd is done with the connection whose request it handled.
LEMMA RequestDone ==
  ASSUME RegistryInv, requestFd \in FD, request \in Conn,
         UNCHANGED <<peer, backlog>>, requestFd' = NoFd
  PROVE  \A c \in Conn : Early(c)' => Early(c) /\ c # request
<1>1. fdTable[requestFd] # NoConn
  BY NumberTypes DEF request
<1>2. ASSUME NEW c \in Conn, c = fdTable[requestFd]
      PROVE  ~Early(c)'
  BY <1>1, <1>2 DEF Early, RegistryInv, HostConsistent, Used
<1> QED
  BY <1>2, EarlyFewer DEF request

\* No registration is made.
LEMMA HoldsFewer ==
  ASSUME TypeOK, UNCHANGED svc,
         \A id \in ServerID : serverMap'[id] = serverMap[id] \/ serverMap'[id] = NoFd,
         \A f \in FD : fdTable'[f] = fdTable[f] \/ fdTable'[f] = NoConn,
         NEW s \in Service, Holds(s)'
  PROVE  Holds(s)
<1>1. serviceID[s] \in ServerID
  BY ProcessAssumption
<1>2. Registered(serviceID[s]) => serverMap[serviceID[s]] \in FD
  BY <1>1 DEF TypeOK, ServerTypeOK, Registered
<1> QED
  BY <1>1, <1>2 DEF Holds, Registered

\* Handling a request, and sending to the one that made it or to a service
\* proxy that is registered.
LEMMA HandledGoing ==
  ASSUME RegistryInv, Going, UNCHANGED <<peer, backlog, spd, serviceVars, client>>,
         requestFd \in FD, request \in Conn, requestFd' = NoFd,
         UNCHANGED inq \/ Consume(request),
         NEW c, c = request \/ ~Early(c),
         UNCHANGED <<outq, rst>> \/ \E p \in Packet : Send(c, p),
         \A s \in Service : Holds(s)' => Holds(s) \/ Held(s)'
  PROVE  Going'
<1> USE DEF RegistryInv
<1>1. \A d \in Conn : Early(d)' => Early(d) /\ d # request
  BY RequestDone
<1>2. \A d \in Conn : d # request => inq'[d] = inq[d]
  BY DEF Consume, TypeOK, TransportTypeOK
<1>3. /\ FirstsStay
      /\ \A d \in Conn : rst'[d] # "no" => rst[d] # "no" \/ peer[d] = "closed"
      /\ \A d \in Conn : d # c => outq'[d] = outq[d]
  <2>1. CASE UNCHANGED <<outq, rst>>
    BY <2>1 DEF FirstsStay
  <2>2. CASE \E p \in Packet : Send(c, p)
    BY <2>2, SendGoes
  <2> QED
    BY <2>1, <2>2
<1>4. \A s \in Service : Holds(s)' => Held(s)'
  BY <1>3, StaysHeld
<1>5. SpdActs
  BY <1>1, <1>2, <1>3, <1>4 DEF SpdActs
<1> QED
  BY <1>5, SpdGoing DEF Going

\* A service proxy that spd registers waits for the response that says so.
LEMMA RegisterGoing ==
  ASSUME RegistryInv, UnaskedInv, Going, HandleRegister, UNCHANGED <<serviceVars, client>>
  PROVE  Going'
<1> USE DEF RegistryInv
<1>1. PICK id \in ServerID : HandleRegister!(id)
  BY DEF HandleRegister
<1>2. /\ requestFd \in FD /\ request \in Conn /\ Consume(request)
      /\ 1 \in DOMAIN inq[request] /\ inq[request][1] = makeRegisterRequest(id)
  BY <1>1, RequestReceived DEF Receive
<1>3. PICK c \in Conn : c = request
  BY <1>2
<1>4. Early(c) /\ Receivable(c)
  BY <1>2, <1>3, NumberTypes DEF Early, Going
<1>5. /\ \A jd \in ServerID : jd # id \/ Registered(id) => serverMap'[jd] = serverMap[jd]
      /\ UNCHANGED fdTable
  BY <1>1 DEF registerServer, hostVars, TypeOK, ServerTypeOK
<1>6. ASSUME NEW s \in Service, Holds(s)'
      PROVE  Holds(s) \/ Held(s)'
  <2>1. CASE serviceID[s] # id \/ Registered(id)
    BY <1>5, <1>6, <2>1, ProcessAssumption DEF Holds, Registered, serviceVars
  <2>2. CASE serviceID[s] = id /\ ~Registered(id)
    <3>1. serverMap'[id] = requestFd
      BY <1>1, <2>2 DEF registerServer, TypeOK, ServerTypeOK
    <3>2. svc[s].connection = c
      BY <1>3, <1>5, <1>6, <2>2, <3>1 DEF Holds, request, serviceVars
    <3>3. svc[s].pc \in {"dialled", "awaiting"} /\ peer[c] = "open"
      BY <1>4, <3>2, NumberTypes DEF Going, Listens
    <3>4. svc[s].pc # "dialled"
      <4>1. Has(inq[c], Registers)
        BY <1>2, <1>3 DEF Has, Registers
      <4> QED
        BY <3>2, <4>1 DEF UnaskedInv
    <3>5. outq'[c] = Append(<<>>, makeResponse(TRUE))
      BY <1>1, <1>3, <1>4, <2>2, <3>3 DEF Send, Receivable, TypeOK, TransportTypeOK
    <3>6. Append(<<>>, makeResponse(TRUE)) # <<>> /\ Append(<<>>, makeResponse(TRUE))[1] = makeResponse(TRUE)
      OBVIOUS
    <3>7. outq'[c] # <<>> /\ outq'[c][1] \in Okay
      BY <3>5, <3>6 DEF Okay
    <3> QED
      BY <1>1, <3>2, <3>3, <3>4, <3>7 DEF Held, serviceVars
  <2> QED
    BY <2>1, <2>2
<1>7. \E p \in Packet : Send(request, p)
  BY <1>1, PacketTypes
<1> QED
  BY <1>1, <1>2, <1>6, <1>7, HandledGoing DEF hostVars

\* Who is asked to serve a client holds a registration.
LEMMA ConnectGoing ==
  ASSUME RegistryInv, Going, HandleConnect, UNCHANGED <<serviceVars, client>>
  PROVE  Going'
<1> USE DEF RegistryInv
<1>1. PICK id \in ServerID : HandleConnect!(id)
  BY DEF HandleConnect
<1>2. requestFd \in FD /\ request \in Conn /\ Consume(request)
  BY <1>1, RequestReceived DEF Receive
<1>3. PICK c \in Conn, f \in FD : f = serverMap[id] /\ c = fdTable[f]
  BY <1>1, RegisteredHeld
<1>4. f # requestFd
  BY <1>1, <1>2, <1>3, NumberTypes DEF HandlingFresh
<1>5. ~Early(c)
  BY <1>2, <1>3, <1>4, NumberTypes DEF Early, request, HostConsistent
<1>6. makeProxyConnectRequest(to_string(requestFd)) \in Packet
  BY <1>2, ClientNames, PacketTypes DEF NodeID
<1>7. \E p \in Packet : Send(c, p)
  BY <1>1, <1>3, <1>6
<1>8. \A s \in Service : Holds(s)' => Holds(s)
  BY <1>1 DEF Holds, Registered, hostVars, serviceVars
<1> QED
  BY <1>1, <1>2, <1>5, <1>7, <1>8, HandledGoing DEF hostVars

\* The other requests are answered where they came from, or by a child.
LEMMA AnsweringGoing ==
  ASSUME RegistryInv, Going, UNCHANGED <<serviceVars, client>>,
         HandleUnregister \/ HandleConnectUnknown \/ HandleAnswer \/ HandleUnexpected
  PROVE  Going'
<1> USE DEF RegistryInv
<1>1. /\ \E req : Receive(req)
      /\ requestFd' = NoFd /\ UNCHANGED <<peer, backlog, spd>>
      /\ \A id \in ServerID : serverMap'[id] = serverMap[id] \/ serverMap'[id] = NoFd
      /\ \E fs : fdTable' = CloseFds(fs)
      /\ UNCHANGED <<outq, rst>> \/ \E p \in Packet : Send(request, p)
  <2>1. CASE HandleUnregister
    BY <2>1, PacketTypes DEF HandleUnregister, Erased, TypeOK, ServerTypeOK
  <2>2. CASE HandleConnectUnknown
    BY <2>2, PacketTypes DEF HandleConnectUnknown
  <2>3. CASE HandleUnexpected
    BY <2>3, PacketTypes DEF HandleUnexpected
  <2>4. CASE HandleAnswer
    BY <2>4, PacketTypes DEF HandleAnswer, ResolvePending, RefuseAnswer
  <2> QED
    BY <2>1, <2>2, <2>3, <2>4
<1>2. requestFd \in FD /\ request \in Conn /\ Consume(request)
  BY <1>1, RequestReceived DEF Receive
<1>3. \A f \in FD : fdTable'[f] = fdTable[f] \/ fdTable'[f] = NoConn
  BY <1>1 DEF CloseFds
<1>4. \A s \in Service : Holds(s)' => Holds(s)
  BY <1>1, <1>3, HoldsFewer DEF serviceVars
<1> QED
  BY <1>1, <1>2, <1>4, HandledGoing

\* Accepting, and receiving in vain.
LEMMA AcceptGoing ==
  ASSUME RegistryInv, Going, AcceptConnection \/ RecvError, UNCHANGED <<serviceVars, client>>
  PROVE  Going'
<1> USE DEF RegistryInv
<1>1. UNCHANGED <<peer, inq, outq, rst, spd, serverMap>>
  BY DEF AcceptConnection, RecvError, hostVars, netVars
<1>2. \A c \in Conn : Early(c)' => Early(c)
  <2>1. CASE AcceptConnection
    <3>1. PICK f \in FD : AcceptConnection!4!(f)
      BY <2>1 DEF AcceptConnection
    <3>2. /\ backlog \in Seq(Conn) /\ backlog # <<>> /\ backlog' = Tail(backlog)
          /\ requestFd' = f /\ fdTable'[f] = Head(backlog)
      BY <2>1, <3>1 DEF AcceptConnection, TypeOK, TransportTypeOK
    <3> QED
      BY <1>1, <3>2, TailPackets DEF Early, Used, request
  <2>2. CASE RecvError
    BY <2>2, EarlyFewer DEF RecvError, netVars, hostVars
  <2> QED
    BY <2>1, <2>2
<1>3. ASSUME NEW s \in Service, Holds(s)'
      PROVE  Holds(s)
  <2>1. PICK id \in ServerID : id = serviceID[s] /\ Registered(id)
    BY <1>1, <1>3, ProcessAssumption DEF Holds, Registered
  <2>2. serverMap[id] \in FD /\ fdTable[serverMap[id]] # NoConn
    BY <2>1, NumberTypes DEF DescriptorsNotStale, RegistryNotStale, OpenAt
  <2>3. fdTable'[serverMap[id]] = fdTable[serverMap[id]]
    BY <2>2 DEF AcceptConnection, RecvError, hostVars, TypeOK, TransportTypeOK
  <2> QED
    BY <1>1, <1>3, <2>1, <2>3 DEF Holds, serviceVars
<1>4. FirstsStay
  BY <1>1 DEF FirstsStay
<1>5. \A s \in Service : Holds(s)' => Held(s)'
  BY <1>1, <1>3, <1>4, StaysHeld
<1>6. SpdActs
  BY <1>1, <1>2, <1>5 DEF SpdActs
<1> QED
  BY <1>1, <1>6, SpdGoing DEF Going

\* A relay process sends to, and receives from, connections that spd is done with.
LEMMA ChildGoing ==
  ASSUME RegistryInv, ChildrenApart, Going, UNCHANGED <<serviceVars, client>>,
         NEW a \in Conn, ChildNotify(a) \/ ChildForward(a) \/ ChildRelayed(a) \/ ChildKilled(a)
  PROVE  Going'
<1> USE DEF RegistryInv
<1>1. UNCHANGED <<peer, spd, fdTable, requestFd, serverMap>>
  BY DEF ChildNotify, ChildForward, ChildRelayed, ChildKilled, ChildExit, hostVars, serverVars
<1>2. backlog' = backlog
  BY DEF ChildNotify, ChildForward, ChildRelayed, ChildKilled, ChildExit, RelayExit, Going
<1>3. child[a].pc # "none"
  BY DEF ChildNotify, ChildForward, ChildRelayed, ChildKilled
<1>4. PICK c : c = child[a].client /\ Settled(c) /\ Settled(a)
  BY <1>3 DEF ChildrenApart
<1>5. ~Early(a) /\ ~Early(c) /\ c \in Conn
  BY <1>4 DEF Settled, Early, request, TypeOK, ServerTypeOK
<1>6. \A d \in Conn : d # a => inq'[d] = inq[d]
  BY DEF ChildNotify, ChildForward, ChildRelayed, ChildKilled, ChildExit, Consume, TypeOK,
     TransportTypeOK
<1>7. UNCHANGED <<outq, rst>> \/ \E p \in Packet : Send(c, p)
  <2>1. CASE ChildNotify(a)
    <3>1. Notice(a) \in Packet
      BY PacketTypes DEF Notice, TypeOK, ServerTypeOK
    <3> QED
      BY <1>4, <2>1, <3>1 DEF ChildNotify
  <2>2. CASE ChildForward(a)
    <3>1. Head(inq[a]) \in Packet
      BY <2>2, ConsumeType DEF ChildForward, TypeOK
    <3> QED
      BY <1>4, <2>2, <3>1 DEF ChildForward
  <2>3. CASE ChildRelayed(a) \/ ChildKilled(a)
    BY <2>3 DEF ChildRelayed, ChildKilled
  <2> QED
    BY <2>1, <2>2, <2>3
<1>8. /\ FirstsStay
      /\ \A d \in Conn : rst'[d] # "no" => rst[d] # "no" \/ peer[d] = "closed"
      /\ \A d \in Conn : d # c => outq'[d] = outq[d]
  <2>1. CASE UNCHANGED <<outq, rst>>
    BY <2>1 DEF FirstsStay
  <2>2. CASE \E p \in Packet : Send(c, p)
    BY <2>2, SendGoes
  <2> QED
    BY <1>7, <2>1, <2>2
<1>9. \A d \in Conn : Early(d)' => Early(d)
  BY <1>1, <1>2, EarlyFewer
<1>10. \A s \in Service : Holds(s)' => Held(s)'
  <2>1. \A s \in Service : Holds(s)' => Holds(s)
    BY <1>1 DEF Holds, Registered, serviceVars
  <2> QED
    BY <1>1, <1>8, <2>1, StaysHeld
<1>11. SpdActs
  BY <1>5, <1>6, <1>8, <1>9, <1>10 DEF SpdActs
<1> QED
  BY <1>1, <1>11, SpdGoing DEF Going

\* No request ends spd: it comes, it parses, and whom it is passed to listens.
LEMMA NoneKills ==
  ASSUME Orderly, RegistryInv, Going
  PROVE  ~Run /\ ~ParseThrows /\ ~HandleConnectKilled
<1> USE DEF RegistryInv
<1>1. ~Run
  BY DEF Run, Listening, Going
<1>2. ~HandleConnectKilled
  <2>1. SUFFICES ASSUME NEW id \in ServerID, HandleConnectKilled!(id)
                 PROVE  FALSE
    BY DEF HandleConnectKilled
  <2>2. PICK s \in Service : Held(s) /\ fdTable[serverMap[id]] = svc[s].connection
                             /\ svc[s].connection \in Conn
    BY <2>1, RegisteredHeld
  <2> QED
    BY <2>1, <2>2 DEF SendKills, Held, Going
<1>3. ~ParseThrows
  <2>1. SUFFICES ASSUME ParseThrows PROVE FALSE
    OBVIOUS
  <2>2. requestFd \in FD /\ requestFd # NoFd
    BY <2>1, NumberTypes DEF ParseThrows, Handling, TypeOK, ServerTypeOK
  <2>3. PICK c \in Conn : c = request
    BY <2>2 DEF HandlingFresh, request, TypeOK, TransportTypeOK
  <2>4. Receivable(c)
    BY <2>2, <2>3 DEF Going, Early
  <2>5. ~AtEof(c)
    BY <2>4 DEF AtEof, Receivable
  <2>6. PICK n \in 1 .. Len(inq[c]) :
          (n > 1 => "coalesce" \in Events) /\ ~Parses(SubSeq(inq[c], 1, n))
    BY <2>1, <2>3, <2>5 DEF ParseThrows
  <2>7. inq[c] \in Seq(Packet)
    BY DEF TypeOK, TransportTypeOK
  <2>8. n = 1 /\ inq[c] # <<>>
    BY <2>6, <2>7 DEF Orderly
  <2>9. Len(SubSeq(inq[c], 1, 1)) = 1 /\ SubSeq(inq[c], 1, 1)[1] = inq[c][1]
    BY <2>7, <2>8
  <2> QED
    BY <2>4, <2>6, <2>8, <2>9 DEF Parses, Receivable
<1> QED
  BY <1>1, <1>2, <1>3

\* Who was interrupted has been.
LEMMA InterruptedStays ==
  ASSUME TypeOK, Interrupted, [Next]_vars
  PROVE  Interrupted'
<1>1. PICK t \in Service : svc[t].farewell # NoConn
  BY DEF Interrupted
<1>2. CASE UNCHANGED svc
  BY <1>1, <1>2 DEF Interrupted
<1>3. CASE ServiceStep
  <2>1. PICK s \in Service : ServiceStep!(s)
    BY <1>3 DEF ServiceStep
  <2>2. CASE UNCHANGED svc
    BY <1>2, <2>2
  <2>3. CASE Interrupt(s)
    <3>1. PICK c \in Conn : Interrupt(s)!3!(c)
      BY <2>3 DEF Interrupt
    <3>2. svc'[t].farewell = svc[t].farewell \/ svc'[t].farewell = c
      BY <1>1, <3>1 DEF TypeOK, ServiceTypeOK
    <3> QED
      BY <1>1, <3>2, NumberTypes DEF Interrupted
  <2>4. CASE ~UNCHANGED svc /\ ~Interrupt(s)
    <3>1. \/ Connect(s) \/ ConnectRefused(s) \/ SendRegister(s)
          \/ ReadRegisterResponse(s) \/ ReadConnectRequest(s) \/ ReadThrows(s)
          \/ DialProxy(s) \/ DialProxyFails(s) \/ Fork(s) \/ ForkFails(s)
          \/ InterruptRefused(s) \/ SendUnregister(s) \/ Crash(s)
      BY <2>1, <2>4, HelperOut
    <3>2. svc'[t].farewell = svc[t].farewell
      BY <1>1, <3>1 DEF Connect, ConnectRefused, SendRegister, ReadRegisterResponse,
         ReadConnectRequest, ReadThrows, DialProxy, DialProxyFails, Fork, ForkFails,
         InterruptRefused, SendUnregister, Crash, Goto, Exit, TypeOK, ServiceTypeOK
    <3> QED
      BY <1>1, <3>2 DEF Interrupted
  <2> QED
    BY <2>2, <2>3, <2>4
<1> QED
  BY <1>2, <1>3 DEF Next, vars, serviceVars, ResetConnection, StrayRequest

\* GoingInv is inductive while nothing else goes wrong, given that numbers are
\* not stale, children apart and nobody registers before he asks.
LEMMA GoingStep ==
  ASSUME Events \subseteq {"shutdown", "eager", "stray"}
  PROVE  RegistryInv /\ ChildrenApart /\ UnaskedInv /\ GoingInv /\ [Next]_vars => GoingInv'
<1> SUFFICES ASSUME Orderly, RegistryInv, ChildrenApart, UnaskedInv, GoingInv, [Next]_vars
             PROVE  GoingInv'
  BY DEF Orderly
<1>1. CASE Interrupted
  BY <1>1, InterruptedStays DEF GoingInv, RegistryInv
<1>2. SUFFICES ASSUME Going PROVE Interrupted' \/ Going'
  BY <1>1 DEF GoingInv
<1>3. CASE ServerStep /\ UNCHANGED <<serviceVars, client>>
  BY <1>2, <1>3, NoneKills, AcceptGoing, RegisterGoing, ConnectGoing, AnsweringGoing, ChildGoing
     DEF ServerStep
<1>4. CASE ServiceStep /\ UNCHANGED <<serverVars, client>>
  <2>1. PICK s \in Service : ServiceStep!(s)
    BY <1>4 DEF ServiceStep
  <2>2. CASE Interrupt(s)
    <3>1. PICK c \in Conn : Interrupt(s)!3!(c)
      BY <2>2 DEF Interrupt
    <3>2. svc'[s].farewell = c
      BY <3>1 DEF RegistryInv, TypeOK, ServiceTypeOK
    <3> QED
      BY <3>2, NumberTypes DEF Interrupted
  <2> QED
    BY <1>2, <1>4, <2>1, <2>2, ServiceGoing, HelperGoing
<1>5. CASE ClientStep /\ UNCHANGED <<serverVars, serviceVars>>
  BY <1>2, <1>5, ClientGoing DEF ClientStep
<1>6. CASE \E c \in Conn : ResetConnection(c) \/ StrayRequest(c)
  BY <1>2, <1>6, EventGoing
<1>7. CASE UNCHANGED vars
  BY <1>2, <1>7 DEF vars, transportVars, hostVars, netVars, serverVars, serviceVars, Going,
     Early, Receivable, Used, request, Listens, Held, Holds, Registered, LinesUsed, Opened,
     Spoken, Spoke
<1> QED
  BY <1>3, <1>4, <1>5, <1>6, <1>7 DEF Next

\* As long as no process fails and none is interrupted spd goes on, whoever
\* connects, asks and leaves: every request it receives parses, and every send
\* goes to a connection at whose other end somebody listens.
THEOREM OnlyInterruptsEnd ==
  ASSUME Events \subseteq {"shutdown", "eager", "stray"}
  PROVE  Spec => []OnlyInterruptsEndSpd
<1>1. Init => GoingInv
  <2> SUFFICES ASSUME Init PROVE Going
    BY DEF GoingInv
  <2>1. \A c \in Conn : ~Used(c) /\ Receivable(c) /\ rst[c] = "no"
    BY DEF Init, TransportInit, Used, Receivable
  <2>2. \A s \in Service : /\ svc[s].pc = "off" /\ svc[s].connection = NoConn
                           /\ svc[s].newProxyConnection = NoConn /\ svc[s].children = {}
    BY DEF Init, ServiceInit
  <2>3. \A a \in Conn : helper[a].pc = "none"
    BY DEF Init, ServiceInit
  <2>4. \A k \in Client : client[k].pc = "off"
    BY DEF Init, ClientInit
  <2>5. spd = "up"
    BY DEF Init, TransportInit
  <2>6. LinesUsed
    BY <2>2 DEF LinesUsed, Opened
  <2>7. \A s \in Service : Listens(s)
    BY <2>2 DEF Listens, Holds
  <2>8. Spoken
    BY <2>2, <2>3, <2>4 DEF Spoken
  <2> QED
    BY <2>1, <2>3, <2>5, <2>6, <2>7, <2>8 DEF Going
<1>2. Init => UnaskedInv
  BY DEF Init, ServiceInit, UnaskedInv
<1>3. GoingInv => OnlyInterruptsEndSpd
  BY DEF GoingInv, Interrupted, Going, OnlyInterruptsEndSpd
<1> QED
  BY <1>1, <1>2, <1>3, GoingStep, UnaskedStep, RegistryInvariant, ChildrenInvariant, PTL DEF Spec
==============================================================================
