---------------------------- MODULE ServiceProxy ----------------------------
(***************************************************************************)
(* The service proxies: sp processes run with a service id, and the helper *)
(* processes each of them forks to answer the clients.  A helper is named  *)
(* by the connection it answers with.                                      *)
(***************************************************************************)
EXTENDS Transport

CONSTANTS Service,    \* the service proxy processes
          serviceID   \* serviceID[s]: the id s registers

VARIABLES
  svc,    \* svc[s]: pc; connection, to register and be asked on; clientID, being
          \* answered; newProxyConnection, dialled and not yet given to a helper;
          \* farewell, dialled by the interrupt handler; children, the helpers
  helper  \* helper[a]: pc; the clientID it answers; reached, whether its dial of
          \* the service succeeded; farewell, dialled by the interrupt handler it
          \* inherits

serviceVars == <<svc, helper>>

ServiceInit ==
  /\ svc = [s \in Service |->
       [pc |-> "off", connection |-> NoConn, clientID |-> <<>>,
        newProxyConnection |-> NoConn, farewell |-> NoConn, children |-> {}]]
  /\ helper = [a \in Conn |->
       [pc |-> "none", clientID |-> <<>>, reached |-> FALSE, farewell |-> NoConn]]

Alive(s) == svc[s].pc \notin {"off", "exited"}
HelperAlive(a) == helper[a].pc \notin {"none", "exited"}
Helpers(s) == {a \in svc[s].children : HelperAlive(a)}

Goto(s, pc) == svc' = [svc EXCEPT ![s].pc = pc]

\* The process ends.  Its helpers hold copies of the registered connection.
Exit(s, alsoClosed) ==
  /\ svc' = [svc EXCEPT ![s].pc = "exited"]
  /\ PeerClose(alsoClosed \cup
       (IF Helpers(s) = {} THEN {svc[s].connection} ELSE {}))

-----------------------------------------------------------------------------
(* start: register, then loop on connect requests *)

Connect(s) ==
  /\ svc[s].pc = "off"
  /\ \E c \in Conn :
       /\ Dial(c)
       /\ svc' = [svc EXCEPT ![s].pc = "dialled", ![s].connection = c]
  /\ UNCHANGED <<hostVars, inq, outq, rst, helper>>

\* connect() fails: start returns and so does main.
ConnectRefused(s) ==
  /\ svc[s].pc = "off"
  /\ ~Listening
  /\ Goto(s, "exited")
  /\ UNCHANGED <<hostVars, netVars, helper>>

SendRegister(s) ==
  /\ svc[s].pc = "dialled"
  /\ PeerSend(svc[s].connection, makeRegisterRequest(serviceID[s]))
  /\ Goto(s, "awaiting")
  /\ UNCHANGED <<hostVars, backlog, outq, peer, rst, helper>>

ReadRegisterResponse(s) ==
  LET c == svc[s].connection IN
  /\ svc[s].pc = "awaiting"
  /\ outq[c] # <<>>
  /\ IF isOK(Head(outq[c]))
     THEN Goto(s, "serving") /\ PeerReceive(c) /\ UNCHANGED <<peer, rst>>
     ELSE Exit(s, {})
  /\ UNCHANGED <<hostVars, backlog, inq, helper>>

\* The loop takes whatever it receives for a connect request; nothing else is
\* sent on this connection after the response.
ReadConnectRequest(s) ==
  LET c == svc[s].connection IN
  /\ svc[s].pc = "serving"
  /\ outq[c] # <<>>
  /\ isConnectRequest(Head(outq[c]))
  /\ svc' = [svc EXCEPT ![s].pc = "dialling", ![s].clientID = getClientID(Head(outq[c]))]
  /\ PeerReceive(c)
  /\ UNCHANGED <<hostVars, backlog, inq, peer, rst, helper>>

\* End of file, or several packets from one recv: the constructor throws.  A recv
\* that fails ends it the same way: awaiting, in an error response; serving, in a
\* NULL that the loop skips, and the next recv finds the end of file.
ReadThrows(s) ==
  LET c == svc[s].connection IN
  /\ svc[s].pc \in {"awaiting", "serving"}
  /\ \/ PeerAtEof(c)
     \/ "coalesce" \in Events /\ Len(outq[c]) > 1
  /\ Exit(s, {})
  /\ UNCHANGED <<hostVars, backlog, inq, helper>>

-----------------------------------------------------------------------------
(* handleConnectRequest *)

DialProxy(s) ==
  /\ svc[s].pc = "dialling"
  /\ \E a \in Conn :
       /\ Dial(a)
       /\ svc' = [svc EXCEPT ![s].pc = "forking", ![s].newProxyConnection = a]
  /\ UNCHANGED <<hostVars, inq, outq, rst, helper>>

\* Nothing can tell spd, or the client, that this request is dropped.
DialProxyFails(s) ==
  /\ svc[s].pc = "dialling"
  /\ ~Listening
  /\ svc' = [svc EXCEPT ![s].pc = "serving", ![s].clientID = <<>>]
  /\ UNCHANGED <<hostVars, netVars, helper>>

Fork(s) ==
  LET a == svc[s].newProxyConnection IN
  /\ svc[s].pc = "forking"
  /\ svc' = [svc EXCEPT ![s].pc = "serving", ![s].clientID = <<>>,
                         ![s].newProxyConnection = NoConn,
                         ![s].children = @ \cup {a}]
  /\ helper' = [helper EXCEPT ![a].pc = "connecting", ![a].clientID = svc[s].clientID]
  /\ UNCHANGED <<hostVars, netVars>>

\* fork() returned -1, which is not 0: the parent's branch closes the socket.
ForkFails(s) ==
  /\ "fork" \in Events
  /\ svc[s].pc = "forking"
  /\ PeerClose({svc[s].newProxyConnection})
  /\ svc' = [svc EXCEPT ![s].pc = "serving", ![s].clientID = <<>>,
                         ![s].newProxyConnection = NoConn]
  /\ UNCHANGED <<hostVars, backlog, inq, helper>>

\* The helper reached the service: it says so and relays.
HelperRelaysAtOnce(s, a) ==
  /\ helper[a].pc = "connecting"
  /\ helper' = [helper EXCEPT ![a].pc = "relay", ![a].reached = TRUE]
  /\ UNCHANGED <<hostVars, netVars, svc>>
HelperConnected(s, a) ==
  /\ helper[a].pc = "connecting"
  /\ PeerSend(a, makeConnectionCreatedRequest(helper[a].clientID))
  /\ helper' = [helper EXCEPT ![a].pc = "relay", ![a].reached = TRUE]
  /\ UNCHANGED <<hostVars, backlog, outq, peer, rst, svc>>

\* The helper ends.  The registered connection is closed with it if it held
\* the last copy.
HelperExit(s, a, alsoClosed) ==
  /\ helper' = [helper EXCEPT ![a].pc = "exited"]
  /\ PeerClose({a} \cup alsoClosed \cup
       (IF ~Alive(s) /\ Helpers(s) = {a} THEN {svc[s].connection} ELSE {}))

\* The helper could not reach the service.
HelperFailsSilently(s, a) ==
  /\ helper[a].pc = "connecting"
  /\ HelperExit(s, a, {})
  /\ UNCHANGED <<hostVars, backlog, inq, svc>>
HelperFailsCreated(s, a) ==
  /\ helper[a].pc = "connecting"
  /\ PeerSend(a, makeConnectionCreatedRequest(helper[a].clientID))
  /\ HelperExit(s, a, {})
  /\ UNCHANGED <<hostVars, backlog, svc>>
HelperFailed(s, a) ==
  /\ helper[a].pc = "connecting"
  /\ PeerSend(a, makeConnectionFailedRequest(helper[a].clientID))
  /\ HelperExit(s, a, {})
  /\ UNCHANGED <<hostVars, backlog, svc>>

\* The service speaks first, and once.
HelperPayload(s, a) ==
  /\ "eager" \in Events
  /\ helper[a].pc = "relay"
  /\ PeerSend(a, Payload)
  /\ helper' = [helper EXCEPT ![a].pc = "relayed"]
  /\ UNCHANGED <<hostVars, backlog, outq, peer, rst, svc>>

\* facilitateConnection returns: the service hung up, or spd's side did.
HelperDone(s, a) ==
  /\ helper[a].pc \in {"relay", "relayed"}
  /\ HelperExit(s, a, {})
  /\ UNCHANGED <<hostVars, backlog, inq, svc>>

-----------------------------------------------------------------------------
(* shutdown, the SIGINT handler of the parent and of its helpers *)

Interrupt(s) ==
  /\ "shutdown" \in Events
  /\ svc[s].pc \in {"serving", "dialling", "forking"}
  /\ \E c \in Conn :
       /\ Dial(c)
       /\ svc' = [svc EXCEPT ![s].pc = "stopping", ![s].farewell = c]
  /\ UNCHANGED <<hostVars, inq, outq, rst, helper>>

\* The handler cannot reach spd: it only closes and exits.
InterruptRefused(s) ==
  /\ "shutdown" \in Events
  /\ svc[s].pc \in {"serving", "dialling", "forking"}
  /\ ~Listening
  /\ Exit(s, {svc[s].newProxyConnection})
  /\ UNCHANGED <<hostVars, backlog, inq, helper>>

\* send, close and exit, without waiting for the response.
SendUnregister(s) ==
  /\ svc[s].pc = "stopping"
  /\ PeerSend(svc[s].farewell, makeUnregisterRequest(serviceID[s]))
  /\ Exit(s, {svc[s].farewell, svc[s].newProxyConnection})
  /\ UNCHANGED <<hostVars, backlog, helper>>

\* A helper inherits the handler; it gets the signal of its process group.
HelperInterrupt(s, a) ==
  /\ "group" \in Events
  /\ helper[a].pc \in {"connecting", "relay", "relayed"}
  /\ svc[s].pc \in {"stopping", "exited"}
  /\ \E c \in Conn :
       /\ Dial(c)
       /\ helper' = [helper EXCEPT ![a].pc = "stopping", ![a].farewell = c]
  /\ UNCHANGED <<hostVars, inq, outq, rst, svc>>

HelperInterruptRefused(s, a) ==
  /\ "group" \in Events
  /\ helper[a].pc \in {"connecting", "relay", "relayed"}
  /\ svc[s].pc \in {"stopping", "exited"}
  /\ ~Listening
  /\ HelperExit(s, a, {})
  /\ UNCHANGED <<hostVars, backlog, inq, svc>>

HelperUnregister(s, a) ==
  /\ helper[a].pc = "stopping"
  /\ PeerSend(helper[a].farewell, makeUnregisterRequest(serviceID[s]))
  /\ HelperExit(s, a, {helper[a].farewell})
  /\ UNCHANGED <<hostVars, backlog, svc>>

-----------------------------------------------------------------------------
(* A kill, or SIGINT before the handler is installed *)

Crash(s) ==
  /\ "serviceCrash" \in Events
  /\ Alive(s)
  /\ Exit(s, {svc[s].newProxyConnection, svc[s].farewell})
  /\ UNCHANGED <<hostVars, backlog, inq, helper>>

HelperCrash(s, a) ==
  /\ "serviceCrash" \in Events
  /\ HelperAlive(a)
  /\ HelperExit(s, a, {helper[a].farewell})
  /\ UNCHANGED <<hostVars, backlog, inq, svc>>

ServiceStep ==
  \E s \in Service :
    \/ Connect(s) \/ ConnectRefused(s) \/ SendRegister(s)
    \/ ReadRegisterResponse(s) \/ ReadConnectRequest(s) \/ ReadThrows(s)
    \/ DialProxy(s) \/ DialProxyFails(s) \/ Fork(s) \/ ForkFails(s)
    \/ Interrupt(s) \/ InterruptRefused(s) \/ SendUnregister(s) \/ Crash(s)
    \/ \E a \in svc[s].children :
         \/ HelperConnected(s, a) \/ HelperFailed(s, a) \/ HelperPayload(s, a)
         \/ HelperDone(s, a) \/ HelperInterrupt(s, a) \/ HelperInterruptRefused(s, a)
         \/ HelperUnregister(s, a) \/ HelperCrash(s, a)
=============================================================================
