------------------------------- MODULE Server -------------------------------
(***************************************************************************)
(* The proxy server spd: SimpleServer (the accept loop) and Server (the    *)
(* registry and the rendezvous).  spd is one thread that accepts one       *)
(* connection, receives once from it, handles that request to the end and  *)
(* goes back to accept; a handler is therefore one action.  The relay      *)
(* processes it forks run concurrently with it.                            *)
(***************************************************************************)
EXTENDS Transport

CONSTANTS ServerID,   \* the ids services register under
          MaxStarts   \* times spd is started in a behaviour: a bound

ASSUME ServerAssumption == MaxStarts \in Nat \ {0}

VARIABLES
  requestFd,          \* handleRequest's argument, NoFd while spd is in accept
  serverMap,          \* serverMap[id]: descriptor registered, or NoFd
  pendingConnections, \* the client ids (decimal descriptors) that wait
  child,              \* child[a]: the process forked to answer with connection a
  starts              \* how often spd was started

serverVars == <<requestFd, serverMap, pendingConnections, child, starts>>

ClientID == {to_string(f) : f \in FD}

ServerInit ==
  /\ requestFd = NoFd
  /\ serverMap = [id \in ServerID |-> NoFd]
  /\ pendingConnections = {}
  /\ child = [a \in Conn |-> [pc |-> "none", ok |-> FALSE, client |-> NoConn]]
  /\ starts = 1

request == fdTable[requestFd]     \* the connection that is being handled
Registered(id) == serverMap[id] # NoFd

-----------------------------------------------------------------------------
(* SimpleServer *)

\* A new spd can bind the port once no relay process of the last one is left.
Run ==
  /\ ~Listening
  /\ starts < MaxStarts
  /\ spd' = "up"
  /\ starts' = starts + 1
  /\ UNCHANGED <<fdTable, inherited, requestFd, serverMap, pendingConnections,
                 child>>
  /\ UNCHANGED netVars

\* accept() returns the lowest free descriptor; with none it fails and is
\* called again, which changes nothing.
AcceptConnection ==
  /\ spd = "up"
  /\ requestFd = NoFd
  /\ backlog # <<>>
  /\ \E f \in FD :
       /\ fdTable[f] = NoConn
       /\ \A g \in FD : g < f => fdTable[g] # NoConn
       /\ fdTable' = [fdTable EXCEPT ![f] = Head(backlog)]
       /\ requestFd' = f
  /\ backlog' = Tail(backlog)
  /\ UNCHANGED <<spd, inherited, inq, outq, peer, rst>>
  /\ UNCHANGED <<serverMap, pendingConnections, child, starts>>

\* The process ends and takes its tables with it.
Die ==
  /\ ProcessExit
  /\ requestFd' = NoFd
  /\ serverMap' = [id \in ServerID |-> NoFd]
  /\ pendingConnections' = {}
  /\ UNCHANGED <<inherited, inq, outq, peer, rst, child, starts>>

-----------------------------------------------------------------------------
(* handleRequest: receiving *)

Handling == spd = "up" /\ requestFd # NoFd

\* The request that spd receives alone and can parse.
Receive(req) ==
  /\ Handling
  /\ inq[request] # <<>>
  /\ req = Head(inq[request])
  /\ Parses(<<req>>)
  /\ Consume(request)

\* recv() fails: the handler returns -1 and leaves the descriptor open.
RecvError ==
  /\ Handling
  /\ inq[request] = <<>>
  /\ rst[request] = "reset"
  /\ requestFd' = NoFd
  /\ UNCHANGED <<hostVars, netVars, serverMap, pendingConnections, child, starts>>

\* The Request constructor throws and nothing catches it.
ParseThrows ==
  /\ Handling
  /\ \/ AtEof(request)
     \/ \E n \in 1 .. Len(inq[request]) :
          /\ n > 1 => "coalesce" \in Events
          /\ ~Parses(SubSeq(inq[request], 1, n))
  /\ Die

-----------------------------------------------------------------------------
(* handleRequest: one action per type of request *)

\* serverMap after registerServer, which refuses an id that is taken.
RegisterOverwrites(id, fd) == [serverMap EXCEPT ![id] = fd]
registerServer(id, fd) ==
  IF Registered(id) THEN serverMap ELSE [serverMap EXCEPT ![id] = fd]

\* The registering connection stays open, whether it is refused or not.
HandleRegister ==
  \E id \in ServerID :
    /\ Receive(makeRegisterRequest(id))
    /\ serverMap' = registerServer(id, requestFd)
    /\ Send(request, makeResponse(~Registered(id)))
    /\ requestFd' = NoFd
    /\ UNCHANGED <<hostVars, backlog, peer, pendingConnections, child, starts>>

\* What an unregister request erases and closes, if the id is registered.
EraseForgotten(id) == serverMap
Erased(id) == [serverMap EXCEPT ![id] = NoFd]
CloseForgotten(id) == {requestFd}
ClosedByUnregister(id) == {serverMap[id], requestFd}

HandleUnregister ==
  \E id \in ServerID :
    /\ Receive(makeUnregisterRequest(id))
    /\ serverMap' = Erased(id)
    /\ fdTable' = CloseFds(ClosedByUnregister(id))
    /\ Send(request, makeResponse(TRUE))
    /\ requestFd' = NoFd
    /\ UNCHANGED <<spd, inherited, backlog, peer, pendingConnections, child, starts>>

\* The request is passed to the service, named by the client's descriptor.
HandleConnect ==
  \E id \in ServerID :
    /\ Receive(makeConnectRequest(id))
    /\ Registered(id)
    /\ pendingConnections' = pendingConnections \cup {to_string(requestFd)}
    /\ Send(fdTable[serverMap[id]], makeProxyConnectRequest(to_string(requestFd)))
    /\ requestFd' = NoFd
    /\ UNCHANGED <<hostVars, backlog, peer, serverMap, child, starts>>

HandleConnectUnknown ==
  \E id \in ServerID :
    /\ Receive(makeConnectRequest(id))
    /\ ~Registered(id)
    /\ Send(request, makeResponse(FALSE))
    /\ fdTable' = CloseFds({requestFd})
    /\ requestFd' = NoFd
    /\ UNCHANGED <<spd, inherited, backlog, peer, serverMap, pendingConnections,
                   child, starts>>

\* No handler and no mask for SIGPIPE: the send to the service is spd's last.
HandleConnectKilled ==
  \E id \in ServerID :
    /\ Handling
    /\ inq[request] # <<>>
    /\ Head(inq[request]) = makeConnectRequest(id)
    /\ Registered(id)
    /\ SendKills(fdTable[serverMap[id]])
    /\ Die

\* The child forked to answer a client with the request's connection.
ForkedOnSuccess(clientFd, success) ==
  [child EXCEPT ![request] = [pc |-> IF success THEN "notify" ELSE "exited",
                              ok |-> success, client |-> fdTable[clientFd]]]
Forked(clientFd, success) ==
  [child EXCEPT ![request] = [pc |-> "notify", ok |-> success,
                              client |-> fdTable[clientFd]]]

StillPending(clientID) == pendingConnections
NoLongerPending(clientID) == pendingConnections \ {clientID}

\* updateConnectionStatus for a pending client.  The child holds a copy of
\* every descriptor; the parent goes on the same way when fork() fails.
ResolvePending(clientID, success) ==
  LET clientFd == atoi(clientID) IN
  /\ clientID \in pendingConnections
  /\ \/ /\ child' = Forked(clientFd, success)
        /\ inherited' = [inherited EXCEPT ![request] = Open]
     \/ "fork" \in Events /\ UNCHANGED <<child, inherited>>
  /\ pendingConnections' = NoLongerPending(clientID)
  /\ fdTable' = CloseFds({clientFd, requestFd})
  /\ UNCHANGED <<outq, rst>>

\* updateConnectionStatus for a client that does not wait (any more).
RefuseAnswer(clientID) ==
  /\ clientID \notin pendingConnections
  /\ Send(request, makeResponse(FALSE))
  /\ fdTable' = CloseFds({requestFd})
  /\ UNCHANGED <<pendingConnections, child, inherited>>

HandleAnswer ==
  \E clientID \in ClientID, success \in BOOLEAN :
    /\ Receive(IF success THEN makeConnectionCreatedRequest(clientID)
                          ELSE makeConnectionFailedRequest(clientID))
    /\ ResolvePending(clientID, success) \/ RefuseAnswer(clientID)
    /\ requestFd' = NoFd
    /\ UNCHANGED <<spd, backlog, peer, serverMap, starts>>

HandleUnexpected ==
  /\ Handling
  /\ inq[request] # <<>>
  /\ LET req == Head(inq[request]) IN
    /\ Receive(req)
    /\ ~isRegisterRequest(req) /\ ~isUnregisterRequest(req)
    /\ ~isConnectRequest(req) /\ ~isConnectionCreatedRequest(req)
    /\ ~isConnectionFailedRequest(req)
  /\ Send(request, makeResponse(FALSE))
  /\ fdTable' = CloseFds({requestFd})
  /\ requestFd' = NoFd
  /\ UNCHANGED <<spd, inherited, backlog, peer, serverMap, pendingConnections,
                 child, starts>>

-----------------------------------------------------------------------------
(* The forked child of updateConnectionStatus *)

ChildExit(a) ==
  /\ child' = [child EXCEPT ![a].pc = "exited"]
  /\ RelayExit(a)
  /\ UNCHANGED <<spd, fdTable, inq, peer, requestFd, serverMap,
                 pendingConnections, starts>>

\* The child tells the client, then relays or ends.
NoticeAlwaysOk(a) == makeResponse(TRUE)
Notice(a) == makeResponse(child[a].ok)

ChildNotify(a) ==
  /\ child[a].pc = "notify"
  /\ Send(child[a].client, Notice(a))
  /\ IF child[a].ok
     THEN /\ child' = [child EXCEPT ![a].pc = "relay"]
          /\ UNCHANGED <<hostVars, backlog, inq, peer, requestFd, serverMap,
                         pendingConnections, starts>>
     ELSE ChildExit(a)

\* facilitateConnection, seen from outside: bytes of the service reach the
\* client...
ChildForward(a) ==
  /\ child[a].pc = "relay"
  /\ inq[a] # <<>>
  /\ Send(child[a].client, Head(inq[a]))
  /\ Consume(a)
  /\ UNCHANGED <<hostVars, backlog, peer, serverVars>>

\* ... and the process ends once either side is gone.
ChildRelayed(a) ==
  /\ child[a].pc = "relay"
  /\ peer[a] = "closed" \/ peer[child[a].client] = "closed"
  /\ ChildExit(a)
  /\ UNCHANGED <<outq, rst>>

\* A send of the child raises SIGPIPE, which ends the child alone.
ChildKilled(a) ==
  /\ child[a].pc \in {"notify", "relay"}
  /\ child[a].pc = "relay" => inq[a] # <<>>
  /\ SendKills(child[a].client)
  /\ ChildExit(a)
  /\ UNCHANGED <<outq, rst>>

ServerStep ==
  \/ Run \/ AcceptConnection \/ RecvError \/ ParseThrows
  \/ HandleRegister \/ HandleUnregister
  \/ HandleConnect \/ HandleConnectUnknown \/ HandleConnectKilled
  \/ HandleAnswer \/ HandleUnexpected
  \/ \E a \in Conn : ChildNotify(a) \/ ChildForward(a) \/ ChildRelayed(a)
                     \/ ChildKilled(a)
=============================================================================
