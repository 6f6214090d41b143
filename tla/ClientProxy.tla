----------------------------- MODULE ClientProxy -----------------------------
(***************************************************************************)
(* The client proxies: processes that ask spd for a service and, once they *)
(* are told it is connected, wait for one local connection and relay it.   *)
(***************************************************************************)
EXTENDS Transport

CONSTANTS Client,   \* the client proxy processes
          wantedID  \* wantedID[k]: the service id k asks for

VARIABLE client     \* client[k]: pc and connection

ClientInit ==
  client = [k \in Client |-> [pc |-> "off", connection |-> NoConn]]

ClientGoto(k, pc) == client' = [client EXCEPT ![k].pc = pc]

ClientExit(k, pc) ==
  /\ ClientGoto(k, pc)
  /\ PeerClose({client[k].connection})

ClientConnect(k) ==
  /\ client[k].pc = "off"
  /\ \E c \in Conn :
       /\ Dial(c)
       /\ client' = [client EXCEPT ![k] = [pc |-> "dialled", connection |-> c]]
  /\ UNCHANGED <<hostVars, inq, outq, rst>>

ClientConnectRefused(k) ==
  /\ client[k].pc = "off"
  /\ ~Listening
  /\ ClientGoto(k, "exited")
  /\ UNCHANGED <<hostVars, netVars>>

SendConnect(k) ==
  /\ client[k].pc = "dialled"
  /\ PeerSend(client[k].connection, makeConnectRequest(wantedID[k]))
  /\ ClientGoto(k, "waiting")
  /\ UNCHANGED <<hostVars, backlog, outq, peer, rst>>

\* The user is told, and a local socket listened on, or it is over.
ReadConnectResponse(k) ==
  LET c == client[k].connection IN
  /\ client[k].pc = "waiting"
  /\ outq[c] # <<>>
  /\ IF isOK(Head(outq[c]))
     THEN ClientGoto(k, "connected") /\ PeerReceive(c) /\ UNCHANGED <<peer, rst>>
     ELSE ClientExit(k, "refused")
  /\ UNCHANGED <<hostVars, backlog, inq>>

\* End of file, or a response with bytes of the service behind it.
ClientReadThrows(k) ==
  LET c == client[k].connection IN
  /\ client[k].pc = "waiting"
  /\ \/ PeerAtEof(c)
     \/ "coalesce" \in Events /\ Len(outq[c]) > 1
  /\ ClientExit(k, "exited")
  /\ UNCHANGED <<hostVars, backlog, inq>>

\* recv() fails, of a RST: sendRequest makes up an error response.
ClientRecvFails(k) ==
  /\ client[k].pc = "waiting"
  /\ PeerAtEof(client[k].connection)
  /\ ClientExit(k, "refused")
  /\ UNCHANGED <<hostVars, backlog, inq>>

\* run(CLIENT_PORT): some other program has the port and this one ends, or its
\* user ends it while it waits in accept.
ClientListenFails(k) ==
  /\ client[k].pc = "connected"
  /\ ClientExit(k, "exited")
  /\ UNCHANGED <<hostVars, backlog, inq>>

\* accept returns a local connection, which handleRequest relays...
ClientAccept(k) ==
  /\ client[k].pc = "connected"
  /\ ClientGoto(k, "relaying")
  /\ UNCHANGED <<hostVars, netVars>>

\* ... and it is the only one: the process exits when the relay is over.
ClientDone(k) ==
  /\ client[k].pc = "relaying"
  /\ ClientExit(k, "exited")
  /\ UNCHANGED <<hostVars, backlog, inq>>

ClientCrash(k) ==
  /\ "clientCrash" \in Events
  /\ client[k].pc \in {"dialled", "waiting"}
  /\ ClientExit(k, "exited")
  /\ UNCHANGED <<hostVars, backlog, inq>>

ClientStep ==
  \E k \in Client :
    \/ ClientConnect(k) \/ ClientConnectRefused(k) \/ SendConnect(k)
    \/ ReadConnectResponse(k) \/ ClientReadThrows(k) \/ ClientRecvFails(k)
    \/ ClientListenFails(k) \/ ClientAccept(k) \/ ClientDone(k) \/ ClientCrash(k)
=============================================================================
