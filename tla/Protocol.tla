------------------------------ MODULE Protocol ------------------------------
(***************************************************************************)
(* The packets of src/src/protocol.cpp.  A request is a JSON object with a *)
(* "type" and a "node_id"; a response has a "status" (the error text is    *)
(* left out: no program acts on it).  A packet is one JSON text, and       *)
(* nothing marks where it ends: json::parse gets all the bytes that one    *)
(* recv returned and throws unless they are exactly one JSON text.         *)
(***************************************************************************)
EXTENDS Naturals, Sequences

REGISTER           == "register"
UNREGISTER         == "unregister"
CONNECT            == "connect"
CONNECTION_CREATED == "connection_created"
CONNECTION_FAILED  == "connection_failed"
OK                 == "ok"
ERROR              == "error"

makeRequest(type, node_id) ==
  [kind |-> "request", type |-> type, node_id |-> node_id]

makeRegisterRequest(id)                == makeRequest(REGISTER, id)
UnregisterTypedRegister(id)            == makeRequest(REGISTER, id)
makeUnregisterRequest(id)              == makeRequest(UNREGISTER, id)
makeConnectRequest(id)                 == makeRequest(CONNECT, id)
ProxyConnectMistyped(id)               == makeRequest(OK, id)
makeProxyConnectRequest(id)            == makeRequest(CONNECT, id)
makeConnectionCreatedRequest(clientID) == makeRequest(CONNECTION_CREATED, clientID)
makeConnectionFailedRequest(clientID)  == makeRequest(CONNECTION_FAILED, clientID)

makeResponse(success) ==
  [kind |-> "response", status |-> IF success THEN OK ELSE ERROR]

\* Bytes of the application that is being proxied, which are not JSON.
Payload == [kind |-> "payload"]

\* j[TYPE] of a packet without a "type" is null, which equals no type.
HasType(p, type) == p.kind = "request" /\ p.type = type

isRegisterRequest(p)          == HasType(p, REGISTER)
isUnregisterRequest(p)        == HasType(p, UNREGISTER)
isConnectRequest(p)           == HasType(p, CONNECT)
isConnectionCreatedRequest(p) == HasType(p, CONNECTION_CREATED)
isConnectionFailedRequest(p)  == HasType(p, CONNECTION_FAILED)

getServerID(p) == p.node_id
getClientID(p) == p.node_id

isOK(p) == p.kind = "response" /\ p.status = OK

\* The Request and Response constructors: the packets one recv returned, in
\* order.  End of file is the empty sequence; two packets, or a packet and
\* application bytes, are trailing characters to the parser.
Parses(chunk) == Len(chunk) = 1 /\ chunk[1] # Payload

\* to_string(fd) and atoi(id): a client is named by the decimal text of spd's
\* descriptor for it, which no number and no service id equals.
to_string(fd) == <<fd>>
atoi(id)      == id[1]
=============================================================================
