----------------------- MODULE VirtualSocketRefinement -----------------------
(***************************************************************************)
(* VirtualSocket implements Rendezvous.  The mapping reads spd's numbers   *)
(* through its descriptor table, so it holds only as long as no number is  *)
(* stale.                                                                  *)
(***************************************************************************)
EXTENDS VirtualSocket

Pending(c) == \E f \in FD : fdTable[f] = c /\ to_string(f) \in pendingConnections

LineOf(id) == IF Registered(id) THEN fdTable[serverMap[id]] ELSE NoConn
WaitsFor(c) ==
  {wantedID[k] : k \in {j \in Client : Pending(c) /\ client[j].connection = c}}
OfferedFor(a) == {serviceID[s] : s \in {t \in Service : a \in svc[t].children}}
Successes == {a \in Conn : child[a].pc # "none" /\ child[a].ok}

registry == [id \in ServerID |-> LineOf(id)]
waiting  == [c \in Conn |-> WaitsFor(c)]
offered  == [a \in Conn |-> OfferedFor(a)]
joined   == {<<child[a].client, a>> : a \in Successes}

R == INSTANCE Rendezvous WITH Line <- Conn

\* The registry and the rendezvous of spd, with the programs that use them,
\* keep the abstract promise: ids are exclusive, a client is joined at most
\* once, and to a connection opened by the service it asked for.
Implements == R!Spec
=============================================================================
