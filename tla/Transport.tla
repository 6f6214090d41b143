------------------------------ MODULE Transport ------------------------------
(***************************************************************************)
(* What the programs rely on the kernel of the spd host for: the listening *)
(* socket and its backlog, the TCP connections made to it, spd's           *)
(* descriptor table, and the copies of it that fork() gives to the relay   *)
(* processes.  None of this is code of the repository; it is modelled from *)
(* the calls the code makes (socket, listen, accept, connect, send, recv,  *)
(* close, fork), with the Linux behaviour where systems differ.            *)
(*                                                                         *)
(* A connection joins a process on the spd host to a peer, the process     *)
(* that dialled it.  Connections are numbered in the order they are        *)
(* dialled and never reused; descriptors are reused, lowest free first.    *)
(***************************************************************************)
EXTENDS Protocol, FiniteSets

CONSTANTS MaxConn,  \* connections dialled in a behaviour: a bound of the model
          MaxFd,    \* size of spd's descriptor table
          Backlog,  \* listen(sockfd, 10) in the code
          Events    \* what may go wrong around the programs, or be asked of
                    \* them: the EventKinds that a configuration admits

EventKinds == {
  "shutdown",  \* SIGINT to a service proxy
  "group",     \* SIGINT to the process group: its forked helpers get it too
  "clientCrash",  \* a client proxy is killed before it is answered
  "serviceCrash", \* a service proxy or a helper is killed
  "reset",     \* a connection is reset while spd waits for its request
  "fork",      \* fork() fails
  "coalesce",  \* one recv returns several packets
  "eager",     \* a service that speaks first, as an ssh server does
  "stray",     \* a program other than these three sends a JSON packet
  "hasty" }    \* spd is started again while service proxies of the last one run

ASSUME TransportAssumption ==
  /\ Events \subseteq EventKinds
  /\ MaxConn \in Nat \ {0}
  /\ MaxFd \in Nat \ {0}
  /\ Backlog \in Nat \ {0}

Conn   == 1 .. MaxConn
FD     == 1 .. MaxFd
NoConn == 0
NoFd   == 0

VARIABLES
  spd,       \* "up" or "down": the spd process
  fdTable,   \* spd's open descriptors: the connection of each, or NoConn
  inherited, \* inherited[a]: the connections the relay process forked for the
             \* answering connection a holds; {} when there is no such process
  backlog,   \* connections the kernel completed and spd has not accepted
  inq,       \* inq[c]: what the peer of c sent and nobody has received
  outq,      \* outq[c]: what was sent to the peer of c and it has not received
  peer,      \* peer[c]: "none" before c is dialled, then "open", then "closed"
  rst        \* rst[c]: what a RST from the peer left on the spd host's socket.
             \* "reset": the next call fails.  "pipe": the next send raises SIGPIPE

hostVars == <<spd, fdTable, inherited>>
netVars  == <<backlog, inq, outq, peer, rst>>

TransportInit ==
  /\ spd = "up"
  /\ fdTable = [f \in FD |-> NoConn]
  /\ inherited = [a \in Conn |-> {}]
  /\ backlog = <<>>
  /\ inq = [c \in Conn |-> <<>>]
  /\ outq = [c \in Conn |-> <<>>]
  /\ peer = [c \in Conn |-> "none"]
  /\ rst = [c \in Conn |-> "no"]

Open == {c \in Conn : \E f \in FD : fdTable[f] = c}

\* Forked processes keep the listening socket alive too.
Listening == spd = "up" \/ \E a \in Conn : inherited[a] # {}

\* Some process on the spd host, or its kernel, holds an end of c.
SpdHolds(c) ==
  \/ c \in Open
  \/ \E i \in DOMAIN backlog : backlog[i] = c
  \/ \E a \in Conn : c \in inherited[a]

-----------------------------------------------------------------------------
(* The peer's calls. *)

Fresh(c) == peer[c] = "none" /\ \A d \in Conn : d < c => peer[d] # "none"

\* connect() succeeds as soon as the kernel queues the connection.
Dial(c) ==
  /\ Listening
  /\ Len(backlog) < Backlog
  /\ Fresh(c)
  /\ backlog' = Append(backlog, c)
  /\ peer' = [peer EXCEPT ![c] = "open"]

\* send() on a broken connection, or to an end nobody holds, loses the bytes.
PeerSend(c, p) ==
  inq' = IF peer[c] = "open" /\ SpdHolds(c) THEN [inq EXCEPT ![c] = Append(@, p)]
                                            ELSE inq

PeerReceive(c) == outq' = [outq EXCEPT ![c] = Tail(@)]

\* recv() returns 0, or fails because the connection was reset.
PeerAtEof(c) == outq[c] = <<>> /\ (peer[c] = "closed" \/ ~SpdHolds(c))

\* close() of the last copies of some connections; bytes left unread make
\* TCP send a RST.
PeerClose(cs) ==
  /\ peer' = [c \in Conn |-> IF c \in cs THEN "closed" ELSE peer[c]]
  /\ rst' = [c \in Conn |-> IF c \in cs /\ outq[c] # <<>> /\ rst[c] = "no"
                            THEN "reset" ELSE rst[c]]
  /\ outq' = [c \in Conn |-> IF c \in cs THEN <<>> ELSE outq[c]]

-----------------------------------------------------------------------------
(* The calls of spd and of its relay processes. *)

\* On a closed descriptor send() only fails.
SendKills(c) == c # NoConn /\ rst[c] = "pipe"

\* send() when it does not kill.  A peer that has closed answers with a RST.
Send(c, p) ==
  /\ ~SendKills(c)
  /\ outq' = [outq EXCEPT ![c] = IF peer[c] = "open" THEN Append(@, p) ELSE @]
  /\ rst' = [rst EXCEPT ![c] = IF peer[c] = "closed" THEN "pipe" ELSE @]

\* recv() returned one packet.
Consume(c) == inq' = [inq EXCEPT ![c] = Tail(@)]

AtEof(c) == inq[c] = <<>> /\ peer[c] = "closed" /\ rst[c] = "no"

CloseFds(fs) == [f \in FD |-> IF f \in fs THEN NoConn ELSE fdTable[f]]

\* A relay process ends; with the last copy of the listening socket goes the
\* backlog.
RelayExit(a) ==
  /\ inherited' = [inherited EXCEPT ![a] = {}]
  /\ backlog' = IF spd = "down" /\ \A b \in Conn \ {a} : inherited[b] = {}
                THEN <<>> ELSE backlog

\* spd ends, of an exception or a signal.
ProcessExit ==
  /\ spd' = "down"
  /\ fdTable' = [f \in FD |-> NoConn]
  /\ backlog' = IF \A a \in Conn : inherited[a] = {} THEN <<>> ELSE backlog

=============================================================================
