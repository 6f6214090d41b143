-------------------------------- MODULE Relay --------------------------------
(***************************************************************************)
(* A process inside NetworkUtil::facilitateConnection: a child of spd, a   *)
(* helper of a service proxy, or a client proxy.  Two threads run          *)
(* exchangeData, one for each direction, on the same two descriptors; the  *)
(* main thread joins them.  No descriptor is opened meanwhile, so a second *)
(* close only fails.                                                       *)
(*                                                                         *)
(* A call that waits keeps the socket alive although another thread closes *)
(* the descriptor: a connection is only shut down when no call is in it    *)
(* any more.  The peers are the programs at the far ends of the two        *)
(* sockets; they may stop writing and go on reading, as TCP lets them.     *)
(***************************************************************************)
EXTENDS Naturals, Sequences

CONSTANTS PACKET_SIZE,  \* size of buf: 1024 in the code
          Buffer,       \* bytes the kernel queues in a direction of a socket
          MaxBytes      \* bytes a peer writes in a behaviour: a bound

ASSUME RelayAssumption ==
  /\ PACKET_SIZE \in Nat \ {0}
  /\ Buffer \in Nat \ {0}
  /\ MaxBytes \in Nat

Side == {"client", "server"}
Other(s) == IF s = "client" THEN "server" ELSE "client"

VARIABLES
  process, \* "running"; "exited", both threads joined; "killed", by SIGPIPE
  pc,      \* pc[t]: where the thread that receives from t is
  buf,     \* buf[t]: the bytes it has received and not yet sent
  fd,      \* fd[s]: whether the descriptor of the socket to s is open
  conn,    \* conn[s]: "live", or how the socket to s was shut down: "fin", "rst"
  rx,      \* rx[s]: bytes of s that the kernel holds for the relay
  tx,      \* tx[s]: bytes for s that it has not read
  err,     \* err[s]: what a RST of s left on the socket, as in Transport
  peer,    \* peer[s]: "open"; "shut", reads only; "closed"
  sent,    \* sent[s]: all bytes s wrote: 1, 2, 3, ...
  got      \* got[s]: all bytes s read

relayVars == <<process, pc, buf, fd>>
sockVars  == <<conn, rx, tx, err>>
peerVars  == <<peer, sent, got>>
vars == <<relayVars, sockVars, peerVars>>

Init ==
  /\ process = "running"
  /\ pc = [t \in Side |-> "loop"]
  /\ buf = [t \in Side |-> <<>>]
  /\ fd = [s \in Side |-> TRUE]
  /\ conn = [s \in Side |-> "live"]
  /\ rx = [s \in Side |-> <<>>]
  /\ tx = [s \in Side |-> <<>>]
  /\ err = [s \in Side |-> "no"]
  /\ peer = [s \in Side |-> "open"]
  /\ sent = [s \in Side |-> <<>>]
  /\ got = [s \in Side |-> <<>>]

Least(m, n) == IF m <= n THEN m ELSE n
FirstOf(q, n) == SubSeq(q, 1, n)
Beyond(q, n) == SubSeq(q, n + 1, Len(q))

-----------------------------------------------------------------------------
(* The kernel *)

\* The threads that are in a call on the socket to s.
InCall(s) == pc[s] = "recv" \/ pc[Other(s)] \in {"sending", "blocked"}

\* A socket without a descriptor and without a call in it is shut down; bytes
\* nobody will receive make that a RST.
ShutDown ==
  conn' = [s \in Side |->
            IF conn[s] # "live" \/ fd'[s] \/ InCall(s)' THEN conn[s]
            ELSE IF rx'[s] = <<>> THEN "fin" ELSE "rst"]

\* After a RST, what the peer has not got yet may never arrive.
LoseUnread(s) ==
  /\ conn[s] = "rst"
  /\ tx[s] # <<>>
  /\ tx' = [tx EXCEPT ![s] = <<>>]
  /\ UNCHANGED <<relayVars, conn, rx, err, peerVars>>

-----------------------------------------------------------------------------
(* The peers *)

PeerWrites(s) ==
  LET b == Len(sent[s]) + 1 IN
  /\ peer[s] = "open"
  /\ conn[s] = "live"
  /\ Len(sent[s]) < MaxBytes
  /\ Len(rx[s]) < Buffer
  /\ sent' = [sent EXCEPT ![s] = Append(@, b)]
  /\ rx' = [rx EXCEPT ![s] = Append(@, b)]
  /\ UNCHANGED <<relayVars, conn, tx, err, peer, got>>

PeerReads(s) ==
  /\ peer[s] # "closed"
  /\ tx[s] # <<>>
  /\ got' = [got EXCEPT ![s] = Append(@, Head(tx[s]))]
  /\ tx' = [tx EXCEPT ![s] = Tail(@)]
  /\ UNCHANGED <<relayVars, conn, rx, err, peer, sent>>

PeerShuts(s) ==
  /\ peer[s] = "open"
  /\ peer' = [peer EXCEPT ![s] = "shut"]
  /\ UNCHANGED <<relayVars, sockVars, sent, got>>

\* Bytes it leaves unread make it a RST.
PeerCloses(s) ==
  /\ peer[s] # "closed"
  /\ peer' = [peer EXCEPT ![s] = "closed"]
  /\ tx' = [tx EXCEPT ![s] = <<>>]
  /\ err' = [err EXCEPT ![s] = IF tx[s] # <<>> /\ @ = "no" THEN "reset" ELSE @]
  /\ UNCHANGED <<relayVars, conn, rx, sent, got>>

-----------------------------------------------------------------------------
(* exchangeData: the thread that receives from t and sends to Other(t) *)

Goto(t, label) == pc' = [pc EXCEPT ![t] = label]

\* recv is called; on a descriptor the other thread closed it fails at once.
CallRecv(t) ==
  /\ pc[t] = "loop"
  /\ Goto(t, IF fd[t] THEN "recv" ELSE "closeSrc")
  /\ UNCHANGED <<process, buf, fd, sockVars, peerVars>>

Received(t, label) ==
  LET n == Least(Len(rx[t]), PACKET_SIZE) IN
  /\ pc[t] = "recv"
  /\ rx[t] # <<>>
  /\ buf' = [buf EXCEPT ![t] = FirstOf(rx[t], n)]
  /\ rx' = [rx EXCEPT ![t] = Beyond(@, n)]
  /\ Goto(t, label)
  /\ UNCHANGED <<process, fd, tx, err, peerVars>>
  /\ ShutDown
RecvShortIsEnd(t) == Received(t, IF Len(rx[t]) < PACKET_SIZE THEN "closeSrc" ELSE "send")
RecvBytes(t) == Received(t, "send")

\* recv returns 0 or -1; an error is reported once.
NothingMore(t, label) ==
  /\ pc[t] = "recv"
  /\ rx[t] = <<>>
  /\ peer[t] # "open" \/ err[t] # "no"
  /\ err' = [err EXCEPT ![t] = IF @ = "reset" THEN "pipe" ELSE @]
  /\ Goto(t, label)
  /\ UNCHANGED <<process, buf, fd, rx, tx, peerVars>>
  /\ ShutDown
RecvRetries(t) == NothingMore(t, "loop")
RecvEnds(t) == NothingMore(t, "closeSrc")

CallSend(t) ==
  /\ pc[t] = "send"
  /\ Goto(t, IF fd[Other(t)] THEN "sending" ELSE "closeSrc")
  /\ UNCHANGED <<process, buf, fd, sockVars, peerVars>>

\* What the kernel can take of the bytes that are sent.
Taken(t) == Least(Len(buf[t]), Buffer - Len(tx[Other(t)]))
TookAll(t) == Taken(t) = Len(buf[t])

Sent(t, rest, label) ==
  LET d == Other(t) IN
  /\ pc[t] \in {"sending", "blocked"}
  /\ peer[d] # "closed" /\ err[d] = "no"
  /\ Taken(t) > 0
  /\ tx' = [tx EXCEPT ![d] = @ \o FirstOf(buf[t], Taken(t))]
  /\ buf' = [buf EXCEPT ![t] = rest]
  /\ Goto(t, label)
  /\ UNCHANGED <<process, fd, rx, err, peerVars>>
  /\ ShutDown

\* send waits until the kernel took everything, and returns that count.
SendDropsRest(t) == Sent(t, <<>>, "loop")
SendRestarts(t)  == Sent(t, IF TookAll(t) THEN <<>> ELSE buf[t],
                         IF TookAll(t) THEN "loop" ELSE "blocked")
SendOnce(t)  == Sent(t, Beyond(buf[t], Taken(t)), IF TookAll(t) THEN "closeSrc" ELSE "blocked")
SendBytes(t) == Sent(t, Beyond(buf[t], Taken(t)), IF TookAll(t) THEN "loop" ELSE "blocked")

\* A peer that closed answers with a RST.
SendInVain(t) ==
  LET d == Other(t) IN
  /\ pc[t] \in {"sending", "blocked"}
  /\ peer[d] = "closed" /\ err[d] = "no"
  /\ err' = [err EXCEPT ![d] = "pipe"]
  /\ buf' = [buf EXCEPT ![t] = <<>>]
  /\ Goto(t, "loop")
  /\ UNCHANGED <<process, fd, rx, tx, peerVars>>
  /\ ShutDown

\* A RST ends a send that waits: it returns what was taken before, and the
\* loop goes on as if that were all.
SendShort(t) ==
  /\ pc[t] = "blocked"
  /\ err[Other(t)] # "no"
  /\ buf' = [buf EXCEPT ![t] = <<>>]
  /\ Goto(t, "loop")
  /\ UNCHANGED <<process, fd, rx, tx, err, peerVars>>
  /\ ShutDown

\* The first send after a RST returns -1.
SendFails(t) ==
  LET d == Other(t) IN
  /\ pc[t] = "sending"
  /\ err[d] = "reset"
  /\ err' = [err EXCEPT ![d] = "pipe"]
  /\ Goto(t, "closeSrc")
  /\ UNCHANGED <<process, buf, fd, rx, tx, peerVars>>
  /\ ShutDown

\* The next one raises SIGPIPE, which ends the process, both threads with it.
SendKills(t) ==
  /\ pc[t] = "sending"
  /\ err[Other(t)] = "pipe"
  /\ process' = "killed"
  /\ pc' = [u \in Side |-> "done"]
  /\ fd' = [s \in Side |-> FALSE]
  /\ UNCHANGED <<buf, rx, tx, err, peerVars>>
  /\ ShutDown

CloseSrc(t) ==
  /\ pc[t] = "closeSrc"
  /\ fd' = [fd EXCEPT ![t] = FALSE]
  /\ Goto(t, "closeDst")
  /\ UNCHANGED <<process, buf, rx, tx, err, peerVars>>
  /\ ShutDown

CloseDst(t) ==
  /\ pc[t] = "closeDst"
  /\ fd' = [fd EXCEPT ![Other(t)] = FALSE]
  /\ Goto(t, "done")
  /\ UNCHANGED <<process, buf, rx, tx, err, peerVars>>
  /\ ShutDown

\* Both pthread_join return; the callers exit.
Join ==
  /\ process = "running"
  /\ \A t \in Side : pc[t] = "done"
  /\ process' = "exited"
  /\ UNCHANGED <<pc, buf, fd, sockVars, peerVars>>

-----------------------------------------------------------------------------
exchangeData(t) ==
  \/ CallRecv(t) \/ RecvBytes(t) \/ RecvEnds(t)
  \/ CallSend(t) \/ SendBytes(t) \/ SendInVain(t)
  \/ SendShort(t) \/ SendFails(t) \/ SendKills(t)
  \/ CloseSrc(t) \/ CloseDst(t)

Peer(s) == PeerWrites(s) \/ PeerReads(s) \/ PeerShuts(s) \/ PeerCloses(s)

Next ==
  \/ \E t \in Side : exchangeData(t) \/ Peer(t) \/ LoseUnread(t)
  \/ Join

Spec == Init /\ [][Next]_vars

\* The threads are scheduled, and a peer reads what there is to read.  Whether
\* a peer writes or ends is its own affair.
Fairness ==
  /\ \A t \in Side : WF_vars(exchangeData(t)) /\ WF_vars(PeerReads(t))
  /\ WF_vars(Join)

FairSpec == Spec /\ Fairness

-----------------------------------------------------------------------------
\* Every variable has values of its type, and the kernel's queues and the
\* thread's buffer keep their sizes.
TypeOK ==
  /\ process \in {"running", "exited", "killed"}
  /\ pc \in [Side -> {"loop", "recv", "send", "sending", "blocked",
                       "closeSrc", "closeDst", "done"}]
  /\ buf \in [Side -> Seq(Nat)] /\ \A t \in Side : Len(buf[t]) <= PACKET_SIZE
  /\ fd \in [Side -> BOOLEAN]
  /\ conn \in [Side -> {"live", "fin", "rst"}]
  /\ rx \in [Side -> Seq(Nat)] /\ \A s \in Side : Len(rx[s]) <= Buffer
  /\ tx \in [Side -> Seq(Nat)] /\ \A s \in Side : Len(tx[s]) <= Buffer
  /\ err \in [Side -> {"no", "reset", "pipe"}]
  /\ peer \in [Side -> {"open", "shut", "closed"}]
  /\ sent \in [Side -> Seq(Nat)]
  /\ got \in [Side -> Seq(Nat)]

\* What a peer has read is a beginning of what the other one wrote: the two
\* threads of exchangeData lose nothing in between, whoever closes when.
InOrder ==
  \A s \in Side :
    /\ Len(got[s]) <= Len(sent[Other(s)])
    /\ \A i \in 1 .. Len(got[s]) : got[s][i] = sent[Other(s)][i]

\* The end of file a program reads means that it has everything: it goes on,
\* and its partner neither reset its connection nor was written to in vain.
EndIsWhole ==
  \A s \in Side :
    conn[s] = "fin" /\ tx[s] = <<>> /\ peer[s] = "open" /\ err[Other(s)] = "no"
      => got[s] = sent[Other(s)]

\* As long as both programs go on, what one writes reaches the other.
Forwarded ==
  \A s \in Side : \A n \in 1 .. MaxBytes :
    Len(sent[Other(s)]) >= n ~> Len(got[s]) >= n \/ peer["client"] # "open"
                                                \/ peer["server"] # "open"

\* Once both programs have ended, facilitateConnection returns.
RelayEnds == (\A s \in Side : peer[s] # "open") ~> process # "running"

\* When one program closes, the other is told, unless it ends of its own.
CloseForwarded ==
  \A s \in Side :
    peer[s] = "closed" ~> conn[Other(s)] # "live" \/ peer[Other(s)] # "open"
=============================================================================
