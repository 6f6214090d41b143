----------------------------- MODULE RelayProofs -----------------------------
(***************************************************************************)
(* Proofs that a relay keeps the order of the bytes and that the end of    *)
(* file it passes on means what it says, for every size of its buffer and  *)
(* of the kernel's queues.                                                 *)
(***************************************************************************)
EXTENDS RelayInv, RelayRefinement, SequenceTheorems, TLAPS

-----------------------------------------------------------------------------
(* Sequences that are a piece of a stream *)

\* What SubSeq does to a sequence that is cut in two.
LEMMA CutInTwo ==
  ASSUME NEW q \in Seq(Nat), NEW n \in Nat, n <= Len(q)
  PROVE  /\ FirstOf(q, n) \in Seq(Nat) /\ Len(FirstOf(q, n)) = n
         /\ \A i \in 1 .. n : FirstOf(q, n)[i] = q[i]
         /\ Beyond(q, n) \in Seq(Nat) /\ Len(Beyond(q, n)) = Len(q) - n
         /\ \A i \in 1 .. Len(q) - n : Beyond(q, n)[i] = q[n + i]
<1>1. Len(q) \in Nat /\ \A i \in 1 .. Len(q) : q[i] \in Nat
  BY LenProperties, ElementOfSeq
<1>2. /\ SubSeq(q, 1, n) \in Seq(Nat)
      /\ Len(SubSeq(q, 1, n)) = IF 1 <= n THEN n - 1 + 1 ELSE 0
      /\ \A i \in 1 .. n - 1 + 1 : SubSeq(q, 1, n)[i] = q[1 + i - 1]
  <2>1. \A i \in 1 .. n : q[i] \in Nat
    BY <1>1
  <2>2. 1 \in Int /\ n \in Int
    OBVIOUS
  <2> QED
    BY <2>1, <2>2, SubSeqProperties
<1>3. /\ SubSeq(q, n + 1, Len(q)) \in Seq(Nat)
      /\ Len(SubSeq(q, n + 1, Len(q))) = IF n + 1 <= Len(q) THEN Len(q) - (n + 1) + 1 ELSE 0
      /\ \A i \in 1 .. Len(q) - (n + 1) + 1 :
           SubSeq(q, n + 1, Len(q))[i] = q[n + 1 + i - 1]
  <2>1. \A i \in n + 1 .. Len(q) : q[i] \in Nat
    BY <1>1
  <2>2. n + 1 \in Int /\ Len(q) \in Int
    BY <1>1
  <2> QED
    BY <2>1, <2>2, SubSeqProperties
<1> QED
  BY <1>1, <1>2, <1>3 DEF FirstOf, Beyond

\* Nothing is beyond all of a queue.
LEMMA BeyondAll ==
  ASSUME NEW q \in Seq(Nat)
  PROVE  Beyond(q, Len(q)) \in Seq(Nat) /\ Len(Beyond(q, Len(q))) = 0
<1> DEFINE n == Len(q)
           r == Beyond(q, n)
<1>1. n \in Nat /\ n <= Len(q) /\ n = Len(q)
  BY LenProperties
<1>2. r \in Seq(Nat) /\ Len(r) = Len(q) - n
  <2> HIDE DEF n
  <2> QED
    BY <1>1, CutInTwo
<1> HIDE DEF r
<1>3. r \in Seq(Nat) /\ Len(r) = 0
  BY <1>1, <1>2
<1> QED
  BY <1>3 DEF r

\* Cutting a piece in two gives two pieces.
LEMMA RunCut ==
  ASSUME NEW q \in Seq(Nat), NEW n \in Nat, n <= Len(q), NEW k \in Nat, Run(q, k)
  PROVE  Run(FirstOf(q, n), k) /\ Run(Beyond(q, n), k + n)
<1>1. Len(q) \in Nat
  BY LenProperties
<1>2. /\ Len(FirstOf(q, n)) = n
      /\ \A i \in 1 .. n : FirstOf(q, n)[i] = q[i]
      /\ Len(Beyond(q, n)) = Len(q) - n
      /\ \A i \in 1 .. Len(q) - n : Beyond(q, n)[i] = q[n + i]
  BY CutInTwo
<1>3. Run(FirstOf(q, n), k)
  <2> DEFINE r == FirstOf(q, n)
  <2>1. \A i \in 1 .. n : i \in 1 .. Len(q) /\ q[i] = k + i
    BY <1>1 DEF Run
  <2>2. Len(r) = n /\ \A i \in 1 .. n : r[i] = q[i]
    BY <1>2
  <2> HIDE DEF r
  <2>3. Run(r, k)
    BY <2>1, <2>2 DEF Run
  <2> QED
    BY <2>3 DEF r
<1>4. Run(Beyond(q, n), k + n)
  <2> DEFINE r == Beyond(q, n)
  <2>1. \A i \in 1 .. Len(q) - n : n + i \in 1 .. Len(q) /\ q[n + i] = k + (n + i)
    BY <1>1 DEF Run
  <2>2. Len(r) = Len(q) - n /\ \A i \in 1 .. Len(q) - n : r[i] = q[n + i]
    BY <1>2
  <2> HIDE DEF r
  <2>3. Run(r, k + n)
    BY <1>1, <2>1, <2>2 DEF Run
  <2> QED
    BY <2>3 DEF r
<1> QED
  BY <1>3, <1>4

\* Joining two neighbouring pieces gives one.
LEMMA RunJoin ==
  ASSUME NEW p \in Seq(Nat), NEW q \in Seq(Nat), NEW k \in Nat,
         Run(p, k), Run(q, k + Len(p))
  PROVE  /\ p \o q \in Seq(Nat) /\ Len(p \o q) = Len(p) + Len(q)
         /\ Run(p \o q, k)
<1>1. Len(p) \in Nat /\ Len(q) \in Nat
  BY LenProperties
<1>2. /\ p \o q \in Seq(Nat)
      /\ Len(p \o q) = Len(p) + Len(q)
      /\ \A i \in 1 .. Len(p) + Len(q) :
           (p \o q)[i] = IF i <= Len(p) THEN p[i] ELSE q[i - Len(p)]
  BY ConcatProperties
<1> QED
  BY <1>1, <1>2 DEF Run

\* The next byte extends a piece.
LEMMA RunAppend ==
  ASSUME NEW q \in Seq(Nat), NEW k \in Nat, Run(q, k), NEW b \in Nat,
         b = k + Len(q) + 1
  PROVE  Append(q, b) \in Seq(Nat) /\ Len(Append(q, b)) = Len(q) + 1 /\ Run(Append(q, b), k)
<1>1. Len(q) \in Nat
  BY LenProperties
<1>2. /\ Append(q, b) \in Seq(Nat) /\ Len(Append(q, b)) = Len(q) + 1
      /\ \A i \in 1 .. Len(q) : Append(q, b)[i] = q[i]
      /\ Append(q, b)[Len(q) + 1] = b
  BY AppendProperties
<1> QED
  BY <1>1, <1>2 DEF Run

\* A piece without its first byte, and that byte.
LEMMA RunTail ==
  ASSUME NEW q \in Seq(Nat), q # <<>>, NEW k \in Nat, Run(q, k)
  PROVE  /\ Head(q) = k + 1
         /\ Tail(q) \in Seq(Nat) /\ Len(q) > 0 /\ Len(Tail(q)) = Len(q) - 1
         /\ Run(Tail(q), k + 1)
<1>1. Len(q) \in Nat \ {0}
  BY EmptySeq
<1>2. /\ Tail(q) \in Seq(Nat) /\ Len(Tail(q)) = Len(q) - 1
      /\ \A i \in 1 .. Len(Tail(q)) : Tail(q)[i] = q[i + 1]
  BY HeadTailProperties
<1>3. Head(q) = q[1]
  OBVIOUS
<1> QED
  BY <1>1, <1>2, <1>3 DEF Run

\* No bytes are a run from anywhere.
LEMMA RunEmpty == \A k : Run(<<>>, k) /\ Len(<<>>) = 0 /\ <<>> \in Seq(Nat)
BY DEF Run

\* There are two sides.
LEMMA TwoSides ==
  ASSUME NEW s \in Side
  PROVE  /\ Other(s) \in Side /\ Other(s) # s /\ Other(Other(s)) = s
         /\ \A t \in Side : t # s => t = Other(s)
BY DEF Side, Other

-----------------------------------------------------------------------------
(* Types *)

\* The kernel shuts sockets down, and nothing else changes conn.
LEMMA ShutDownType ==
  ASSUME TypeOK, ShutDown
  PROVE  conn' \in [Side -> {"live", "fin", "rst"}]
BY DEF TypeOK, ShutDown

\* What recv takes fits in the thread's buffer.
LEMMA ReceivedType ==
  ASSUME TypeOK, NEW t \in Side, Received(t, "send")
  PROVE  TypeOK'
<1> DEFINE n == Least(Len(rx[t]), PACKET_SIZE)
<1>1. rx[t] \in Seq(Nat) /\ Len(rx[t]) \in Nat /\ Len(rx[t]) <= Buffer
  BY LenProperties DEF TypeOK
<1>2. n \in Nat /\ n <= Len(rx[t]) /\ n <= PACKET_SIZE
  BY <1>1, RelayAssumption DEF Least
<1>3. /\ FirstOf(rx[t], n) \in Seq(Nat) /\ Len(FirstOf(rx[t], n)) = n
      /\ Beyond(rx[t], n) \in Seq(Nat) /\ Len(Beyond(rx[t], n)) = Len(rx[t]) - n
  BY <1>1, <1>2, CutInTwo
<1>4. /\ buf' = [buf EXCEPT ![t] = FirstOf(rx[t], n)]
      /\ rx' = [rx EXCEPT ![t] = Beyond(rx[t], n)]
      /\ pc' = [pc EXCEPT ![t] = "send"]
      /\ UNCHANGED <<process, fd, tx, err, peerVars>>
      /\ conn' \in [Side -> {"live", "fin", "rst"}]
  BY ShutDownType DEF Received, Goto
<1> HIDE DEF n
<1>5. Len(rx[t]) - n <= Buffer
  BY <1>1, <1>2, RelayAssumption
<1> QED
  BY <1>2, <1>3, <1>4, <1>5 DEF TypeOK, peerVars

\* A call takes no more than there is, and than fits.
LEMMA LeastFacts ==
  ASSUME NEW a \in Nat, NEW b \in Nat, NEW size \in Nat, NEW n,
         n = Least(a, size - b), n > 0
  PROVE  n \in Nat /\ n <= a /\ b + n <= size
BY DEF Least

\* Joining two sequences of bytes.
LEMMA Join2 ==
  ASSUME NEW p \in Seq(Nat), NEW q \in Seq(Nat)
  PROVE  p \o q \in Seq(Nat) /\ Len(p \o q) = Len(p) + Len(q)
BY ConcatProperties

\* What send takes fits in the kernel's queue, and the rest in the buffer.
LEMMA SentFacts ==
  ASSUME TypeOK, NEW t \in Side, SendBytes(t)
  PROVE  LET d == Other(t) IN
         /\ Taken(t) \in Nat /\ Taken(t) > 0 /\ Taken(t) <= Len(buf[t])
         /\ Len(tx[d]) + Taken(t) <= Buffer
         /\ tx' = [tx EXCEPT ![d] = tx[d] \o FirstOf(buf[t], Taken(t))]
         /\ buf' = [buf EXCEPT ![t] = Beyond(buf[t], Taken(t))]
         /\ pc' = [pc EXCEPT ![t] = IF TookAll(t) THEN "loop" ELSE "blocked"]
<1>1. /\ buf[t] \in Seq(Nat) /\ Len(buf[t]) \in Nat
      /\ tx[Other(t)] \in Seq(Nat) /\ Len(tx[Other(t)]) \in Nat
      /\ Len(tx[Other(t)]) <= Buffer
  BY LenProperties, TwoSides DEF TypeOK
<1>2. Taken(t) > 0
  BY DEF SendBytes, Sent
<1>3. /\ Taken(t) \in Nat /\ Taken(t) <= Len(buf[t])
      /\ Len(tx[Other(t)]) + Taken(t) <= Buffer
  <2>1. Taken(t) = Least(Len(buf[t]), Buffer - Len(tx[Other(t)]))
    BY DEF Taken
  <2> QED
    BY <1>1, <1>2, <2>1, LeastFacts, RelayAssumption
<1>4. /\ tx' = [tx EXCEPT ![Other(t)] = tx[Other(t)] \o FirstOf(buf[t], Taken(t))]
      /\ buf' = [buf EXCEPT ![t] = Beyond(buf[t], Taken(t))]
      /\ pc' = [pc EXCEPT ![t] = IF TookAll(t) THEN "loop" ELSE "blocked"]
  BY DEF SendBytes, Sent, Goto
<1> QED
  BY <1>2, <1>3, <1>4

\* send keeps the types.
LEMMA SentType ==
  ASSUME TypeOK, NEW t \in Side, SendBytes(t)
  PROVE  TypeOK'
<1> DEFINE d == Other(t)
           n == Taken(t)
           first == FirstOf(buf[t], n)
           rest == Beyond(buf[t], n)
<1>1. /\ d \in Side
      /\ buf[t] \in Seq(Nat) /\ Len(buf[t]) \in Nat /\ Len(buf[t]) <= PACKET_SIZE
      /\ tx[d] \in Seq(Nat) /\ Len(tx[d]) \in Nat
  BY LenProperties, TwoSides DEF TypeOK
<1>2. n \in Nat /\ n > 0 /\ n <= Len(buf[t]) /\ Len(tx[d]) + n <= Buffer
  BY SentFacts
<1>3. first \in Seq(Nat) /\ Len(first) = n /\ rest \in Seq(Nat) /\ Len(rest) = Len(buf[t]) - n
  BY <1>1, <1>2, CutInTwo
<1>4. tx[d] \o first \in Seq(Nat) /\ Len(tx[d] \o first) = Len(tx[d]) + n
  <2> HIDE DEF first
  <2> QED
    BY <1>1, <1>3, Join2
<1>5. /\ tx' = [tx EXCEPT ![d] = tx[d] \o first]
      /\ buf' = [buf EXCEPT ![t] = rest]
      /\ pc' = [pc EXCEPT ![t] = IF TookAll(t) THEN "loop" ELSE "blocked"]
      /\ UNCHANGED <<process, fd, rx, err, peerVars>>
      /\ conn' \in [Side -> {"live", "fin", "rst"}]
  BY SentFacts, ShutDownType DEF SendBytes, Sent
<1> DEFINE joined == tx[d] \o first
<1>6. joined \in Seq(Nat) /\ Len(joined) <= Buffer /\ tx' = [tx EXCEPT ![d] = joined]
  BY <1>2, <1>4, <1>5
<1>7. Len(rest) <= PACKET_SIZE
  BY <1>1, <1>2, <1>3, RelayAssumption
<1>8. IF TookAll(t) THEN pc' = [pc EXCEPT ![t] = "loop"] ELSE pc' = [pc EXCEPT ![t] = "blocked"]
  BY <1>5
<1>9. UNCHANGED <<process, fd, rx, err, peer, sent, got>>
  BY <1>5 DEF peerVars
<1>10. buf' = [buf EXCEPT ![t] = rest]
  BY <1>5
<1> HIDE DEF joined, rest, n, d, first
<1>11. buf' \in [Side -> Seq(Nat)] /\ \A u \in Side : Len(buf'[u]) <= PACKET_SIZE
  BY <1>3, <1>7, <1>10 DEF TypeOK
<1>12. tx' \in [Side -> Seq(Nat)] /\ \A u \in Side : Len(tx'[u]) <= Buffer
  BY <1>1, <1>6 DEF TypeOK
<1>13. pc' \in [Side -> {"loop", "recv", "send", "sending", "blocked",
                        "closeSrc", "closeDst", "done"}]
  BY <1>8 DEF TypeOK
<1> QED
  BY <1>5, <1>9, <1>11, <1>12, <1>13 DEF TypeOK

\* The peers' calls.
LEMMA PeerType ==
  ASSUME TypeOK, NEW s \in Side, Peer(s)
  PROVE  TypeOK'
<1>1. CASE PeerWrites(s)
  <2> DEFINE b == Len(sent[s]) + 1
  <2>1. sent[s] \in Seq(Nat) /\ rx[s] \in Seq(Nat) /\ b \in Nat /\ Len(rx[s]) \in Nat
    BY LenProperties DEF TypeOK
  <2>2. /\ Append(sent[s], b) \in Seq(Nat)
        /\ Append(rx[s], b) \in Seq(Nat) /\ Len(Append(rx[s], b)) = Len(rx[s]) + 1
    BY <2>1, AppendProperties
  <2>3. Len(Append(rx[s], b)) <= Buffer
    BY <1>1, <2>1, <2>2, RelayAssumption DEF PeerWrites
  <2>4. /\ sent' = [sent EXCEPT ![s] = Append(sent[s], b)]
        /\ rx' = [rx EXCEPT ![s] = Append(rx[s], b)]
        /\ UNCHANGED <<relayVars, conn, tx, err, peer, got>>
    BY <1>1 DEF PeerWrites
  <2> HIDE DEF b
  <2> QED
    BY <2>2, <2>3, <2>4 DEF TypeOK, relayVars
<1>2. CASE PeerReads(s)
  <2>1. tx[s] \in Seq(Nat) /\ tx[s] # <<>> /\ got[s] \in Seq(Nat) /\ Len(tx[s]) \in Nat
    BY <1>2, LenProperties DEF TypeOK, PeerReads
  <2>2. Head(tx[s]) \in Nat /\ Tail(tx[s]) \in Seq(Nat) /\ Len(Tail(tx[s])) = Len(tx[s]) - 1
    BY <2>1, HeadTailProperties
  <2>3. Append(got[s], Head(tx[s])) \in Seq(Nat)
    BY <2>1, <2>2, AppendProperties
  <2>4. Len(Tail(tx[s])) <= Buffer
    BY <2>1, <2>2, RelayAssumption DEF TypeOK
  <2> QED
    BY <1>2, <2>2, <2>3, <2>4 DEF TypeOK, PeerReads, relayVars
<1>3. CASE PeerShuts(s)
  BY <1>3 DEF TypeOK, PeerShuts, relayVars, sockVars
<1>4. CASE PeerCloses(s)
  BY <1>4, RunEmpty, RelayAssumption DEF TypeOK, PeerCloses, relayVars
<1> QED
  BY <1>1, <1>2, <1>3, <1>4 DEF Peer

\* The threads' calls that move no bytes out of a queue.
LEMMA CallType ==
  ASSUME TypeOK, NEW t \in Side,
         \/ CallRecv(t) \/ RecvEnds(t) \/ CallSend(t) \/ SendInVain(t) \/ SendShort(t)
         \/ SendFails(t) \/ SendKills(t) \/ CloseSrc(t) \/ CloseDst(t)
  PROVE  TypeOK'
<1>0. Other(t) \in Side
  BY TwoSides
<1>1. CASE CallRecv(t)
  BY <1>1 DEF TypeOK, CallRecv, Goto, sockVars, peerVars
<1>2. CASE RecvEnds(t)
  BY <1>2, ShutDownType DEF TypeOK, RecvEnds, NothingMore, Goto, peerVars
<1>3. CASE CallSend(t)
  BY <1>3 DEF TypeOK, CallSend, Goto, sockVars, peerVars
<1>4. CASE SendInVain(t)
  <2>1. buf' \in [Side -> Seq(Nat)] /\ \A u \in Side : Len(buf'[u]) <= PACKET_SIZE
    BY <1>4, RunEmpty, RelayAssumption DEF TypeOK, SendInVain
  <2> QED
    BY <1>0, <1>4, <2>1, ShutDownType DEF TypeOK, SendInVain, Goto, peerVars
<1>5. CASE SendShort(t)
  BY <1>5, ShutDownType, RunEmpty, RelayAssumption DEF TypeOK, SendShort, Goto, peerVars
<1>6. CASE SendFails(t)
  BY <1>0, <1>6, ShutDownType DEF TypeOK, SendFails, Goto, peerVars
<1>7. CASE SendKills(t)
  BY <1>7, ShutDownType DEF TypeOK, SendKills, peerVars
<1>8. CASE CloseSrc(t)
  BY <1>8, ShutDownType DEF TypeOK, CloseSrc, Goto, peerVars
<1>9. CASE CloseDst(t)
  BY <1>0, <1>9, ShutDownType DEF TypeOK, CloseDst, Goto, peerVars
<1> QED
  BY <1>1, <1>2, <1>3, <1>4, <1>5, <1>6, <1>7, <1>8, <1>9

\* TypeOK is inductive.
LEMMA TypeStep ==
  ASSUME TypeOK, [Next]_vars
  PROVE  TypeOK'
<1>1. CASE \E t \in Side : exchangeData(t)
  BY <1>1, CallType, ReceivedType, SentType DEF exchangeData, RecvBytes
<1>2. CASE \E s \in Side : Peer(s)
  BY <1>2, PeerType
<1>3. CASE \E s \in Side : LoseUnread(s)
  BY <1>3, RunEmpty, RelayAssumption DEF TypeOK, LoseUnread, relayVars, peerVars
<1>4. CASE Join
  BY <1>4 DEF TypeOK, Join, sockVars, peerVars
<1>5. CASE UNCHANGED vars
  BY <1>5 DEF TypeOK, vars, relayVars, sockVars, peerVars
<1> QED
  BY <1>1, <1>2, <1>3, <1>4, <1>5 DEF Next

-----------------------------------------------------------------------------
(* The parts of StreamInv that are about calls and descriptors *)

\* conn only leaves "live", and then nobody has the socket any more.
LEMMA ShutDownFacts ==
  ASSUME TypeOK, ShutDown, NEW s \in Side
  PROVE  /\ conn[s] # "live" => conn'[s] = conn[s]
         /\ conn[s] = "live" /\ conn'[s] # "live" => ~fd'[s] /\ ~InCall(s)'
BY DEF TypeOK, ShutDown

\* The steps of the threads after which the kernel looks whether a socket is
\* still in use.
Ending(t) ==
  \/ RecvBytes(t) \/ RecvEnds(t) \/ SendBytes(t) \/ SendInVain(t) \/ SendShort(t)
  \/ SendFails(t) \/ SendKills(t) \/ CloseSrc(t) \/ CloseDst(t)

\* A thread that left its loop only closes: no descriptor is opened, no call begun.
LEMMA EndingFacts ==
  ASSUME TypeOK, NEW t \in Side, Ending(t), NEW s \in Side
  PROVE  /\ ShutDown
         /\ fd'[s] => fd[s]
         /\ InCall(s)' => InCall(s)
<1>0. Other(s) \in Side /\ Other(t) \in Side
  BY TwoSides
<1>1. CASE RecvBytes(t)
  BY <1>0, <1>1 DEF TypeOK, RecvBytes, Received, Goto, InCall
<1>2. CASE RecvEnds(t)
  BY <1>0, <1>2 DEF TypeOK, RecvEnds, NothingMore, Goto, InCall
<1>3. CASE SendBytes(t)
  BY <1>0, <1>3 DEF TypeOK, SendBytes, Sent, Goto, InCall
<1>4. CASE SendInVain(t)
  BY <1>0, <1>4 DEF TypeOK, SendInVain, Goto, InCall
<1>5. CASE SendShort(t)
  BY <1>0, <1>5 DEF TypeOK, SendShort, Goto, InCall
<1>6. CASE SendFails(t)
  BY <1>0, <1>6 DEF TypeOK, SendFails, Goto, InCall
<1>7. CASE SendKills(t)
  BY <1>0, <1>7 DEF TypeOK, SendKills, InCall
<1>8. CASE CloseSrc(t)
  BY <1>0, <1>8 DEF TypeOK, CloseSrc, Goto, InCall
<1>9. CASE CloseDst(t)
  BY <1>0, <1>9 DEF TypeOK, CloseDst, Goto, InCall
<1> QED
  BY <1>1, <1>2, <1>3, <1>4, <1>5, <1>6, <1>7, <1>8, <1>9 DEF Ending

\* A socket that was shut down stays out of every call.
LEMMA ShutDownStep ==
  ASSUME StreamInv, Next
  PROVE  ShutDownIsFinal'
<1> SUFFICES ASSUME NEW s \in Side, conn'[s] # "live"
             PROVE  ~fd'[s] /\ ~InCall(s)'
  BY DEF ShutDownIsFinal
<1>0. Other(s) \in Side /\ TypeOK /\ (conn[s] # "live" => ~fd[s] /\ ~InCall(s))
  BY TwoSides DEF StreamInv, ShutDownIsFinal
<1>1. ASSUME NEW t \in Side, Ending(t)
      PROVE  ~fd'[s] /\ ~InCall(s)'
  BY <1>0, <1>1, EndingFacts, ShutDownFacts
<1>2. ASSUME NEW t \in Side, CallRecv(t) \/ CallSend(t)
      PROVE  ~fd'[s] /\ ~InCall(s)'
  <2>1. Other(t) \in Side /\ conn'[s] = conn[s] /\ fd'[s] = fd[s]
    BY <1>2, TwoSides DEF CallRecv, CallSend, sockVars
  <2>2. CASE CallRecv(t)
    BY <1>0, <2>1, <2>2 DEF TypeOK, CallRecv, Goto, InCall
  <2>3. CASE CallSend(t)
    BY <1>0, <2>1, <2>3, TwoSides DEF TypeOK, CallSend, Goto, InCall
  <2> QED
    BY <1>2, <2>2, <2>3
<1>3. ASSUME \/ \E x \in Side : Peer(x) \/ LoseUnread(x)
             \/ Join
      PROVE  ~fd'[s] /\ ~InCall(s)'
  <2>1. UNCHANGED <<pc, fd, conn>>
    BY <1>3 DEF Peer, PeerWrites, PeerReads, PeerShuts, PeerCloses, LoseUnread, Join,
                relayVars, sockVars
  <2> QED
    BY <1>0, <2>1 DEF InCall
<1> QED
  BY <1>1, <1>2, <1>3 DEF Next, exchangeData, Ending

\* A thread goes back to recv with nothing left to send.
LEMMA HeldStep ==
  ASSUME StreamInv, Next
  PROVE  NothingHeld'
<1> SUFFICES ASSUME NEW t \in Side, pc'[t] \in {"loop", "recv"}
             PROVE  buf'[t] = <<>>
  BY DEF NothingHeld
<1>0. TypeOK /\ (pc[t] \in {"loop", "recv"} => buf[t] = <<>>)
  BY DEF StreamInv, NothingHeld
<1>1. ASSUME NEW u \in Side, SendBytes(u)
      PROVE  buf'[t] = <<>>
  <2>1. CASE u = t
    <3>1. pc' = [pc EXCEPT ![t] = IF TookAll(t) THEN "loop" ELSE "blocked"]
      BY <1>1, <2>1 DEF SendBytes, Sent, Goto
    <3>2. TookAll(t)
      BY <1>0, <3>1 DEF TypeOK
    <3>3. /\ buf[t] \in Seq(Nat) /\ Len(buf[t]) \in Nat
          /\ buf' = [buf EXCEPT ![t] = Beyond(buf[t], Len(buf[t]))]
      BY <1>0, <1>1, <2>1, <3>2, LenProperties DEF TypeOK, SendBytes, Sent, TookAll
    <3>4. Beyond(buf[t], Len(buf[t])) \in Seq(Nat) /\ Len(Beyond(buf[t], Len(buf[t]))) = 0
      BY <3>3, BeyondAll
    <3>5. Beyond(buf[t], Len(buf[t])) = <<>>
      BY <3>4, EmptySeq
    <3> QED
      BY <1>0, <3>3, <3>5 DEF TypeOK
  <2>2. CASE u # t
    BY <1>0, <1>1, <2>2 DEF TypeOK, SendBytes, Sent, Goto
  <2> QED
    BY <2>1, <2>2
<1>2. ASSUME NEW u \in Side,
             CallRecv(u) \/ RecvBytes(u) \/ RecvEnds(u) \/ CallSend(u)
      PROVE  buf'[t] = <<>>
  BY <1>0, <1>2 DEF TypeOK, CallRecv, RecvBytes, Received, RecvEnds, NothingMore, CallSend, Goto
<1>3. ASSUME NEW u \in Side,
             SendInVain(u) \/ SendShort(u) \/ SendFails(u) \/ SendKills(u) \/ CloseSrc(u) \/ CloseDst(u)
      PROVE  buf'[t] = <<>>
  BY <1>0, <1>3 DEF TypeOK, SendInVain, SendShort, SendFails, SendKills, CloseSrc, CloseDst, Goto
<1>4. ASSUME \/ \E x \in Side : Peer(x) \/ LoseUnread(x)
             \/ Join
      PROVE  buf'[t] = <<>>
  BY <1>0, <1>4 DEF Peer, PeerWrites, PeerReads, PeerShuts, PeerCloses, LoseUnread, Join, relayVars
<1> QED
  BY <1>1, <1>2, <1>3, <1>4 DEF Next, exchangeData

\* Only a peer that closed leaves an error on its socket.
LEMMA RstStep ==
  ASSUME StreamInv, Next
  PROVE  RstOfClosed'
<1> SUFFICES ASSUME NEW s \in Side, err'[s] # "no"
             PROVE  peer'[s] = "closed"
  BY DEF RstOfClosed
<1>0. TypeOK /\ (err[s] # "no" => peer[s] = "closed")
  BY DEF StreamInv, RstOfClosed
<1>1. ASSUME NEW t \in Side, exchangeData(t)
      PROVE  peer'[s] = "closed"
  <2>0. Other(t) \in Side
    BY TwoSides
  <2>1. CASE RecvEnds(t)
    BY <1>0, <2>1 DEF TypeOK, RecvEnds, NothingMore, peerVars
  <2>2. CASE SendInVain(t)
    BY <1>0, <2>0, <2>2 DEF TypeOK, SendInVain, peerVars
  <2>3. CASE SendFails(t)
    BY <1>0, <2>0, <2>3 DEF TypeOK, SendFails, peerVars
  <2>4. CASE ~(RecvEnds(t) \/ SendInVain(t) \/ SendFails(t))
    <3>1. UNCHANGED <<err, peer>>
      BY <1>1, <2>4 DEF exchangeData, CallRecv, RecvBytes, Received, CallSend, SendBytes, Sent,
         SendShort, SendKills, CloseSrc, CloseDst, sockVars, peerVars
    <3> QED
      BY <1>0, <3>1
  <2> QED
    BY <2>1, <2>2, <2>3, <2>4
<1>2. ASSUME NEW x \in Side, Peer(x)
      PROVE  peer'[s] = "closed"
  <2>1. CASE PeerCloses(x)
    BY <1>0, <2>1 DEF TypeOK, PeerCloses
  <2>2. CASE PeerShuts(x)
    BY <1>0, <2>2 DEF TypeOK, PeerShuts, sockVars
  <2>3. CASE PeerWrites(x) \/ PeerReads(x)
    BY <1>0, <2>3 DEF PeerWrites, PeerReads
  <2> QED
    BY <1>2, <2>1, <2>2, <2>3 DEF Peer
<1>3. ASSUME (\E x \in Side : LoseUnread(x)) \/ Join
      PROVE  peer'[s] = "closed"
  BY <1>0, <1>3 DEF LoseUnread, Join, sockVars, peerVars
<1> QED
  BY <1>1, <1>2, <1>3 DEF Next

-----------------------------------------------------------------------------
(* Where the bytes are *)

\* Arithmetic of lengths, for bytes that are dropped.
LEMMA LessToo == \A a, b, c \in Nat : a + b <= c => a + 0 <= c
OBVIOUS

\* Lengths of what is empty.
LEMMA PlusZero == \A a, b \in Nat : a + b + 0 + 0 = a + b /\ a + 0 = a
OBVIOUS

\* A part is no longer than the whole.
LEMMA LessSum == \A a, b, c \in Nat : a + b <= c => a <= c
OBVIOUS

\* The next byte of a run is one of those written.
LEMMA Within ==
  ASSUME NEW k \in Nat, NEW m \in Nat, NEW l \in Nat, m > 0, k + m <= l
  PROVE  k < l /\ k + 1 \in 1 .. l /\ 0 + (k + 1) = k + 1
OBVIOUS

\* Sums of lengths.
LEMMA PlusNat == \A a, b \in Nat : a + b \in Nat
OBVIOUS

\* Lengths when n of m bytes move on.
LEMMA Regroup ==
  ASSUME NEW k \in Nat, NEW m \in Nat, NEW n \in Nat, n <= m
  PROVE  k + m = k + n + (m - n) /\ k + n \in Nat
OBVIOUS

\* A step that moves no bytes of the stream to s keeps it, and so does one after
\* which nothing flows any more, whatever it drops.
LEMMA StreamKept ==
  ASSUME TypeOK, NEW s \in Side, Stream(s), UNCHANGED <<sent, got>>,
         tx'[s] = tx[s] \/ tx'[s] = <<>>,
         Flows(s)' => /\ Flows(s)
                      /\ tx'[s] = tx[s]
                      /\ buf'[Other(s)] = buf[Other(s)]
                      /\ rx'[Other(s)] = rx[Other(s)]
  PROVE  Stream(s)'
<1>1. /\ Len(got[s]) \in Nat /\ Len(tx[s]) \in Nat /\ Len(sent[Other(s)]) \in Nat
  BY TwoSides, LenProperties DEF TypeOK
<1>2. Run(tx'[s], Len(got[s])) /\ Len(got[s]) + Len(tx'[s]) <= Len(sent[Other(s)])
  <2>1. Run(tx[s], Len(got[s])) /\ Len(got[s]) + Len(tx[s]) <= Len(sent[Other(s)])
    BY DEF Stream
  <2>2. CASE tx'[s] = tx[s]
    BY <2>1, <2>2
  <2>3. CASE tx'[s] = <<>>
    <3>1. Len(tx'[s]) = 0 /\ Run(tx'[s], Len(got[s]))
      BY <2>3, RunEmpty
    <3>2. Len(got[s]) + Len(tx[s]) <= Len(sent[Other(s)])
      BY <2>1
    <3>3. Len(got[s]) + 0 <= Len(sent[Other(s)])
      BY <1>1, <3>2, LessToo
    <3> QED
      BY <3>1, <3>3
  <2> QED
    BY <2>2, <2>3
<1>3. /\ Run(sent'[s], 0) /\ Run(got'[s], 0) /\ Run(tx'[s], Len(got'[s]))
      /\ Len(got'[s]) + Len(tx'[s]) <= Len(sent'[Other(s)])
  BY <1>2 DEF Stream
<1>4. ASSUME Flows(s)'
      PROVE  LET delivered == Len(got'[s]) + Len(tx'[s]) IN
             /\ Run(buf'[Other(s)], delivered)
             /\ Run(rx'[Other(s)], delivered + Len(buf'[Other(s)]))
             /\ Len(sent'[Other(s)]) = delivered + Len(buf'[Other(s)]) + Len(rx'[Other(s)])
  BY <1>4 DEF Stream
<1> QED
  BY <1>3, <1>4 DEF Stream, Run

\* The calls of the threads that move no bytes, and the end of the process.
LEMMA CallStream ==
  ASSUME StreamInv, NEW t \in Side, NEW s \in Side,
         \/ CallRecv(t) \/ RecvEnds(t) \/ CallSend(t) \/ SendInVain(t) \/ SendShort(t)
         \/ SendFails(t) \/ SendKills(t) \/ CloseSrc(t) \/ CloseDst(t) \/ Join
  PROVE  Stream(s)'
<1>0. TypeOK /\ Stream(s) /\ RstOfClosed
  BY DEF StreamInv
<1>1. UNCHANGED <<sent, got, tx, rx, peer>>
  BY DEF CallRecv, RecvEnds, NothingMore, CallSend, SendInVain, SendShort, SendFails, SendKills,
         CloseSrc, CloseDst, Join, sockVars, peerVars
<1>2. Flows(s)' => Flows(s) /\ buf'[Other(s)] = buf[Other(s)]
  <2> SUFFICES ASSUME Flows(s)'
               PROVE  Flows(s) /\ buf'[Other(s)] = buf[Other(s)]
    OBVIOUS
  <2>0. Other(s) \in Side /\ Other(t) \in Side /\ Other(Other(t)) = t /\ Other(Other(s)) = s
    BY TwoSides
  <2>1. conn'[s] = "live" /\ err'[s] = "no" /\ peer[s] # "closed" /\ pc'[Other(s)] \in Looping
    BY <1>1 DEF Flows
  <2>2. CASE CallRecv(t)
    BY <1>0, <2>0, <2>1, <2>2 DEF TypeOK, CallRecv, Goto, Flows, Looping, sockVars
  <2>3. CASE RecvEnds(t)
    BY <1>0, <2>0, <2>1, <2>3, ShutDownFacts DEF TypeOK, RecvEnds, NothingMore, Goto, Flows, Looping
  <2>4. CASE CallSend(t)
    BY <1>0, <2>0, <2>1, <2>4 DEF TypeOK, CallSend, Goto, Flows, Looping, sockVars
  <2>5. CASE SendInVain(t)
    BY <1>0, <2>0, <2>1, <2>5, ShutDownFacts DEF TypeOK, SendInVain, Goto, Flows, Looping
  <2>6. CASE SendShort(t)
    BY <1>0, <2>0, <2>1, <2>6, ShutDownFacts DEF TypeOK, SendShort, Goto, Flows, Looping
  <2>7. CASE SendFails(t)
    BY <1>0, <2>0, <2>1, <2>7, ShutDownFacts DEF TypeOK, SendFails, Goto, Flows, Looping
  <2>8. CASE SendKills(t)
    BY <1>0, <2>0, <2>1, <2>8 DEF TypeOK, SendKills, Looping
  <2>9. CASE CloseSrc(t)
    BY <1>0, <2>0, <2>1, <2>9, ShutDownFacts DEF TypeOK, CloseSrc, Goto, Flows, Looping
  <2>10. CASE CloseDst(t)
    BY <1>0, <2>0, <2>1, <2>10, ShutDownFacts DEF TypeOK, CloseDst, Goto, Flows, Looping
  <2>11. CASE Join
    BY <2>1, <2>11 DEF Join, Flows, sockVars
  <2> QED
    BY <2>2, <2>3, <2>4, <2>5, <2>6, <2>7, <2>8, <2>9, <2>10, <2>11
<1> QED
  BY <1>0, <1>1, <1>2, StreamKept, TwoSides

\* recv moves bytes from the kernel's queue to the thread.
LEMMA RecvStream ==
  ASSUME StreamInv, NEW t \in Side, RecvBytes(t), NEW s \in Side
  PROVE  Stream(s)'
<1> DEFINE n == Least(Len(rx[t]), PACKET_SIZE)
           first == FirstOf(rx[t], n)
           rest == Beyond(rx[t], n)
<1>0. /\ TypeOK /\ Stream(s) /\ Other(s) \in Side /\ Other(t) \in Side
      /\ (t = s \/ t = Other(s))
  BY TwoSides DEF StreamInv
<1>1. /\ buf' = [buf EXCEPT ![t] = first] /\ rx' = [rx EXCEPT ![t] = rest]
      /\ pc[t] = "recv" /\ pc' = [pc EXCEPT ![t] = "send"]
      /\ UNCHANGED <<process, fd, tx, err, peer, sent, got>> /\ ShutDown
  BY DEF RecvBytes, Received, Goto, peerVars
<1>2. buf[t] = <<>>
  BY <1>1 DEF StreamInv, NothingHeld
<1>3. rx[t] \in Seq(Nat) /\ Len(rx[t]) \in Nat /\ Len(got[s]) \in Nat /\ Len(tx[s]) \in Nat
  BY <1>0, LenProperties DEF TypeOK
<1>7. n \in Nat /\ n <= Len(rx[t])
  BY <1>3, RelayAssumption DEF Least
<1>4. Flows(s)' => Flows(s)
  BY <1>0, <1>1, ShutDownFacts DEF TypeOK, Flows, Looping
<1>5. CASE t = s
  <2>1. buf'[Other(s)] = buf[Other(s)] /\ rx'[Other(s)] = rx[Other(s)]
    BY <1>0, <1>1, <1>5, TwoSides DEF TypeOK
  <2> QED
    BY <1>0, <1>1, <1>4, <2>1, StreamKept
<1>6. CASE t = Other(s)
  <2> DEFINE k == Len(got[s]) + Len(tx[s])
  <2>1. k \in Nat
    BY <1>3, PlusNat
  <2>2. /\ first \in Seq(Nat) /\ Len(first) = n
        /\ rest \in Seq(Nat) /\ Len(rest) = Len(rx[t]) - n
    BY <1>3, <1>7, CutInTwo
  <2>3. buf'[t] = first /\ rx'[t] = rest
    BY <1>0, <1>1 DEF TypeOK
  <2> HIDE DEF n, k
  <2>4. ASSUME Flows(s)
        PROVE  /\ Run(first, k)
               /\ Run(rest, k + n)
               /\ Len(sent[t]) = k + Len(rx[t])
    <3>1. Run(rx[t], k) /\ Len(sent[t]) = k + Len(rx[t])
      <4>1. Run(rx[t], k + 0) /\ Len(sent[t]) = k + 0 + Len(rx[t])
        BY <1>0, <1>2, <1>6, <2>4, RunEmpty DEF Stream, k
      <4> QED
        BY <1>3, <2>1, <4>1
    <3> QED
      BY <1>3, <1>7, <2>1, <3>1, RunCut
  <2> HIDE DEF first, rest
  <2>5. ASSUME Flows(s)'
        PROVE  /\ Run(buf'[t], k)
               /\ Run(rx'[t], k + Len(buf'[t]))
               /\ Len(sent[t]) = k + Len(buf'[t]) + Len(rx'[t])
    <3>1. Run(first, k) /\ Run(rest, k + n) /\ Len(sent[t]) = k + Len(rx[t])
      BY <1>4, <2>4, <2>5
    <3>2. k + Len(rx[t]) = k + n + (Len(rx[t]) - n)
      BY <1>3, <1>7, <2>1, Regroup
    <3> QED
      BY <2>2, <2>3, <3>1, <3>2
  <2> QED
    BY <1>0, <1>1, <1>6, <2>5 DEF Stream, Run, k
<1> QED
  BY <1>0, <1>5, <1>6

\* The lengths of a stream when n bytes go from the thread's buffer to the queue.
LEMMA SendSums ==
  ASSUME NEW k \in Nat, NEW m \in Nat, NEW b \in Nat, NEW r \in Nat, NEW n \in Nat, n <= b
  PROVE  /\ k + m + n = k + (m + n)
         /\ k + m + b = k + (m + n) + (b - n)
         /\ k + m + b + r = k + (m + n) + (b - n) + r
         /\ k + (m + n) <= k + m + b + r
         /\ k + m \in Nat
OBVIOUS

\* send moves bytes from the thread to the kernel's queue.
LEMMA SendStream ==
  ASSUME StreamInv, NEW t \in Side, SendBytes(t), NEW s \in Side
  PROVE  Stream(s)'
<1> DEFINE d == Other(t)
           n == Taken(t)
           first == FirstOf(buf[t], n)
           rest == Beyond(buf[t], n)
<1>0. /\ TypeOK /\ Stream(s) /\ Other(s) \in Side /\ d \in Side /\ Other(d) = t
      /\ (t = s \/ (t = Other(s) /\ d = s))
  BY TwoSides DEF StreamInv
<1>1. /\ tx' = [tx EXCEPT ![d] = tx[d] \o first]
      /\ buf' = [buf EXCEPT ![t] = rest]
      /\ n \in Nat /\ n <= Len(buf[t])
  BY <1>0, SentFacts
<1>2. /\ UNCHANGED <<process, fd, rx, err, peer, sent, got>> /\ ShutDown
      /\ pc[t] \in {"sending", "blocked"} /\ peer[d] # "closed" /\ err[d] = "no"
      /\ \E label : pc' = [pc EXCEPT ![t] = label]
  BY DEF SendBytes, Sent, Goto, peerVars
<1>3. Flows(d)
  BY <1>0, <1>2 DEF StreamInv, ShutDownIsFinal, InCall, Flows, Looping
<1>4. CASE t = s
  <2>1. tx'[s] = tx[s] /\ buf'[Other(s)] = buf[Other(s)] /\ rx'[Other(s)] = rx[Other(s)]
    BY <1>0, <1>1, <1>2, <1>4, TwoSides DEF TypeOK
  <2>2. Flows(s)' => Flows(s)
    BY <1>0, <1>2, <1>4, ShutDownFacts, TwoSides DEF TypeOK, Flows, Looping
  <2> QED
    BY <1>0, <1>2, <2>1, <2>2, StreamKept
<1>5. CASE t = Other(s) /\ d = s
  <2> DEFINE k == Len(got[s])
             m == Len(tx[s])
             b == Len(buf[t])
             r == Len(rx[t])
  <2>1. /\ tx[s] \in Seq(Nat) /\ buf[t] \in Seq(Nat)
        /\ k \in Nat /\ m \in Nat /\ b \in Nat /\ r \in Nat
    BY <1>0, LenProperties DEF TypeOK
  <2>2. /\ first \in Seq(Nat) /\ Len(first) = n
        /\ rest \in Seq(Nat) /\ Len(rest) = b - n
    BY <1>1, <2>1, CutInTwo
  <2>3. /\ Run(sent[s], 0) /\ Run(got[s], 0)
        /\ Run(tx[s], k) /\ Run(buf[t], k + m) /\ Run(rx[t], k + m + b)
        /\ Len(sent[t]) = k + m + b + r
    BY <1>0, <1>3, <1>5 DEF Stream
  <2>4. buf'[t] = rest /\ tx'[s] = tx[s] \o first
    BY <1>0, <1>1, <1>5 DEF TypeOK
  <2> HIDE DEF n, k, m, b, r, d
  <2>5. /\ k + m + n = k + (m + n)
        /\ k + m + b = k + (m + n) + (b - n)
        /\ k + m + b + r = k + (m + n) + (b - n) + r
        /\ k + (m + n) <= k + m + b + r
        /\ k + m \in Nat
    <3>1. n <= b
      BY <1>1 DEF b
    <3> QED
      BY <1>1, <2>1, <3>1, SendSums
  <2>6. Run(first, k + m) /\ Run(rest, k + m + n)
    <3>1. n <= Len(buf[t]) /\ n \in Nat
      BY <1>1
    <3> QED
      BY <2>1, <2>3, <2>5, <3>1, RunCut
  <2> HIDE DEF first, rest
  <2>7. Run(tx[s] \o first, k) /\ Len(tx[s] \o first) = m + n
    <3>1. Len(tx[s]) = m
      BY DEF m
    <3>2. Run(first, k + Len(tx[s])) /\ k \in Nat
      BY <2>1, <2>6, <3>1
    <3>3. Run(tx[s] \o first, k) /\ Len(tx[s] \o first) = Len(tx[s]) + Len(first)
      BY <2>1, <2>2, <2>3, <3>2, RunJoin
    <3> QED
      BY <2>2, <3>1, <3>3
  <2>8. /\ Run(tx'[s], k) /\ Len(tx'[s]) = m + n
        /\ Run(buf'[t], k + (m + n)) /\ Len(buf'[t]) = b - n
        /\ rx'[t] = rx[t] /\ got'[s] = got[s] /\ sent'[t] = sent[t] /\ sent'[s] = sent[s]
    BY <1>2, <2>2, <2>4, <2>5, <2>6, <2>7
  <2>9. /\ Run(rx'[t], k + (m + n) + (b - n))
        /\ Len(sent'[t]) = k + (m + n) + (b - n) + r
        /\ k + (m + n) <= Len(sent'[t])
    BY <2>3, <2>5, <2>8
  <2>10. /\ Run(sent'[s], 0) /\ Run(got'[s], 0)
         /\ Run(tx'[s], Len(got'[s]))
         /\ Len(got'[s]) + Len(tx'[s]) <= Len(sent'[t])
    BY <2>3, <2>8, <2>9 DEF k
  <2>11. /\ Run(buf'[t], Len(got'[s]) + Len(tx'[s]))
         /\ Run(rx'[t], Len(got'[s]) + Len(tx'[s]) + Len(buf'[t]))
         /\ Len(sent'[t]) = Len(got'[s]) + Len(tx'[s]) + Len(buf'[t]) + Len(rx'[t])
    BY <2>8, <2>9 DEF k, r
  <2> QED
    BY <1>5, <2>10, <2>11 DEF Stream, Run
<1> QED
  BY <1>0, <1>4, <1>5

\* The lengths of a stream that grows by a byte.
LEMMA WriteSums ==
  ASSUME NEW d \in Nat, NEW b \in Nat, NEW r \in Nat, NEW l \in Nat
  PROVE  /\ d <= l => d <= l + 1
         /\ l = d + b + r => l + 1 = d + b + r + 1 /\ l + 1 = d + b + (r + 1)
         /\ d + b \in Nat
         /\ 0 + l + 1 = l + 1
OBVIOUS

\* A peer writes: the stream to the other side grows.
LEMMA WriteStream ==
  ASSUME StreamInv, NEW x \in Side, PeerWrites(x), NEW s \in Side
  PROVE  Stream(s)'
<1> DEFINE l == Len(sent[x])
           wrote == Append(sent[x], l + 1)
<1>0. TypeOK /\ Stream(s) /\ Stream(x) /\ Other(s) \in Side /\ (x = s \/ x = Other(s))
  BY TwoSides DEF StreamInv
<1>1. /\ sent[x] \in Seq(Nat) /\ l \in Nat /\ l + 1 \in Nat /\ 0 \in Nat
      /\ Run(sent[x], 0)
  BY <1>0, LenProperties DEF TypeOK, Stream
<1>2. /\ sent' = [sent EXCEPT ![x] = wrote]
      /\ rx' = [rx EXCEPT ![x] = Append(rx[x], l + 1)]
      /\ UNCHANGED <<process, pc, buf, fd, conn, tx, err, peer, got>>
  BY DEF PeerWrites, relayVars
<1>3. Len(wrote) = l + 1 /\ Run(wrote, 0)
  <2>1. l + 1 = 0 + Len(sent[x]) + 1
    BY <1>1
  <2> QED
    BY <1>1, <2>1, RunAppend
<1>4. sent'[x] = wrote
  BY <1>0, <1>2 DEF TypeOK
<1> HIDE DEF wrote
<1>5. CASE x = s
  <2>1. /\ sent'[s] = wrote /\ sent'[Other(s)] = sent[Other(s)]
        /\ rx'[Other(s)] = rx[Other(s)] /\ (Flows(s)' <=> Flows(s))
    BY <1>0, <1>2, <1>4, <1>5, TwoSides DEF TypeOK, Flows
  <2>2. got'[s] = got[s] /\ tx'[s] = tx[s] /\ buf'[Other(s)] = buf[Other(s)]
    BY <1>2
  <2>3. Run(sent'[s], 0)
    BY <1>3, <2>1
  <2> QED
    BY <1>0, <2>1, <2>2, <2>3 DEF Stream, Run
<1>6. CASE x = Other(s)
  <2> DEFINE d == Len(got[s]) + Len(tx[s])
             b == Len(buf[x])
             r == Len(rx[x])
  <2>1. /\ rx[x] \in Seq(Nat) /\ r \in Nat /\ b \in Nat
        /\ Len(got[s]) \in Nat /\ Len(tx[s]) \in Nat
    BY <1>0, LenProperties DEF TypeOK
  <2>2. d \in Nat
    BY <2>1, PlusNat
  <2>3. /\ sent'[s] = sent[s] /\ rx'[x] = Append(rx[x], l + 1)
        /\ (Flows(s)' <=> Flows(s))
    BY <1>0, <1>2, <1>6, TwoSides DEF TypeOK, Flows
  <2>4. /\ Run(sent[s], 0) /\ Run(got[s], 0) /\ Run(tx[s], Len(got[s]))
        /\ d <= l
        /\ Flows(s) => Run(buf[x], d) /\ Run(rx[x], d + b) /\ l = d + b + r
    BY <1>0, <1>6 DEF Stream
  <2> HIDE DEF d, b, l
  <2>5. Flows(s) => /\ Run(Append(rx[x], l + 1), d + b)
                    /\ Len(Append(rx[x], l + 1)) = r + 1
                    /\ l + 1 = d + b + (r + 1)
    <3> SUFFICES ASSUME Flows(s)
                 PROVE  /\ Run(Append(rx[x], l + 1), d + b)
                        /\ Len(Append(rx[x], l + 1)) = r + 1
                        /\ l + 1 = d + b + (r + 1)
      OBVIOUS
    <3>1. Run(rx[x], d + b) /\ l = d + b + r
      BY <2>4
    <3> HIDE DEF r
    <3>2. l + 1 = d + b + r + 1 /\ l + 1 = d + b + (r + 1) /\ d + b \in Nat
      BY <1>1, <2>1, <2>2, <3>1, WriteSums
    <3>3. l + 1 = d + b + Len(rx[x]) + 1
      BY <3>2 DEF r
    <3> QED
      BY <1>1, <2>1, <3>1, <3>2, <3>3, RunAppend DEF r
  <2>6. d <= l + 1
    <3> HIDE DEF r
    <3> QED
      BY <1>1, <2>1, <2>2, <2>4, WriteSums
  <2>7. /\ sent'[x] = wrote /\ got'[s] = got[s] /\ tx'[s] = tx[s] /\ buf'[x] = buf[x]
        /\ Len(sent'[x]) = l + 1
    BY <1>2, <1>3, <1>4
  <2> HIDE DEF r
  <2>8. /\ Len(got'[s]) + Len(tx'[s]) = d /\ Len(buf'[x]) = b
        /\ Run(sent'[s], 0) /\ Run(got'[s], 0) /\ Run(tx'[s], Len(got'[s]))
    BY <2>3, <2>4, <2>7 DEF d, b
  <2>9. Flows(s)' => /\ Run(buf'[x], d) /\ Run(rx'[x], d + b)
                     /\ Len(sent'[x]) = d + b + Len(rx'[x])
    BY <2>3, <2>4, <2>5, <2>7
  <2> QED
    BY <1>6, <2>6, <2>7, <2>8, <2>9 DEF Stream, Run
<1> QED
  BY <1>0, <1>5, <1>6

\* The lengths of a stream when a byte is read.
LEMMA ReadSums ==
  ASSUME NEW g \in Nat, NEW q \in Nat, q > 0
  PROVE  (g + 1) + (q - 1) = g + q
OBVIOUS

\* A peer reads: the byte changes from the kernel's queue to what it has got.
LEMMA ReadStream ==
  ASSUME StreamInv, NEW x \in Side, PeerReads(x), NEW s \in Side
  PROVE  /\ Stream(s)'
         /\ Len(got'[s]) + Len(tx'[s]) = Len(got[s]) + Len(tx[s])
<1>0. TypeOK /\ Stream(s) /\ Other(s) \in Side
  BY TwoSides DEF StreamInv
<1>1. /\ tx[x] # <<>>
      /\ got' = [got EXCEPT ![x] = Append(got[x], Head(tx[x]))]
      /\ tx' = [tx EXCEPT ![x] = Tail(tx[x])]
      /\ UNCHANGED <<process, pc, buf, fd, conn, rx, err, peer, sent>>
  BY DEF PeerReads, relayVars
<1>2. Flows(s)' <=> Flows(s)
  BY <1>1 DEF Flows
<1>3. CASE x # s
  <2>1. got'[s] = got[s] /\ tx'[s] = tx[s]
    BY <1>0, <1>1, <1>3 DEF TypeOK
  <2> QED
    BY <1>0, <1>1, <1>2, <2>1 DEF Stream, Run
<1>4. CASE x = s
  <2> DEFINE k == Len(got[s])
  <2>1. got[s] \in Seq(Nat) /\ tx[s] \in Seq(Nat) /\ k \in Nat /\ Len(tx[s]) \in Nat /\ 0 \in Nat
    BY <1>0, LenProperties DEF TypeOK
  <2>2. Run(got[s], 0) /\ Run(tx[s], k)
    BY <1>0 DEF Stream
  <2>3. /\ Head(tx[s]) = k + 1 /\ Len(tx[s]) > 0
        /\ Len(Tail(tx[s])) = Len(tx[s]) - 1 /\ Run(Tail(tx[s]), k + 1)
    BY <1>1, <1>4, <2>1, <2>2, RunTail
  <2>4. /\ Len(Append(got[s], Head(tx[s]))) = k + 1
        /\ Run(Append(got[s], Head(tx[s])), 0)
    <3>1. Head(tx[s]) \in Nat /\ Head(tx[s]) = 0 + Len(got[s]) + 1
      BY <2>1, <2>3
    <3> QED
      BY <2>1, <2>2, <3>1, RunAppend
  <2>5. got'[s] = Append(got[s], Head(tx[s])) /\ tx'[s] = Tail(tx[s])
    BY <1>0, <1>1, <1>4 DEF TypeOK
  <2>6. Len(got'[s]) = k + 1 /\ Run(got'[s], 0) /\ Run(tx'[s], k + 1)
    BY <2>3, <2>4, <2>5
  <2>7. Len(got'[s]) + Len(tx'[s]) = Len(got[s]) + Len(tx[s])
    <3>1. Len(tx'[s]) = Len(tx[s]) - 1
      BY <2>3, <2>5
    <3>2. (k + 1) + (Len(tx[s]) - 1) = k + Len(tx[s])
      <4> HIDE DEF k
      <4> QED
        BY <2>1, <2>3, ReadSums
    <3> QED
      BY <2>6, <3>1, <3>2
  <2> QED
    BY <1>0, <1>1, <1>2, <2>6, <2>7 DEF Stream, Run
<1> QED
  BY <1>3, <1>4

\* Every step keeps each of the two streams whole.
LEMMA StreamStep ==
  ASSUME StreamInv, Next, NEW s \in Side
  PROVE  Stream(s)'
<1>0. TypeOK /\ Stream(s) /\ Other(s) \in Side
  BY TwoSides DEF StreamInv
<1>1. ASSUME NEW x \in Side, PeerShuts(x)
      PROVE  Stream(s)'
  <2>1. /\ UNCHANGED <<pc, buf, conn, rx, tx, err, sent, got>>
        /\ peer' = [peer EXCEPT ![x] = "shut"]
    BY <1>1 DEF PeerShuts, relayVars, sockVars
  <2>2. peer[x] = "open"
    BY <1>1 DEF PeerShuts
  <2>3. Flows(s)' => Flows(s)
    BY <1>0, <2>1, <2>2 DEF TypeOK, Flows
  <2> QED
    BY <1>0, <2>1, <2>3, StreamKept
<1>2. ASSUME NEW x \in Side, PeerCloses(x)
      PROVE  Stream(s)'
  <2>1. /\ UNCHANGED <<pc, buf, conn, rx, sent, got>>
        /\ peer' = [peer EXCEPT ![x] = "closed"]
        /\ tx' = [tx EXCEPT ![x] = <<>>]
    BY <1>2 DEF PeerCloses, relayVars
  <2>2. err'[s] = "no" => err[s] = "no"
    BY <1>0, <1>2 DEF TypeOK, PeerCloses
  <2>3. Flows(s)' => Flows(s) /\ tx'[s] = tx[s]
    BY <1>0, <2>1, <2>2 DEF TypeOK, Flows
  <2>4. tx'[s] = tx[s] \/ tx'[s] = <<>>
    BY <1>0, <2>1 DEF TypeOK
  <2> QED
    BY <1>0, <2>1, <2>3, <2>4, StreamKept
<1>3. ASSUME NEW x \in Side, LoseUnread(x)
      PROVE  Stream(s)'
  <2>1. /\ UNCHANGED <<pc, buf, conn, rx, err, peer, sent, got>>
        /\ tx' = [tx EXCEPT ![x] = <<>>]
        /\ conn[x] = "rst"
    BY <1>3 DEF LoseUnread, relayVars, peerVars
  <2>2. Flows(s)' => Flows(s) /\ tx'[s] = tx[s]
    BY <1>0, <2>1 DEF TypeOK, Flows
  <2>3. tx'[s] = tx[s] \/ tx'[s] = <<>>
    BY <1>0, <2>1 DEF TypeOK
  <2> QED
    BY <1>0, <2>1, <2>2, <2>3, StreamKept
<1> QED
  BY <1>1, <1>2, <1>3, CallStream, RecvStream, SendStream, WriteStream, ReadStream
     DEF Next, exchangeData, Peer

-----------------------------------------------------------------------------
(* Who ends first *)

\* The steps that leave the counts alone, and which thread each takes out of
\* its loop.
LEMMA CallOrderly ==
  ASSUME StreamInv, NEW t \in Side, NEW s \in Side,
         \/ CallRecv(t) \/ RecvBytes(t) \/ RecvEnds(t) \/ CallSend(t) \/ SendInVain(t)
         \/ SendShort(t) \/ SendFails(t) \/ SendKills(t) \/ CloseSrc(t) \/ CloseDst(t) \/ Join
  PROVE  Orderly(s)'
<1> DEFINE o == Other(s)
<1>0. /\ TypeOK /\ Orderly(s) /\ Stream(s) /\ ShutDownIsFinal /\ NothingHeld /\ RstOfClosed
      /\ o \in Side /\ o # s /\ Other(t) \in Side /\ (t = s \/ t = o)
      /\ (t = s => Other(t) = o) /\ (t = o => Other(t) = s)
  BY TwoSides DEF StreamInv
<1>1. UNCHANGED <<sent, got, tx, peer>>
  BY DEF CallRecv, RecvBytes, Received, RecvEnds, NothingMore, CallSend, SendInVain, SendShort,
         SendFails, SendKills, CloseSrc, CloseDst, Join, sockVars, peerVars
<1> SUFFICES ASSUME peer[s] = "open", err'[o] = "no"
             PROVE  /\ process' # "killed"
                    /\ pc'[s] \notin Looping \/ ~fd'[s] \/ ~fd'[o] => pc'[o] \notin Looping
                    /\ pc'[o] \notin Looping =>
                         /\ peer[o] # "open"
                         /\ conn'[s] # "rst" => Len(got[s]) + Len(tx[s]) = Len(sent[o])
  BY <1>1 DEF Orderly
<1>2. err[s] = "no"
  BY <1>0 DEF RstOfClosed
<1>3. ASSUME err[o] = "no"
      PROVE  /\ process # "killed"
             /\ pc[s] \notin Looping \/ ~fd[s] \/ ~fd[o] => pc[o] \notin Looping
             /\ pc[o] \notin Looping =>
                  /\ peer[o] # "open"
                  /\ conn[s] # "rst" => Len(got[s]) + Len(tx[s]) = Len(sent[o])
  BY <1>0, <1>3 DEF Orderly
<1> DEFINE Whole == Len(got[s]) + Len(tx[s]) = Len(sent[o])
<1>4. conn'[s] # "rst" => conn[s] # "rst"
  BY <1>0, ShutDownFacts DEF CallRecv, RecvBytes, Received, RecvEnds, NothingMore, CallSend,
     SendInVain, SendShort, SendFails, SendKills, CloseSrc, CloseDst, Join, sockVars
<1> HIDE DEF Whole
<1>5. CASE CallRecv(t)
  <2>1. err[o] = "no"
    BY <1>5 DEF CallRecv, sockVars
  <2> QED
    BY <1>0, <1>3, <1>4, <1>5, <2>1 DEF TypeOK, CallRecv, Goto, Looping, Whole
<1>6. CASE RecvBytes(t)
  <2>1. err[o] = "no"
    BY <1>6 DEF RecvBytes, Received
  <2> QED
    BY <1>0, <1>3, <1>4, <1>6, <2>1 DEF TypeOK, RecvBytes, Received, Goto, Looping, Whole
<1>7. CASE RecvEnds(t)
  <2>1. /\ UNCHANGED <<process, buf, fd, rx>> /\ pc[t] = "recv" /\ rx[t] = <<>>
        /\ pc' = [pc EXCEPT ![t] = "closeSrc"]
        /\ peer[t] # "open" \/ err[t] # "no"
    BY <1>7 DEF RecvEnds, NothingMore, Goto
  <2>2. err[o] = "no"
    BY <1>0, <1>7 DEF TypeOK, RecvEnds, NothingMore
  <2>3. t = o
    BY <1>0, <1>2, <2>1
  <2>4. Whole
    <3>1. Flows(s)
      <4>1. conn[s] = "live"
        BY <1>0, <1>3, <2>1, <2>2, <2>3 DEF ShutDownIsFinal, Looping
      <4> QED
        BY <1>2, <2>1, <2>3, <4>1 DEF Flows, Looping
    <3>2. buf[o] = <<>> /\ rx[o] = <<>>
      BY <1>0, <2>1, <2>3 DEF NothingHeld
    <3>3. Len(sent[o]) = Len(got[s]) + Len(tx[s]) + Len(buf[o]) + Len(rx[o])
      BY <1>0, <3>1 DEF Stream
    <3>4. Len(sent[o]) = Len(got[s]) + Len(tx[s]) + 0 + 0
      BY <3>2, <3>3, RunEmpty
    <3>5. Len(got[s]) \in Nat /\ Len(tx[s]) \in Nat
      BY <1>0, LenProperties DEF TypeOK
    <3> QED
      BY <3>4, <3>5, PlusZero DEF Whole
  <2>5. peer[o] # "open"
    BY <1>0, <2>1, <2>2, <2>3
  <2>6. pc'[o] \notin Looping
    BY <1>0, <2>1, <2>3 DEF TypeOK, Looping
  <2> QED
    BY <1>3, <2>1, <2>2, <2>4, <2>5, <2>6 DEF Whole
<1>8. CASE CallSend(t)
  <2>1. err[o] = "no"
    BY <1>8 DEF CallSend, sockVars
  <2> QED
    BY <1>0, <1>3, <1>4, <1>8, <2>1 DEF TypeOK, CallSend, Goto, Looping, Whole
<1>9. CASE SendInVain(t)
  BY <1>0, <1>9 DEF TypeOK, SendInVain
<1>10. CASE SendShort(t)
  BY <1>0, <1>2, <1>10 DEF TypeOK, SendShort
<1>11. CASE SendFails(t)
  BY <1>0, <1>2, <1>11 DEF TypeOK, SendFails
<1>12. CASE SendKills(t)
  BY <1>0, <1>2, <1>12 DEF TypeOK, SendKills
<1>13. CASE CloseSrc(t)
  <2>1. err[o] = "no"
    BY <1>13 DEF CloseSrc
  <2> QED
    BY <1>0, <1>3, <1>4, <1>13, <2>1 DEF TypeOK, CloseSrc, Goto, Looping, Whole
<1>14. CASE CloseDst(t)
  <2>1. err[o] = "no"
    BY <1>14 DEF CloseDst
  <2> QED
    BY <1>0, <1>3, <1>4, <1>14, <2>1 DEF TypeOK, CloseDst, Goto, Looping, Whole
<1>15. CASE Join
  <2>1. UNCHANGED <<pc, fd, conn, err>> /\ process' = "exited"
    BY <1>15 DEF Join, sockVars
  <2> QED
    BY <1>3, <2>1
<1> QED
  BY <1>5, <1>6, <1>7, <1>8, <1>9, <1>10, <1>11, <1>12, <1>13, <1>14, <1>15

\* While a thread loops, the count of what it passed on does not matter.
LEMMA SendOrderly ==
  ASSUME StreamInv, NEW t \in Side, SendBytes(t), NEW s \in Side
  PROVE  Orderly(s)'
<1> DEFINE o == Other(s)
<1>0. /\ TypeOK /\ Orderly(s) /\ o \in Side /\ o # s /\ Other(t) \in Side /\ (t = s \/ t = o)
      /\ (t = s => Other(t) = o) /\ (t = o => Other(t) = s)
  BY TwoSides DEF StreamInv
<1>1. /\ UNCHANGED <<process, fd, err, peer, sent, got>>
      /\ ShutDown
      /\ pc[t] \in Looping
      /\ pc' = [pc EXCEPT ![t] = "loop"] \/ pc' = [pc EXCEPT ![t] = "blocked"]
      /\ tx' = [tx EXCEPT ![Other(t)] = tx[Other(t)] \o FirstOf(buf[t], Taken(t))]
  BY DEF SendBytes, Sent, Goto, Looping, peerVars
<1>2. \A u \in Side : pc'[u] \in Looping <=> pc[u] \in Looping
  BY <1>0, <1>1 DEF TypeOK, Looping
<1>3. conn'[s] # "rst" => conn[s] # "rst"
  BY <1>1, ShutDownFacts, <1>0
<1>4. CASE t = o
  BY <1>0, <1>1, <1>2, <1>4 DEF Orderly
<1>5. CASE t = s
  <2>1. tx'[s] = tx[s]
    BY <1>0, <1>1, <1>5 DEF TypeOK
  <2> QED
    BY <1>0, <1>1, <1>2, <1>3, <2>1 DEF Orderly
<1> QED
  BY <1>0, <1>4, <1>5

\* The peers and the loss of unread bytes.
LEMMA PeerOrderly ==
  ASSUME StreamInv, NEW x \in Side, Peer(x) \/ LoseUnread(x), NEW s \in Side
  PROVE  Orderly(s)'
<1> DEFINE o == Other(s)
<1>0. TypeOK /\ Orderly(s) /\ o \in Side /\ o # s /\ (x = s \/ x = o)
  BY TwoSides DEF StreamInv
<1>1. UNCHANGED <<process, pc, fd, conn>>
  BY DEF Peer, PeerWrites, PeerReads, PeerShuts, PeerCloses, LoseUnread, relayVars, sockVars
<1>2. CASE PeerWrites(x)
  <2>1. UNCHANGED <<tx, err, peer, got>> /\ peer[x] = "open"
    BY <1>2 DEF PeerWrites
  <2>2. x = s => sent'[o] = sent[o]
    BY <1>0, <1>2 DEF TypeOK, PeerWrites
  <2> QED
    BY <1>0, <1>1, <2>1, <2>2 DEF Orderly
<1>3. CASE PeerReads(x)
  <2>1. UNCHANGED <<err, peer, sent>>
    BY <1>3 DEF PeerReads
  <2>2. Len(got'[s]) + Len(tx'[s]) = Len(got[s]) + Len(tx[s])
    BY <1>3, ReadStream
  <2> QED
    BY <1>0, <1>1, <2>1, <2>2 DEF Orderly
<1>4. CASE PeerShuts(x)
  <2>1. UNCHANGED <<err, sent, got, tx>> /\ peer' = [peer EXCEPT ![x] = "shut"]
    BY <1>4 DEF PeerShuts, sockVars
  <2> QED
    BY <1>0, <1>1, <2>1 DEF Orderly, TypeOK
<1>5. CASE PeerCloses(x)
  <2>1. UNCHANGED <<sent, got>> /\ peer' = [peer EXCEPT ![x] = "closed"]
        /\ tx' = [tx EXCEPT ![x] = <<>>]
    BY <1>5 DEF PeerCloses
  <2>2. err'[o] = "no" => err[o] = "no"
    BY <1>0, <1>5 DEF TypeOK, PeerCloses
  <2> QED
    BY <1>0, <1>1, <2>1, <2>2 DEF Orderly, TypeOK
<1>6. CASE LoseUnread(x)
  <2>1. UNCHANGED <<sent, got, err, peer>> /\ tx' = [tx EXCEPT ![x] = <<>>] /\ conn[x] = "rst"
    BY <1>6 DEF LoseUnread, peerVars
  <2> QED
    BY <1>0, <1>1, <2>1 DEF Orderly, TypeOK
<1> QED
  BY <1>2, <1>3, <1>4, <1>5, <1>6 DEF Peer

-----------------------------------------------------------------------------
(* The theorems *)

\* No byte was written at first.
LEMMA StreamInvInit == Init => StreamInv
<1> SUFFICES ASSUME Init
             PROVE  StreamInv
  OBVIOUS
<1>1. TypeOK
  BY RunEmpty, RelayAssumption DEF Init, TypeOK
<1>2. ShutDownIsFinal /\ NothingHeld /\ RstOfClosed
  BY DEF Init, ShutDownIsFinal, NothingHeld, RstOfClosed
<1>3. ASSUME NEW s \in Side
      PROVE  Stream(s) /\ Orderly(s)
  <2>1. /\ Other(s) \in Side
        /\ sent[s] = <<>> /\ got[s] = <<>> /\ tx[s] = <<>> /\ sent[Other(s)] = <<>>
        /\ buf[Other(s)] = <<>> /\ rx[Other(s)] = <<>> /\ Len(<<>>) = 0
    BY TwoSides, RunEmpty DEF Init
  <2>2. Stream(s)
    BY <2>1, RunEmpty DEF Stream
  <2>3. Orderly(s)
    BY <2>1 DEF Init, Orderly, Looping
  <2> QED
    BY <2>2, <2>3
<1> QED
  BY <1>1, <1>2, <1>3 DEF StreamInv

\* StreamInv is inductive.
LEMMA StreamInvStep == StreamInv /\ [Next]_vars => StreamInv'
<1>1. ASSUME StreamInv, Next
      PROVE  StreamInv'
  <2>1. TypeOK'
    BY <1>1, TypeStep DEF StreamInv
  <2>2. \A s \in Side : Orderly(s)'
    BY <1>1, CallOrderly, SendOrderly, PeerOrderly DEF Next, exchangeData
  <2>3. \A s \in Side : Stream(s)'
    BY <1>1, StreamStep
  <2> QED
    BY <1>1, <2>1, <2>2, <2>3, ShutDownStep, HeldStep, RstStep DEF StreamInv
<1>2. ASSUME StreamInv, UNCHANGED vars
      PROVE  StreamInv'
  BY <1>2 DEF StreamInv, TypeOK, ShutDownIsFinal, InCall, NothingHeld, RstOfClosed, Stream, Run,
              Flows, Orderly, vars, relayVars, sockVars, peerVars
<1> QED
  BY <1>1, <1>2

\* The bytes of both directions are always accounted for, and a thread of
\* exchangeData only ends first when the program it receives from did.
THEOREM StreamInvariant == Spec => []StreamInv
BY StreamInvInit, StreamInvStep, PTL DEF Spec

\* A program reads a beginning of what the other wrote (exchangeData).
THEOREM BytesInOrder == Spec => []InOrder
<1>1. StreamInv => InOrder
  <2> SUFFICES ASSUME StreamInv, NEW s \in Side
               PROVE  /\ Len(got[s]) <= Len(sent[Other(s)])
                      /\ \A i \in 1 .. Len(got[s]) : got[s][i] = sent[Other(s)][i]
    BY DEF InOrder
  <2>1. /\ Other(s) \in Side /\ Run(sent[Other(s)], 0) /\ Run(got[s], 0)
        /\ Len(got[s]) + Len(tx[s]) <= Len(sent[Other(s)])
    BY TwoSides DEF StreamInv, Stream
  <2>2. Len(got[s]) \in Nat /\ Len(tx[s]) \in Nat /\ Len(sent[Other(s)]) \in Nat
    BY <2>1, LenProperties DEF StreamInv, TypeOK
  <2>3. Len(got[s]) <= Len(sent[Other(s)])
    BY <2>1, <2>2, LessSum
  <2>4. \A i \in 1 .. Len(got[s]) : i \in 1 .. Len(sent[Other(s)])
    BY <2>2, <2>3
  <2> QED
    BY <2>1, <2>3, <2>4 DEF Run
<1> QED
  BY <1>1, StreamInvariant, PTL

\* Where a program that goes on reads an end of file, it has everything
\* (exchangeData, facilitateConnection).
THEOREM EndsAreWhole == Spec => []EndIsWhole
<1>1. StreamInv => EndIsWhole
  <2> SUFFICES ASSUME StreamInv, NEW s \in Side,
                      conn[s] = "fin", tx[s] = <<>>, peer[s] = "open", err[Other(s)] = "no"
               PROVE  got[s] = sent[Other(s)]
    BY DEF EndIsWhole
  <2>1. /\ TypeOK /\ ShutDownIsFinal /\ Orderly(s) /\ Other(s) \in Side
        /\ Run(sent[Other(s)], 0) /\ Run(got[s], 0)
    BY TwoSides DEF StreamInv, Stream
  <2>2. ~fd[s]
    BY <2>1 DEF ShutDownIsFinal
  <2>3. Len(got[s]) + Len(tx[s]) = Len(sent[Other(s)])
    BY <2>1, <2>2 DEF Orderly
  <2>4. Len(got[s]) \in Nat /\ Len(tx[s]) = 0
    BY <2>1, LenProperties, RunEmpty DEF TypeOK
  <2>5. Len(got[s]) = Len(sent[Other(s)])
    BY <2>3, <2>4, PlusZero
  <2>6. got[s] \in Seq(Nat) /\ sent[Other(s)] \in Seq(Nat)
    BY <2>1 DEF TypeOK
  <2>7. \A i \in 1 .. Len(got[s]) : got[s][i] = sent[Other(s)][i]
    BY <2>1, <2>5 DEF Run
  <2> QED
    BY <2>5, <2>6, <2>7, SeqEqual
<1> QED
  BY <1>1, StreamInvariant, PTL

-----------------------------------------------------------------------------
(* The relay implements Pipe *)

Ended == {s \in Side : peer[s] # "open"}
CutOff == {s \in Side : conn[s] # "live"}

\* No connection is shut down before one of the programs made an end.
LEMMA CutAfterEnd ==
  ASSUME StreamInv', NEW s \in Side, conn'[s] # "live"
  PROVE  Ended' # {}
<1>1. ~fd'[s] /\ Other(s) \in Side
  BY TwoSides DEF StreamInv, ShutDownIsFinal
<1>2. CASE peer'[s] = "open" /\ err'[Other(s)] = "no"
  BY <1>1, <1>2 DEF StreamInv, Orderly, Ended
<1>3. CASE ~(peer'[s] = "open" /\ err'[Other(s)] = "no")
  BY <1>1, <1>3 DEF StreamInv, RstOfClosed, Ended
<1> QED
  BY <1>2, <1>3

\* What a peer reads is the next byte of the other side.
LEMMA NextByte ==
  ASSUME StreamInv, NEW s \in Side, tx[s] # <<>>
  PROVE  /\ Len(got[s]) < Len(sent[Other(s)])
         /\ Head(tx[s]) = sent[Other(s)][Len(got[s]) + 1]
<1> DEFINE k == Len(got[s])
<1>1. /\ Other(s) \in Side /\ Run(sent[Other(s)], 0) /\ Run(tx[s], k)
      /\ k + Len(tx[s]) <= Len(sent[Other(s)])
  BY TwoSides DEF StreamInv, Stream
<1>2. /\ tx[s] \in Seq(Nat) /\ k \in Nat /\ Len(tx[s]) \in Nat
      /\ Len(sent[Other(s)]) \in Nat
  BY <1>1, LenProperties DEF StreamInv, TypeOK
<1>3. Head(tx[s]) = k + 1 /\ Len(tx[s]) > 0
  BY <1>1, <1>2, RunTail
<1> HIDE DEF k
<1>4. k < Len(sent[Other(s)]) /\ k + 1 \in 1 .. Len(sent[Other(s)]) /\ 0 + (k + 1) = k + 1
  BY <1>1, <1>2, <1>3, Within
<1>5. sent[Other(s)][k + 1] = k + 1
  BY <1>1, <1>4 DEF Run
<1> QED
  BY <1>3, <1>4, <1>5 DEF k

\* A relay starts as an empty pipe.
LEMMA PipeInit == Init => P!Init
BY DEF Init, P!Init, Side, P!Side

\* The steps that only the abstract cut can see.
LEMMA PipeCut ==
  ASSUME StreamInv, StreamInv', UNCHANGED <<sent, got, peer>>,
         \A s \in Side : conn[s] # "live" => conn'[s] = conn[s]
  PROVE  P!Next \/ UNCHANGED <<sent, got, Ended, CutOff>>
<1>1. UNCHANGED Ended
  BY DEF Ended
<1>2. CASE CutOff' = CutOff
  BY <1>1, <1>2
<1>3. CASE CutOff' # CutOff
  <2>1. CutOff \subseteq CutOff'
    BY DEF CutOff
  <2>2. Ended' # {}
    <3>1. \E s \in Side : conn'[s] # "live"
      BY <1>3, <2>1 DEF CutOff
    <3> QED
      BY <3>1, CutAfterEnd
  <2>3. CutOff' \in SUBSET P!Side /\ CutOff' = CutOff \cup CutOff'
    BY <2>1 DEF CutOff, Side, P!Side
  <2>4. P!Cut
    BY <1>1, <2>2, <2>3 DEF P!Cut, Ended, CutOff
  <2> QED
    BY <2>4 DEF P!Next
<1> QED
  BY <1>2, <1>3

\* Every step of a relay is one of the pipe, or none of its variables changes.
LEMMA PipeStep ==
  ASSUME StreamInv, StreamInv', [Next]_vars
  PROVE  P!Next \/ UNCHANGED <<sent, got, Ended, CutOff>>
<1>0. TypeOK /\ P!Side = Side /\ \A s \in Side : P!Other(s) = Other(s)
  BY DEF StreamInv, Side, P!Side, Other, P!Other
<1>1. ASSUME NEW t \in Side, exchangeData(t)
      PROVE  P!Next \/ UNCHANGED <<sent, got, Ended, CutOff>>
  <2>1. UNCHANGED <<sent, got, peer>>
    BY <1>1 DEF exchangeData, CallRecv, RecvBytes, Received, RecvEnds, NothingMore, CallSend,
       SendBytes, Sent, SendInVain, SendShort, SendFails, SendKills, CloseSrc, CloseDst, peerVars
  <2>2. CASE Ending(t)
    BY <1>0, <2>1, <2>2, EndingFacts, ShutDownFacts, PipeCut
  <2>3. CASE CallRecv(t) \/ CallSend(t)
    <3>1. UNCHANGED conn
      BY <2>3 DEF CallRecv, CallSend, sockVars
    <3> QED
      BY <2>1, <3>1, PipeCut
  <2> QED
    BY <1>1, <2>2, <2>3 DEF exchangeData, Ending
<1>2. ASSUME NEW x \in Side, PeerWrites(x)
      PROVE  P!Next \/ UNCHANGED <<sent, got, Ended, CutOff>>
  <2> DEFINE b == Len(sent[x]) + 1
  <2>1. Len(sent[x]) \in Nat /\ Len(sent[x]) < MaxBytes
    BY <1>0, <1>2, LenProperties DEF TypeOK, PeerWrites
  <2>2. b \in 1 .. MaxBytes
    BY <2>1, RelayAssumption
  <2>3. sent' = [sent EXCEPT ![x] = Append(@, b)] /\ UNCHANGED <<got, peer, conn>> /\ peer[x] = "open"
    BY <1>2 DEF PeerWrites
  <2> HIDE DEF b
  <2>4. P!Write(x)
    BY <2>2, <2>3 DEF P!Write
  <2> QED
    BY <1>0, <2>4 DEF P!Next
<1>3. ASSUME NEW x \in Side, PeerReads(x)
      PROVE  P!Next \/ UNCHANGED <<sent, got, Ended, CutOff>>
  <2>1. /\ got' = [got EXCEPT ![x] = Append(@, Head(tx[x]))]
        /\ UNCHANGED <<sent, peer, conn>> /\ tx[x] # <<>>
    BY <1>3 DEF PeerReads
  <2>2. Len(got[x]) < Len(sent[Other(x)]) /\ Head(tx[x]) = sent[Other(x)][Len(got[x]) + 1]
    BY <2>1, NextByte
  <2>3. P!Read(x)
    BY <1>0, <2>1, <2>2 DEF P!Read
  <2> QED
    BY <1>0, <2>3 DEF P!Next
<1>4. ASSUME NEW x \in Side, PeerShuts(x) \/ PeerCloses(x)
      PROVE  P!Next \/ UNCHANGED <<sent, got, Ended, CutOff>>
  <2>1. UNCHANGED <<sent, got, conn>>
    BY <1>4 DEF PeerShuts, PeerCloses, sockVars
  <2>2. peer' = [peer EXCEPT ![x] = "shut"] \/ peer' = [peer EXCEPT ![x] = "closed"]
    BY <1>4 DEF PeerShuts, PeerCloses
  <2>3. Ended' = Ended \cup {x}
    BY <1>0, <2>2 DEF Ended, TypeOK
  <2>4. P!EndWriting(x)
    BY <2>1, <2>3 DEF P!EndWriting, Ended
  <2> QED
    BY <1>0, <2>4 DEF P!Next
<1>5. ASSUME (\E x \in Side : LoseUnread(x)) \/ Join \/ UNCHANGED vars
      PROVE  UNCHANGED <<sent, got, Ended, CutOff>>
  BY <1>5 DEF LoseUnread, Join, vars, sockVars, peerVars, Ended, CutOff
<1> QED
  BY <1>1, <1>2, <1>3, <1>4, <1>5 DEF Next, Peer

\* Every behaviour of a relay is one of the pipe it promises to be.
THEOREM RelayIsPipe == Spec => ImplementsPipe
<1>1. StreamInv /\ StreamInv' /\ [Next]_vars => [P!Next]_(P!pipeVars)
  BY PipeStep DEF P!pipeVars, Ended, CutOff
<1> QED
  BY <1>1, PipeInit, StreamInvariant, PTL DEF Spec, ImplementsPipe, P!Spec
=============================================================================
