------------------------------ MODULE RelayInv ------------------------------
(***************************************************************************)
(* The inductive invariant behind InOrder and EndIsWhole: where the bytes  *)
(* of each direction are, and which thread of exchangeData may end first.  *)
(***************************************************************************)
EXTENDS Relay

\* q holds the bytes after the first k of a stream.
Run(q, k) == \A i \in 1 .. Len(q) : q[i] = k + i

\* A socket that was shut down has no descriptor and nobody in a call on it.
ShutDownIsFinal ==
  \A s \in Side : conn[s] # "live" => ~fd[s] /\ ~InCall(s)

\* A thread about to receive holds no bytes, and a RST comes of a peer that
\* closed.
NothingHeld == \A t \in Side : pc[t] \in {"loop", "recv"} => buf[t] = <<>>
RstOfClosed == \A s \in Side : err[s] # "no" => peer[s] = "closed"

Looping == {"loop", "recv", "send", "sending", "blocked"}

\* Bytes can still reach s.
Flows(s) ==
  /\ conn[s] = "live" /\ err[s] = "no" /\ peer[s] # "closed"
  /\ pc[Other(s)] \in Looping

\* The stream to s: read, queued for s, in the thread's hands, queued for the
\* thread.  When it does not flow any more, what is left of it may be lost.
Stream(s) ==
  LET o == Other(s)
      delivered == Len(got[s]) + Len(tx[s]) IN
  /\ Run(sent[s], 0)
  /\ Run(got[s], 0)
  /\ Run(tx[s], Len(got[s]))
  /\ delivered <= Len(sent[o])
  /\ Flows(s) => /\ Run(buf[o], delivered)
                 /\ Run(rx[o], delivered + Len(buf[o]))
                 /\ Len(sent[o]) = delivered + Len(buf[o]) + Len(rx[o])

\* While s goes on and its partner caused no error, the thread that receives
\* from the partner is the first to end, and it has passed on everything.
Orderly(s) ==
  LET o == Other(s) IN
  peer[s] = "open" /\ err[o] = "no" =>
    /\ process # "killed"
    /\ pc[s] \notin Looping \/ ~fd[s] \/ ~fd[o] => pc[o] \notin Looping
    /\ pc[o] \notin Looping =>
         /\ peer[o] # "open"
         /\ conn[s] # "rst" => Len(got[s]) + Len(tx[s]) = Len(sent[o])

StreamInv ==
  /\ TypeOK
  /\ ShutDownIsFinal
  /\ NothingHeld
  /\ RstOfClosed
  /\ \A s \in Side : Stream(s) /\ Orderly(s)
=============================================================================
