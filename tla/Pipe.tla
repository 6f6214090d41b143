-------------------------------- MODULE Pipe --------------------------------
(***************************************************************************)
(* What "forwarding a connection" promises to the two programs at its      *)
(* ends: each reads what the other wrote, in order and without gaps, and   *)
(* neither is told that it is over before one of them made an end of it.   *)
(* Nothing is promised of bytes that are still under way then.             *)
(***************************************************************************)
EXTENDS Naturals, Sequences

CONSTANT Byte  \* what the programs write

Side == {"client", "server"}
Other(s) == IF s = "client" THEN "server" ELSE "client"

VARIABLES
  sent,   \* sent[s]: the bytes that s wrote
  got,    \* got[s]: the bytes that s read
  ended,  \* the sides that stopped writing, or closed
  cut     \* the sides whose connection was ended: they read what is left, if
          \* it still arrives, and then see the end

pipeVars == <<sent, got, ended, cut>>

Init ==
  /\ sent = [s \in Side |-> <<>>]
  /\ got = [s \in Side |-> <<>>]
  /\ ended = {}
  /\ cut = {}

Write(s) ==
  /\ s \notin ended
  /\ \E b \in Byte : sent' = [sent EXCEPT ![s] = Append(@, b)]
  /\ UNCHANGED <<got, ended, cut>>

\* The next byte of the other side.
Read(s) ==
  /\ Len(got[s]) < Len(sent[Other(s)])
  /\ got' = [got EXCEPT ![s] = Append(@, sent[Other(s)][Len(@) + 1])]
  /\ UNCHANGED <<sent, ended, cut>>

EndWriting(s) == ended' = ended \cup {s} /\ UNCHANGED <<sent, got, cut>>

\* Both connections may be ended at once.
Cut ==
  /\ ended # {}
  /\ \E sides \in SUBSET Side : cut' = cut \cup sides
  /\ UNCHANGED <<sent, got, ended>>

Next ==
  \/ \E s \in Side : Write(s) \/ Read(s) \/ EndWriting(s)
  \/ Cut

Spec == Init /\ [][Next]_pipeVars
=============================================================================
