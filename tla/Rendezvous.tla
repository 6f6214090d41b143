----------------------------- MODULE Rendezvous -----------------------------
(***************************************************************************)
(* What the proxy server promises, without descriptors, processes or       *)
(* packets: services hold ids, callers wait for the service they asked     *)
(* for, and a caller is joined at most once, to a line that was offered    *)
(* for that very service.                                                  *)
(***************************************************************************)
EXTENDS Naturals

CONSTANTS ServerID,  \* the ids of services
          Line       \* the connections to the server, numbered from 1

NoLine == 0

VARIABLES
  registry, \* registry[id]: the line of the service registered under id, or NoLine
  waiting,  \* waiting[l]: the id l asked for and waits for, as a set of at most one
  offered,  \* offered[l]: the id l was opened on behalf of, likewise
  joined    \* the pairs of a caller's line and the line it was joined to

rendezvousVars == <<registry, waiting, offered, joined>>

Init ==
  /\ registry = [id \in ServerID |-> NoLine]
  /\ waiting = [l \in Line |-> {}]
  /\ offered = [l \in Line |-> {}]
  /\ joined = {}

IsJoined(l) == \E p \in joined : l \in {p[1], p[2]}

\* An id names one line at a time, and a line serves under one id.
Register(id, l) ==
  /\ registry[id] = NoLine
  /\ \A i \in ServerID : registry[i] # l
  /\ waiting[l] = {} /\ offered[l] = {} /\ ~IsJoined(l)
  /\ registry' = [registry EXCEPT ![id] = l]
  /\ UNCHANGED <<waiting, offered, joined>>

Unregister(id) ==
  /\ registry[id] # NoLine
  /\ registry' = [registry EXCEPT ![id] = NoLine]
  /\ UNCHANGED <<waiting, offered, joined>>

\* A line asks for a service that is registered, and is not joined again.
Ask(l, id) ==
  /\ registry[id] # NoLine
  /\ waiting[l] = {} /\ offered[l] = {} /\ ~IsJoined(l)
  /\ waiting' = [waiting EXCEPT ![l] = {id}]
  /\ UNCHANGED <<registry, offered, joined>>

\* The service of id opens a line to answer with.
Offer(l, id) ==
  /\ waiting[l] = {} /\ offered[l] = {} /\ ~IsJoined(l)
  /\ offered' = [offered EXCEPT ![l] = {id}]
  /\ UNCHANGED <<registry, waiting, joined>>

\* A caller stops waiting: it is joined to a line of the service it asked for,
\* neither of them joined before...
Join(l, a) ==
  /\ waiting[l] # {} /\ offered[a] = waiting[l]
  /\ ~IsJoined(l) /\ ~IsJoined(a)
  /\ joined' = joined \cup {<<l, a>>}
  /\ waiting' = [waiting EXCEPT ![l] = {}]
  /\ UNCHANGED <<registry, offered>>

\* ... or it is given up.
GiveUp(l) ==
  /\ waiting[l] # {}
  /\ waiting' = [waiting EXCEPT ![l] = {}]
  /\ UNCHANGED <<registry, offered, joined>>

\* The server ends and forgets; what is joined stays joined.
Forget ==
  /\ registry' = [id \in ServerID |-> NoLine]
  /\ waiting' = [l \in Line |-> {}]
  /\ UNCHANGED <<offered, joined>>

Next ==
  \/ Forget
  \/ \E id \in ServerID : Unregister(id)
  \/ \E l \in Line : GiveUp(l)
  \/ \E l \in Line, id \in ServerID : Register(id, l) \/ Ask(l, id) \/ Offer(l, id)
  \/ \E l, a \in Line : Join(l, a)

Spec == Init /\ [][Next]_rendezvousVars
=============================================================================
