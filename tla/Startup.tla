------------------------------- MODULE Startup -------------------------------
(***************************************************************************)
(* What sp and spd do before they speak to each other: sp reads .spconfig, *)
(* then both try the addresses that getaddrinfo returns one after another. *)
(***************************************************************************)
EXTENDS Integers, Sequences

CONSTANTS Line,    \* the lines that a file may have
          MaxSeen  \* lines of a file, or addresses of a host: a bound

\* A line is a setting unless it is a comment or has no colon; a setting has a
\* field and the characters after its first colon.
ASSUME StartupAssumption ==
  Line \subseteq [setting : BOOLEAN, field : STRING, after : Seq(Nat)] /\ MaxSeen \in Nat

VARIABLES call,     \* the function that runs,
          pc,       \* where it is, or how it ended,
          seen,     \* the lines it has read, or what became of the addresses,
          config,   \* the settings of sp,
          sockets,  \* the sockets it has open, numbered as the addresses,
          sockfd    \* and the last one, NoSocket if socket failed

startup == <<call, pc, seen, config, sockets, sockfd>>

Fields == {"ProxyHost", "ProxyPort"}
Default == [f \in Fields |-> IF f = "ProxyPort" THEN <<6, 0, 7, 0>> ELSE <<>>]
NoSocket == 0

StartupInit ==
  /\ call \in {"loadConfigFile", "createConnection", "startListening"}
  /\ pc = "begin" /\ seen = <<>> /\ config = Default
  /\ sockets = {} /\ sockfd = NoSocket

\* The file or the name of the host may not be found.
Begin(first) == pc = "begin" /\ pc' \in {first, "failed"}

-----------------------------------------------------------------------------
(* loadConfigFile *)

OpenFile ==
  /\ call = "loadConfigFile" /\ Begin("read")
  /\ UNCHANGED <<call, seen, config, sockets, sockfd>>

Sets(line) == line.setting /\ line.field \in Fields

\* value = line.substr(splitIdx + 2), which throws when the colon is last.
SpaceKept(line) ==
  IF line.after = <<>> THEN pc' = "threw" /\ UNCHANGED config
  ELSE config' = [config EXCEPT ![line.field] = line.after] /\ UNCHANGED pc
Assigned(line) ==
  IF line.after = <<>> THEN pc' = "threw" /\ UNCHANGED config
  ELSE config' = [config EXCEPT ![line.field] = Tail(line.after)] /\ UNCHANGED pc

ReadLine ==
  /\ pc = "read" /\ Len(seen) < MaxSeen
  /\ \E line \in Line :
       /\ seen' = Append(seen, line)
       /\ IF Sets(line) THEN Assigned(line) ELSE UNCHANGED <<pc, config>>
  /\ UNCHANGED <<call, sockets, sockfd>>

\* main goes on only with a host.
EndOfFile ==
  /\ pc = "read"
  /\ pc' = IF config.ProxyHost = <<>> THEN "failed" ELSE "returned"
  /\ UNCHANGED <<call, seen, config, sockets, sockfd>>

-----------------------------------------------------------------------------
(* createConnection and startListening, one action per call to the kernel.
   Sockets are numbered as the addresses that they are for. *)

getaddrinfo ==
  /\ call # "loadConfigFile" /\ Begin("socket")
  /\ UNCHANGED <<call, seen, config, sockets, sockfd>>

socket ==
  /\ pc = "socket" /\ Len(seen) < MaxSeen
  /\ \/ /\ sockfd' = NoSocket
        /\ seen' = Append(seen, "no_socket")
        /\ UNCHANGED <<pc, sockets>>
     \/ /\ sockfd' = Len(seen) + 1
        /\ sockets' = sockets \cup {sockfd'}
        /\ pc' = IF call = "startListening" THEN "setsockopt" ELSE "attach"
        /\ UNCHANGED seen
  /\ UNCHANGED <<call, config>>

\* When this fails startListening returns, with the socket open.
setsockopt ==
  /\ pc = "setsockopt"
  /\ \/ pc' = "attach" /\ UNCHANGED seen
     \/ pc' = "failed" /\ seen' = Append(seen, "no_option")
  /\ UNCHANGED <<call, config, sockets, sockfd>>

\* connect or bind; after the first that works the loop ends.
attach ==
  /\ pc = "attach"
  /\ \/ /\ seen' = Append(seen, "works")
        /\ pc' = IF call = "startListening" THEN "listen" ELSE "returned"
     \/ seen' = Append(seen, "fails") /\ pc' = "close"
  /\ UNCHANGED <<call, config, sockets, sockfd>>

NotClosed ==
  /\ pc = "close" /\ pc' = "socket"
  /\ UNCHANGED <<call, seen, config, sockets, sockfd>>
close ==
  /\ pc = "close" /\ pc' = "socket"
  /\ sockets' = sockets \ {sockfd}
  /\ UNCHANGED <<call, seen, config, sockfd>>

\* No address is left.
Exhausted ==
  /\ pc = "socket" /\ pc' = "failed"
  /\ UNCHANGED <<call, seen, config, sockets, sockfd>>

\* listen and sigaction; when one fails startListening returns, with the
\* socket open.
listen ==
  /\ pc = "listen" /\ pc' \in {"returned", "failed"}
  /\ UNCHANGED <<call, seen, config, sockets, sockfd>>

-----------------------------------------------------------------------------
StartupNext ==
  \/ OpenFile \/ ReadLine \/ EndOfFile
  \/ getaddrinfo \/ socket \/ setsockopt \/ attach \/ close \/ Exhausted \/ listen

StartupSpec == StartupInit /\ [][StartupNext]_startup

-----------------------------------------------------------------------------
(* What is promised *)

\* The value that some lines set a field to: that of the last that does.
SetBy(line, field) == Sets(line) /\ line.field = field
ValueOf(lines, field, value) ==
  \/ /\ \A i \in DOMAIN lines : ~SetBy(lines[i], field)
     /\ value = Default[field]
  \/ \E i \in DOMAIN lines :
       /\ SetBy(lines[i], field)
       /\ \A j \in DOMAIN lines : SetBy(lines[j], field) => j <= i
       /\ value = SubSeq(lines[i].after, 2, Len(lines[i].after))

\* sp uses the last host and port that the file sets, whatever other lines say,
\* and stops on a setting without a value or when no host is left.
SettingsRead ==
  call = "loadConfigFile" =>
    /\ pc = "threw" <=> \E i \in DOMAIN seen : Sets(seen[i]) /\ seen[i].after = <<>>
    /\ pc = "returned" => /\ \A field \in Fields : ValueOf(seen, field, config[field])
                          /\ config.ProxyHost # <<>>
    /\ pc = "failed" => ValueOf(seen, "ProxyHost", <<>>)

\* Of the sockets that were tried only the one that works stays open when
\* createConnection or startListening returns; when they fail no socket stays
\* open, and no address worked, unless startListening gave up with the socket
\* that it had.
OneSocket ==
  call # "loadConfigFile" =>
    /\ pc = "returned" => /\ sockets = {sockfd} /\ sockfd \in DOMAIN seen
                          /\ \A i \in DOMAIN seen : seen[i] = "works" <=> i = sockfd
    /\ pc = "failed" =>
         IF \E i \in DOMAIN seen : seen[i] \in {"works", "no_option"}
         THEN call = "startListening" /\ sockets = {sockfd}
         ELSE sockets = {}
=============================================================================
