------------------------------ MODULE LoopProofs ------------------------------
(***************************************************************************)
(* Proofs that sp takes its settings from the file as it should, that of   *)
(* the sockets that sp and spd try only the one that works stays open, and *)
(* that an escaped string fits, for files, lists of addresses and strings  *)
(* of any length.                                                          *)
(***************************************************************************)
EXTENDS Startup, Escapes, SequenceTheorems, TLAPS

\* The settings are those of the lines read so far, unless one of them threw.
Bare(line) == Sets(line) /\ line.after = <<>>
SettingsInv ==
  /\ seen \in Seq(Line)
  /\ config \in [Fields -> Seq(Nat)]
  /\ pc \in {"begin", "read", "returned", "failed", "threw"}
  /\ pc = "begin" => seen = <<>>
  /\ pc = "threw" <=> \E i \in DOMAIN seen : Bare(seen[i])
  /\ pc # "threw" => \A field \in Fields : ValueOf(seen, field, config[field])
  /\ pc \in {"begin", "failed"} => config.ProxyHost = <<>>
  /\ pc = "returned" => config.ProxyHost # <<>>

\* At most one socket is open: that of the address that is tried, or that was
\* tried last.
Outcomes == {"no_socket", "no_option", "fails", "works"}
Given(q) == \A i \in DOMAIN q : q[i] \in {"no_socket", "fails"}
Ended(q, outcomes) ==
  /\ Len(q) > 0 /\ q[Len(q)] \in outcomes
  /\ \A i \in 1 .. Len(q) - 1 : q[i] \in {"no_socket", "fails"}
SocketsInv ==
  /\ call \in {"createConnection", "startListening"}
  /\ seen \in Seq(Outcomes)
  /\ \/ pc \in {"begin", "socket", "failed"} /\ sockets = {} /\ Given(seen)
     \/ /\ pc \in {"setsockopt", "attach"} /\ sockets = {sockfd} /\ Given(seen)
        /\ sockfd = Len(seen) + 1
        /\ pc = "setsockopt" => call = "startListening"
     \/ pc = "close" /\ sockets = {sockfd} /\ Given(seen) /\ sockfd = Len(seen)
     \/ /\ pc \in {"listen", "returned"} /\ sockets = {sockfd} /\ sockfd = Len(seen)
        /\ Ended(seen, {"works"})
        /\ pc = "listen" => call = "startListening"
     \/ /\ pc = "failed" /\ call = "startListening" /\ sockets = {sockfd}
        /\ Ended(seen, {"works", "no_option"})

StartupInv == IF call = "loadConfigFile" THEN SettingsInv ELSE SocketsInv

-----------------------------------------------------------------------------
(* The file *)

\* One more line that does not set a field leaves its value as it was.
LEMMA NothingSet ==
  ASSUME NEW q \in Seq(Line), NEW line \in Line,
         NEW field, ~SetBy(line, field), NEW value, ValueOf(q, field, value)
  PROVE  ValueOf(Append(q, line), field, value)
<1> DEFINE r == Append(q, line)
<1>1. /\ Len(q) \in Nat /\ DOMAIN q = 1 .. Len(q)
      /\ DOMAIN r = 1 .. Len(q) + 1
      /\ \A i \in 1 .. Len(q) : r[i] = q[i]
      /\ r[Len(q) + 1] = line
  OBVIOUS
<1> HIDE DEF r
<1>2. /\ \A i \in DOMAIN q : i \in DOMAIN r /\ r[i] = q[i]
      /\ \A i \in DOMAIN r : SetBy(r[i], field) => i \in DOMAIN q /\ SetBy(q[i], field)
  <2>1. \A i \in DOMAIN r : i \in DOMAIN q \/ i = Len(q) + 1
    BY <1>1
  <2> QED
    BY <1>1, <2>1
<1>3. CASE \A i \in DOMAIN q : ~SetBy(q[i], field)
  <2>1. \A i \in DOMAIN r : ~SetBy(r[i], field)
    BY <1>2, <1>3
  <2>2. value = Default[field]
    BY <1>3 DEF ValueOf
  <2> QED
    BY <2>1, <2>2 DEF ValueOf, r
<1>4. CASE ~\A i \in DOMAIN q : ~SetBy(q[i], field)
  <2>1. PICK i \in DOMAIN q :
          /\ SetBy(q[i], field)
          /\ \A j \in DOMAIN q : SetBy(q[j], field) => j <= i
          /\ value = SubSeq(q[i].after, 2, Len(q[i].after))
    BY <1>4 DEF ValueOf
  <2>2. i \in DOMAIN r /\ r[i] = q[i] /\ \A j \in DOMAIN r : SetBy(r[j], field) => j <= i
    BY <1>2, <2>1
  <2> QED
    BY <2>1, <2>2 DEF ValueOf, r
<1> QED
  BY <1>3, <1>4

\* One more line that sets the field decides its value.
LEMMA FieldSet ==
  ASSUME NEW q \in Seq(Line), NEW line \in Line, Sets(line), line.after # <<>>
  PROVE  ValueOf(Append(q, line), line.field, Tail(line.after))
<1> DEFINE r == Append(q, line)
<1>1. /\ Len(q) \in Nat
      /\ DOMAIN r = 1 .. Len(q) + 1
      /\ r[Len(q) + 1] = line
  OBVIOUS
<1> HIDE DEF r
<1>2. line.after \in Seq(Nat)
  BY StartupAssumption
<1>3. Tail(line.after) = SubSeq(line.after, 2, Len(line.after))
  BY <1>2, TailIsSubSeq
<1>4. /\ SetBy(r[Len(q) + 1], line.field)
      /\ Len(q) + 1 \in DOMAIN r
      /\ \A j \in DOMAIN r : j <= Len(q) + 1
  BY <1>1 DEF SetBy
<1> QED
  BY <1>1, <1>3, <1>4 DEF ValueOf, r

\* One more line keeps the invariant of the file, whatever it sets.
LEMMA ReadLineStep ==
  ASSUME SettingsInv, ReadLine
  PROVE  SettingsInv'
<1>1. PICK line \in Line :
        /\ seen' = Append(seen, line)
        /\ IF Sets(line) THEN Assigned(line) ELSE UNCHANGED <<pc, config>>
  BY DEF ReadLine
<1>2. /\ seen \in Seq(Line) /\ pc = "read"
      /\ config \in [Fields -> Seq(Nat)]
      /\ \A i \in DOMAIN seen : ~Bare(seen[i])
      /\ \A field \in Fields : ValueOf(seen, field, config[field])
  BY DEF SettingsInv, ReadLine
<1>3. /\ seen' \in Seq(Line) /\ Len(seen) \in Nat /\ DOMAIN seen = 1 .. Len(seen)
      /\ DOMAIN seen' = 1 .. Len(seen) + 1
      /\ \A i \in 1 .. Len(seen) : seen'[i] = seen[i]
      /\ seen'[Len(seen) + 1] = line
  BY <1>1, <1>2, AppendProperties
<1>4. (\E i \in DOMAIN seen' : Bare(seen'[i])) <=> Bare(line)
  <2>1. \A i \in DOMAIN seen' : seen'[i] = line \/ (i \in DOMAIN seen /\ seen'[i] = seen[i])
    BY <1>3
  <2>2. Len(seen) + 1 \in DOMAIN seen'
    BY <1>3
  <2> QED
    BY <1>2, <1>3, <2>1, <2>2
<1>5. CASE ~Sets(line)
  <2>1. pc' = "read" /\ config' = config /\ ~Bare(line)
    BY <1>1, <1>2, <1>5 DEF Bare
  <2>2. ASSUME NEW field \in Fields
        PROVE  ValueOf(seen', field, config'[field])
    <3>1. ValueOf(seen, field, config[field]) /\ ~SetBy(line, field)
      BY <1>2, <1>5 DEF SetBy
    <3> QED
      BY <1>1, <1>2, <2>1, <3>1, NothingSet
  <2> QED
    BY <1>2, <1>3, <1>4, <2>1, <2>2 DEF SettingsInv
<1>6. CASE Sets(line) /\ line.after = <<>>
  <2>1. pc' = "threw" /\ config' = config /\ Bare(line)
    BY <1>1, <1>6 DEF Assigned, Bare
  <2> QED
    BY <1>2, <1>3, <1>4, <2>1 DEF SettingsInv
<1>7. CASE Sets(line) /\ line.after # <<>>
  <2>1. /\ pc' = "read" /\ ~Bare(line)
        /\ config' = [config EXCEPT ![line.field] = Tail(line.after)]
        /\ line.field \in Fields
    BY <1>1, <1>2, <1>7 DEF Assigned, Bare, Sets
  <2>2. Tail(line.after) \in Seq(Nat)
    BY <1>7, StartupAssumption, HeadTailProperties
  <2>3. config' \in [Fields -> Seq(Nat)]
    BY <1>2, <2>1, <2>2
  <2>4. ASSUME NEW field \in Fields
        PROVE  ValueOf(seen', field, config'[field])
    <3>1. CASE field = line.field
      <4>1. ValueOf(seen', field, Tail(line.after))
        BY <1>1, <1>2, <1>7, <3>1, FieldSet
      <4>2. config'[field] = Tail(line.after)
        BY <1>2, <2>1, <3>1
      <4> QED
        BY <4>1, <4>2
    <3>2. CASE field # line.field
      <4>1. ValueOf(seen, field, config[field]) /\ ~SetBy(line, field)
        BY <1>2, <3>2 DEF SetBy
      <4>2. config'[field] = config[field]
        BY <1>2, <2>1, <3>2
      <4> QED
        BY <1>1, <1>2, <4>1, <4>2, NothingSet
    <3> QED
      BY <3>1, <3>2
  <2> QED
    BY <1>3, <1>4, <2>1, <2>3, <2>4 DEF SettingsInv
<1> QED
  BY <1>5, <1>6, <1>7

-----------------------------------------------------------------------------
(* The sockets *)

\* One more outcome, after sockets that were not there or could not be used.
LEMMA OneMoreOutcome ==
  ASSUME NEW q \in Seq(Outcomes), Given(q), NEW outcome \in Outcomes
  PROVE  /\ Append(q, outcome) \in Seq(Outcomes)
         /\ Len(Append(q, outcome)) = Len(q) + 1
         /\ outcome \in {"no_socket", "fails"} => Given(Append(q, outcome))
         /\ Ended(Append(q, outcome), {outcome})
<1> DEFINE r == Append(q, outcome)
<1>1. /\ r \in Seq(Outcomes) /\ Len(q) \in Nat /\ Len(r) = Len(q) + 1
      /\ DOMAIN q = 1 .. Len(q) /\ DOMAIN r = 1 .. Len(q) + 1
      /\ \A i \in 1 .. Len(q) : r[i] = q[i]
      /\ r[Len(q) + 1] = outcome
  OBVIOUS
<1> HIDE DEF r
<1>2. \A i \in 1 .. Len(q) : r[i] \in {"no_socket", "fails"}
  BY <1>1 DEF Given
<1>3. \A i \in DOMAIN r : i \in 1 .. Len(q) \/ i = Len(q) + 1
  BY <1>1
<1>4. outcome \in {"no_socket", "fails"} => Given(r)
  BY <1>1, <1>2, <1>3 DEF Given
<1>5. Ended(r, {outcome})
  BY <1>1, <1>2 DEF Ended
<1> QED
  BY <1>1, <1>4, <1>5 DEF r

\* Each call to the kernel leaves at most the socket of its address.
LEMMA SocketsStep ==
  ASSUME SocketsInv, StartupNext
  PROVE  SocketsInv'
<1> USE DEF SocketsInv
<1>1. CASE OpenFile
  BY <1>1 DEF OpenFile
<1>2. CASE ReadLine
  BY <1>2 DEF ReadLine
<1>3. CASE EndOfFile
  BY <1>3 DEF EndOfFile
<1>4. CASE getaddrinfo
  BY <1>4 DEF getaddrinfo, Begin
<1>5. CASE socket
  <2>1. pc = "socket" /\ sockets = {} /\ Given(seen) /\ Len(seen) \in Nat
    BY <1>5 DEF socket
  <2>2. CASE seen' = Append(seen, "no_socket") /\ UNCHANGED <<pc, sockets>>
    <3>1. "no_socket" \in Outcomes
      BY DEF Outcomes
    <3> QED
      BY <1>5, <2>1, <2>2, <3>1, OneMoreOutcome DEF socket
  <2>3. CASE /\ sockfd' = Len(seen) + 1
             /\ sockets' = sockets \cup {sockfd'}
             /\ pc' = IF call = "startListening" THEN "setsockopt" ELSE "attach"
             /\ UNCHANGED seen
    BY <1>5, <2>1, <2>3 DEF socket
  <2> QED
    BY <1>5, <2>2, <2>3 DEF socket
<1>6. CASE setsockopt
  <2>1. /\ pc = "setsockopt" /\ call = "startListening" /\ Given(seen)
        /\ sockets = {sockfd} /\ sockfd = Len(seen) + 1
    BY <1>6 DEF setsockopt
  <2>2. CASE pc' = "attach" /\ UNCHANGED seen
    BY <1>6, <2>1, <2>2 DEF setsockopt
  <2>3. CASE pc' = "failed" /\ seen' = Append(seen, "no_option")
    <3>1. "no_option" \in Outcomes
      BY DEF Outcomes
    <3>2. seen' \in Seq(Outcomes) /\ Ended(seen', {"no_option"})
      BY <2>1, <2>3, <3>1, OneMoreOutcome
    <3>3. Ended(seen', {"works", "no_option"})
      BY <3>2 DEF Ended
    <3> QED
      BY <1>6, <2>1, <2>3, <3>2, <3>3 DEF setsockopt
  <2> QED
    BY <1>6, <2>2, <2>3 DEF setsockopt
<1>7. CASE attach
  <2>1. /\ pc = "attach" /\ Given(seen) /\ sockets = {sockfd} /\ sockfd = Len(seen) + 1
    BY <1>7 DEF attach
  <2>2. {"works", "fails"} \subseteq Outcomes
    BY DEF Outcomes
  <2>3. CASE /\ seen' = Append(seen, "works")
             /\ pc' = IF call = "startListening" THEN "listen" ELSE "returned"
    <3>1. /\ seen' \in Seq(Outcomes) /\ Ended(seen', {"works"})
          /\ Len(seen') = Len(seen) + 1
      BY <2>1, <2>2, <2>3, OneMoreOutcome
    <3> QED
      BY <1>7, <2>1, <2>3, <3>1 DEF attach
  <2>4. CASE seen' = Append(seen, "fails") /\ pc' = "close"
    <3>1. seen' \in Seq(Outcomes) /\ Given(seen') /\ Len(seen') = Len(seen) + 1
      BY <2>1, <2>2, <2>4, OneMoreOutcome
    <3> QED
      BY <1>7, <2>1, <2>4, <3>1 DEF attach
  <2> QED
    BY <1>7, <2>3, <2>4 DEF attach
<1>8. CASE close
  BY <1>8 DEF close
<1>9. CASE Exhausted
  BY <1>9 DEF Exhausted
<1>10. CASE listen
  <2>1. /\ pc = "listen" /\ call = "startListening" /\ Ended(seen, {"works"})
        /\ sockets = {sockfd} /\ sockfd = Len(seen)
    BY <1>10 DEF listen
  <2>2. Ended(seen, {"works", "no_option"})
    BY <2>1 DEF Ended
  <2> QED
    BY <1>10, <2>1, <2>2 DEF listen
<1> QED
  BY <1>1, <1>2, <1>3, <1>4, <1>5, <1>6, <1>7, <1>8, <1>9, <1>10 DEF StartupNext

-----------------------------------------------------------------------------
(* Both *)

\* So does every step of loadConfigFile.
LEMMA SettingsStep ==
  ASSUME SettingsInv, call = "loadConfigFile", StartupNext
  PROVE  SettingsInv'
<1>1. CASE OpenFile
  <2>1. /\ pc = "begin" /\ pc' \in {"read", "failed"} /\ UNCHANGED <<seen, config>>
        /\ config.ProxyHost = <<>>
    BY <1>1 DEF OpenFile, Begin, SettingsInv
  <2> QED
    BY <2>1 DEF SettingsInv
<1>2. CASE ReadLine
  BY <1>2, ReadLineStep
<1>3. CASE EndOfFile
  BY <1>3 DEF EndOfFile, SettingsInv
<1>4. ~getaddrinfo /\ ~socket /\ ~setsockopt /\ ~attach /\ ~close /\ ~Exhausted /\ ~listen
  BY DEF SettingsInv, getaddrinfo, socket, setsockopt, attach, close, Exhausted, listen
<1> QED
  BY <1>1, <1>2, <1>3, <1>4 DEF StartupNext

\* The invariant holds before anything was read or tried.
LEMMA StartupInitInv ==
  ASSUME StartupInit
  PROVE  StartupInv
<1>1. <<>> \in Seq(Line) /\ <<>> \in Seq(Outcomes) /\ DOMAIN <<>> = {}
  OBVIOUS
<1>2. Default \in [Fields -> Seq(Nat)] /\ Default.ProxyHost = <<>>
  <2>1. <<6, 0, 7, 0>> \in Seq(Nat) /\ <<>> \in Seq(Nat)
    OBVIOUS
  <2> QED
    BY <2>1 DEF Default, Fields
<1>3. \A field \in Fields : ValueOf(<<>>, field, Default[field])
  BY <1>1 DEF ValueOf
<1>4. Given(<<>>)
  BY <1>1 DEF Given
<1> QED
  BY <1>1, <1>2, <1>3, <1>4 DEF StartupInit, StartupInv, SettingsInv, SocketsInv

\* Every step keeps it.
LEMMA StartupStep ==
  ASSUME StartupInv, [StartupNext]_startup
  PROVE  StartupInv'
<1>1. CASE UNCHANGED startup
  BY <1>1 DEF startup, StartupInv, SettingsInv, SocketsInv
<1>2. CASE StartupNext
  <2>1. call' = call
    BY <1>2 DEF StartupNext, OpenFile, ReadLine, EndOfFile, getaddrinfo, socket, setsockopt,
                attach, close, Exhausted, listen
  <2> QED
    BY <1>2, <2>1, SettingsStep, SocketsStep DEF StartupInv
<1> QED
  BY <1>1, <1>2

\* Settings and sockets are as the invariant says, at every line and call.
LEMMA StartupInvariant == StartupSpec => []StartupInv
<1> QED
  BY StartupInitInv, StartupStep, PTL DEF StartupSpec

\* Whatever a file consists of, sp uses the last host and port that it sets.
THEOREM SettingsAreRead == StartupSpec => []SettingsRead
<1>1. StartupInv => SettingsRead
  BY DEF StartupInv, SettingsInv, SettingsRead, Bare, Fields
<1> QED
  BY <1>1, StartupInvariant, PTL

\* Whatever becomes of each address, only the socket that works stays open.
THEOREM OneSocketLeft == StartupSpec => []OneSocket
<1>1. ASSUME SocketsInv, pc = "returned"
      PROVE  /\ sockets = {sockfd} /\ sockfd \in DOMAIN seen
             /\ \A i \in DOMAIN seen : seen[i] = "works" <=> i = sockfd
  <2>1. /\ sockets = {sockfd} /\ sockfd = Len(seen) /\ Ended(seen, {"works"})
        /\ Len(seen) \in Nat /\ DOMAIN seen = 1 .. Len(seen)
    BY <1>1 DEF SocketsInv
  <2>2. \A i \in DOMAIN seen : i = Len(seen) \/ i \in 1 .. Len(seen) - 1
    BY <2>1
  <2> QED
    BY <2>1, <2>2 DEF Ended
<1>2. ASSUME SocketsInv, pc = "failed"
      PROVE  IF \E i \in DOMAIN seen : seen[i] \in {"works", "no_option"}
             THEN call = "startListening" /\ sockets = {sockfd}
             ELSE sockets = {}
  <2>1. CASE sockets = {} /\ Given(seen)
    BY <2>1 DEF Given
  <2>2. CASE call = "startListening" /\ sockets = {sockfd} /\ Ended(seen, {"works", "no_option"})
    <3>1. Len(seen) \in DOMAIN seen
      BY <1>2, <2>2 DEF SocketsInv, Ended
    <3> QED
      BY <2>2, <3>1 DEF Ended
  <2> QED
    BY <1>2, <2>1, <2>2 DEF SocketsInv
<1>3. StartupInv => OneSocket
  BY <1>1, <1>2 DEF StartupInv, OneSocket
<1> QED
  BY <1>3, StartupInvariant, PTL

-----------------------------------------------------------------------------
(* The escaped string *)

\* at[j] is where the spellings of the first j of n characters of q end. That
\* each has a place of its own is what keeps every write before the end.
Width(c) == ExtraOf(c) + 1
Ends(at, q, n) ==
  /\ at \in [0 .. n -> Nat]
  /\ at[0] = 0
  /\ \A j \in 1 .. n : at[j] = at[j - 1] + Width(q[j])
  /\ \A i, j \in 0 .. n : i <= j => at[i] + (j - i) <= at[j]

\* In r the first n characters of q are spelled at these places.
SpelledAt(at, q, r, n) ==
  \A j \in 1 .. n : \A k \in 1 .. Width(q[j]) : r[at[j - 1] + k - 1] = Spelling(q[j])[k]

\* What is written is the beginning of the result, the rest are backslashes.
Characters == 0 .. 255
EscapesInv ==
  /\ string \in Seq(Characters)
  /\ passed \in 0 .. Len(string) /\ space \in Nat /\ pos \in Nat
  /\ stage \in {"count", "write", "returned"}
  /\ stage = "count" =>
       /\ pos = 0
       /\ \E at : Ends(at, string, passed) /\ passed + space = at[passed]
  /\ stage = "write" =>
       /\ DOMAIN result = 0 .. Len(string) + space - 1
       /\ \A p \in pos .. Len(string) + space - 1 : result[p] = Backslash
       /\ \E at : /\ Ends(at, string, Len(string)) /\ Len(string) + space = at[Len(string)]
                  /\ pos = at[passed] /\ SpelledAt(at, string, result, passed)
  /\ stage = "returned" => DOMAIN result = 0 .. Len(string) + space - 1 /\ Spells

\* A character's spelling is one longer than the room counted for it, and is
\* what is written for it, behind a backslash that is there already.
LEMMA Spelt ==
  ASSUME NEW c \in Characters
  PROVE  /\ ExtraOf(c) \in Nat /\ Width(c) \in Nat \ {0}
         /\ Len(Spelling(c)) = Width(c)
         /\ (IF c \in Short THEN 2 ELSE IF c \in Control THEN 6 ELSE 1) = Width(c)
         /\ DOMAIN Written(c) \subseteq 0 .. Width(c) - 1
         /\ \A k \in 1 .. Width(c) :
              Spelling(c)[k] = IF k - 1 \in DOMAIN Written(c) THEN Written(c)[k - 1]
                               ELSE Backslash
         /\ Width(c) = 1 => Spelling(c) = <<c>>
<1> USE DEF Width, Characters
<1>1. CASE c = Backslash
  <2>1. c \in Short /\ c \notin Control /\ Letter(c) = Backslash
    BY <1>1 DEF Short, Control, Letter, Backslash
  <2>2. ExtraOf(c) = 1 /\ Spelling(c) = <<Backslash, Backslash>> /\ Written(c) = <<>>
    BY <1>1, <2>1 DEF ExtraOf, Spelling, Written
  <2> QED
    BY <2>1, <2>2
<1>2. CASE c \in Short \ {Backslash}
  <2>1. c # Backslash /\ c \in Short /\ c \notin Control
    BY <1>2 DEF Control
  <2>2. ExtraOf(c) = 1 /\ Spelling(c) = <<Backslash, Letter(c)>>
    BY <2>1 DEF ExtraOf, Spelling
  <2>3. Written(c) = <<Letter(c)>>
    BY <2>1 DEF Written
  <2> QED
    BY <2>1, <2>2, <2>3
<1>3. CASE c \in Control
  <2>1. c # Backslash /\ c \notin Short
    BY <1>3 DEF Control, Backslash
  <2>2. /\ ExtraOf(c) = 5
        /\ Spelling(c) = <<Backslash, 117, 48, 48, Hexify(c \div 16), Hexify(c % 16)>>
    BY <1>3, <2>1 DEF ExtraOf, Spelling
  <2>3. Written(c) = AsNumber(c)
    BY <1>3, <2>1 DEF Written
  <2>4. \A k \in 1 .. 6 : k \in {1, 2, 3, 4, 5, 6}
    OBVIOUS
  <2> HIDE DEF Hexify
  <2>5. Len(Spelling(c)) = 6 /\ DOMAIN Written(c) = 1 .. 5
    BY <2>2, <2>3 DEF AsNumber
  <2>6. /\ Spelling(c)[1] = Backslash
        /\ Spelling(c)[2] = Written(c)[1] /\ Spelling(c)[3] = Written(c)[2]
        /\ Spelling(c)[4] = Written(c)[3] /\ Spelling(c)[5] = Written(c)[4]
        /\ Spelling(c)[6] = Written(c)[5]
    BY <2>2, <2>3 DEF AsNumber
  <2> QED
    BY <1>3, <2>1, <2>2, <2>4, <2>5, <2>6
<1>4. CASE c \notin Short /\ c \notin Control
  <2>1. ExtraOf(c) = 0 /\ Spelling(c) = <<c>>
    BY <1>4 DEF ExtraOf, Spelling
  <2>2. Written(c) = [k \in {0} |-> c]
    BY <1>4 DEF Written, Short
  <2> QED
    BY <1>4, <2>1, <2>2
<1> QED
  BY <1>1, <1>2, <1>3, <1>4

\* Two places, and the place behind a character.
LEMMA Spaced ==
  ASSUME NEW q, NEW n \in Nat, NEW at, Ends(at, q, n),
         NEW i \in 0 .. n, NEW j \in 0 .. n, i <= j
  PROVE  at[0] = 0 /\ at[i] \in Nat /\ at[j] \in Nat /\ at[i] + (j - i) <= at[j]
<1> QED
  BY DEF Ends
LEMMA NextEnd ==
  ASSUME NEW q, NEW n \in Nat, NEW at, Ends(at, q, n), NEW j \in 1 .. n
  PROVE  at[j] = at[j - 1] + Width(q[j])
<1> QED
  BY DEF Ends

\* One more character counted.
LEMMA OneMoreCounted ==
  ASSUME NEW q \in Seq(Characters), NEW n \in Nat, n + 1 \in 1 .. Len(q),
         NEW at, Ends(at, q, n)
  PROVE  \E more : Ends(more, q, n + 1) /\ more[n + 1] = at[n] + Width(q[n + 1])
<1> DEFINE e == Width(q[n + 1])
           end == at[n] + e
           more == [j \in 0 .. n + 1 |-> IF j = n + 1 THEN end ELSE at[j]]
<1>1. e \in Nat \ {0}
  <2>1. q[n + 1] \in Characters
    BY ElementOfSeq
  <2> QED
    BY <2>1, Spelt
<1> HIDE DEF e
<1>2. at[0] = 0 /\ \A j \in 0 .. n : at[j] \in Nat
  BY DEF Ends
<1>3. at[n] \in Nat /\ end \in Nat /\ at[n] + 1 <= end
  <2>1. n \in 0 .. n
    OBVIOUS
  <2>2. at[n] \in Nat
    BY <1>2, <2>1
  <2> QED
    BY <1>1, <2>2
<1> HIDE DEF end
<1>4. /\ \A j \in 0 .. n : more[j] = at[j]
      /\ more[n + 1] = end
      /\ more \in [0 .. n + 1 -> Nat]
  <2>1. \A j \in 0 .. n : more[j] = at[j]
    OBVIOUS
  <2>2. more[n + 1] = end
    OBVIOUS
  <2>3. \A j \in 0 .. n + 1 : (IF j = n + 1 THEN end ELSE at[j]) \in Nat
    <3>1. \A j \in 0 .. n + 1 : j # n + 1 => j \in 0 .. n
      OBVIOUS
    <3> QED
      BY <1>2, <1>3, <3>1
  <2>4. more \in [0 .. n + 1 -> Nat]
    BY <2>3
  <2> QED
    BY <2>1, <2>2, <2>4
<1> HIDE DEF more
<1>5. ASSUME NEW j \in 1 .. n + 1 PROVE more[j] = more[j - 1] + Width(q[j])
  <2>1. CASE j = n + 1
    BY <1>4, <2>1 DEF end, e
  <2>2. CASE j # n + 1
    <3>1. j \in 1 .. n /\ j \in 0 .. n /\ j - 1 \in 0 .. n
      BY <2>2
    <3> QED
      BY <1>4, <3>1, NextEnd
  <2> QED
    BY <2>1, <2>2
<1>6. ASSUME NEW i \in 0 .. n + 1, NEW j \in 0 .. n + 1, i <= j
      PROVE  more[i] + (j - i) <= more[j]
  <2>1. CASE j \in 0 .. n
    <3>1. i \in 0 .. n
      BY <1>6, <2>1
    <3>2. at[i] + (j - i) <= at[j]
      BY <1>6, <2>1, <3>1, Spaced
    <3> QED
      BY <1>4, <2>1, <3>1, <3>2
  <2>2. CASE j = n + 1 /\ i \in 0 .. n
    <3>1. n \in 0 .. n /\ i <= n
      BY <2>2
    <3>2. at[i] + (n - i) <= at[n] /\ at[i] \in Nat
      BY <2>2, <3>1, Spaced
    <3>3. more[i] = at[i] /\ more[j] = end
      BY <1>4, <2>2
    <3> QED
      BY <1>3, <2>2, <3>2, <3>3
  <2>3. CASE j = n + 1 /\ i = n + 1
    BY <1>3, <1>4, <2>3
  <2>4. j = n + 1 \/ j \in 0 .. n
    OBVIOUS
  <2>5. i = n + 1 \/ i \in 0 .. n
    OBVIOUS
  <2> QED
    BY <2>1, <2>2, <2>3, <2>4, <2>5
<1>7. Ends(more, q, n + 1)
  <2>1. more[0] = 0
    BY <1>2, <1>4
  <2> QED
    BY <1>4, <1>5, <1>6, <2>1 DEF Ends
<1> QED
  BY <1>4, <1>7 DEF end, e

\* Counting keeps the invariant.
LEMMA CountStep ==
  ASSUME EscapesInv, Count
  PROVE  EscapesInv'
<1>1. /\ stage = "count" /\ passed \in Nat /\ passed + 1 \in 1 .. Len(string)
      /\ passed' = passed + 1 /\ space' = space + ExtraOf(string[passed + 1]) /\ pos = 0
      /\ UNCHANGED <<string, stage, result, pos>>
      /\ string \in Seq(Characters) /\ space \in Nat
  BY DEF Count, EscapesInv
<1>2. PICK at : Ends(at, string, passed) /\ passed + space = at[passed]
  BY <1>1 DEF EscapesInv
<1>3. string[passed + 1] \in Characters
  BY <1>1, ElementOfSeq
<1>4. ExtraOf(string[passed + 1]) \in Nat
  BY <1>3, Spelt
<1>5. passed' + space' = at[passed] + Width(string[passed + 1])
  BY <1>1, <1>2, <1>4 DEF Width
<1>6. \E more : Ends(more, string, passed') /\ more[passed'] = passed' + space'
  BY <1>1, <1>2, <1>5, OneMoreCounted
<1>7. passed' \in 0 .. Len(string') /\ space' \in Nat
  BY <1>1, <1>4
<1>8. \E more : Ends(more, string', passed') /\ passed' + space' = more[passed']
  BY <1>1, <1>6
<1> QED
  BY <1>1, <1>7, <1>8 DEF EscapesInv

\* A string without an escape is its own spelling, and the result of the right
\* size is still all backslashes.
LEMMA AllocateStep ==
  ASSUME EscapesInv, Allocate
  PROVE  EscapesInv'
<1> DEFINE n == Len(string)
<1>1. /\ stage = "count" /\ passed = n /\ n \in Nat /\ pos = 0 /\ passed' = 0
      /\ UNCHANGED <<string, space, pos>>
      /\ string \in Seq(Characters) /\ space \in Nat /\ DOMAIN string = 1 .. n
  BY DEF Allocate, EscapesInv
<1>2. PICK at : Ends(at, string, n) /\ n + space = at[n]
  BY <1>1 DEF EscapesInv
<1>3. CASE space = 0
  <2>1. stage' = "returned" /\ result' = [p \in 0 .. n - 1 |-> string[p + 1]]
    BY <1>3 DEF Allocate
  <2>2. ASSUME NEW j \in 1 .. n PROVE Spelling(string[j]) = <<string[j]>>
    <3>1. /\ j \in 0 .. n /\ j - 1 \in 0 .. n /\ n \in 0 .. n /\ 0 \in 0 .. n
          /\ 0 <= j /\ j <= n /\ 0 <= j - 1 /\ j - 1 <= n
      BY <1>1
    <3>2. /\ at[0] = 0 /\ at[n] = n /\ at[j] \in Nat /\ at[j - 1] \in Nat
          /\ at[0] + (j - 0) <= at[j] /\ at[0] + (j - 1 - 0) <= at[j - 1]
          /\ at[j] + (n - j) <= at[n] /\ at[j - 1] + (n - (j - 1)) <= at[n]
          /\ at[j] = at[j - 1] + Width(string[j])
      <4>1. at[0] = 0 /\ at[j] \in Nat /\ at[0] + (j - 0) <= at[j]
        BY <1>1, <1>2, <3>1, Spaced
      <4>2. at[j - 1] \in Nat /\ at[0] + (j - 1 - 0) <= at[j - 1]
        BY <1>1, <1>2, <3>1, Spaced
      <4>3. at[j] + (n - j) <= at[n]
        BY <1>1, <1>2, <3>1, Spaced
      <4>4. at[j - 1] + (n - (j - 1)) <= at[n]
        BY <1>1, <1>2, <3>1, Spaced
      <4>5. at[j] = at[j - 1] + Width(string[j])
        BY <1>1, <1>2, NextEnd
      <4>6. at[n] = n
        BY <1>1, <1>2, <1>3
      <4> QED
        BY <4>1, <4>2, <4>3, <4>4, <4>5, <4>6
    <3>3. at[j] = j /\ at[j - 1] = j - 1
      BY <1>1, <3>1, <3>2
    <3>4. string[j] \in Characters
      BY <1>1, ElementOfSeq
    <3>5. Width(string[j]) = 1
      <4>1. Width(string[j]) \in Nat
        BY <3>4, Spelt
      <4>2. j = (j - 1) + Width(string[j]) /\ j \in Nat
        BY <3>1, <3>2, <3>3
      <4> QED
        BY <4>1, <4>2
    <3> QED
      BY <3>4, <3>5, Spelt
  <2> DEFINE start == [j \in 1 .. n |-> j - 1]
  <2>3. start \in [DOMAIN string' -> DOMAIN result']
    BY <1>1, <2>1
  <2>4. ASSUME NEW j \in DOMAIN string'
        PROVE  LET spelling == Spelling(string'[j])
                   end == start[j] + Len(spelling) IN
               /\ j = 1 => start[j] = 0
               /\ \A k \in 1 .. Len(spelling) : result'[start[j] + k - 1] = spelling[k]
               /\ end = IF j = Len(string') THEN Len(string') + space' ELSE start[j + 1]
    <3>1. j \in 1 .. n /\ start[j] = j - 1 /\ (j # n => start[j + 1] = j)
      BY <1>1
    <3>2. /\ Spelling(string[j]) = <<string[j]>> /\ Len(<<string[j]>>) = 1
          /\ result'[j - 1] = string[j]
      BY <1>1, <2>1, <2>2, <3>1
    <3> QED
      BY <1>1, <1>3, <3>1, <3>2
  <2> HIDE DEF start
  <2>5. Spells'
    BY <2>3, <2>4 DEF Spells
  <2>6. DOMAIN result' = 0 .. Len(string') + space' - 1
    BY <1>1, <1>3, <2>1
  <2> QED
    BY <1>1, <2>1, <2>5, <2>6 DEF EscapesInv
<1>4. CASE space # 0
  <2>1. stage' = "write" /\ result' = [p \in 0 .. n + space - 1 |-> Backslash]
    BY <1>4 DEF Allocate
  <2>2. /\ DOMAIN result' = 0 .. Len(string') + space' - 1
        /\ \A p \in pos' .. Len(string') + space' - 1 : result'[p] = Backslash
    BY <1>1, <2>1
  <2>3. /\ Ends(at, string', Len(string')) /\ Len(string') + space' = at[Len(string')]
        /\ pos' = at[passed'] /\ SpelledAt(at, string', result', passed')
    <3>1. UNCHANGED <<string, space, pos>> /\ pos = 0 /\ passed' = 0 /\ n \in Nat
      BY <1>1
    <3>2. at[0] = 0
      BY <1>2 DEF Ends
    <3>3. SpelledAt(at, string', result', 0)
      BY DEF SpelledAt
    <3> QED
      BY <1>2, <3>1, <3>2, <3>3
  <2> QED
    BY <1>1, <2>1, <2>2, <2>3 DEF EscapesInv
<1> QED
  BY <1>3, <1>4

\* Every write is inside the result, behind what was written before.
LEMMA WriteStep ==
  ASSUME EscapesInv, Write
  PROVE  EscapesInv'
<1> DEFINE n == Len(string)
           size == n + space
           c == string[passed + 1]
<1>1. stage = "write" /\ UNCHANGED <<string, stage, space>> /\ passed' = passed + 1
  BY DEF Write
<1>2. string \in Seq(Characters) /\ n \in Nat /\ space \in Nat /\ pos \in Nat /\ size \in Nat
  BY DEF EscapesInv
<1>3. passed \in Nat /\ passed + 1 \in 1 .. n
  BY <1>2 DEF Write, EscapesInv
<1>4. DOMAIN result = 0 .. size - 1 /\ \A p \in pos .. size - 1 : result[p] = Backslash
  BY <1>1 DEF EscapesInv
<1>5. PICK at : /\ Ends(at, string, n) /\ size = at[n]
                /\ pos = at[passed] /\ SpelledAt(at, string, result, passed)
  BY <1>1 DEF EscapesInv
<1>6. c \in Characters
  BY <1>2, <1>3, ElementOfSeq
<1> DEFINE w == Written(c)
           e == Width(c)
<1>7. /\ e \in Nat \ {0} /\ DOMAIN w \subseteq 0 .. e - 1
      /\ \A k \in 1 .. e :
           Spelling(c)[k] = IF k - 1 \in DOMAIN w THEN w[k - 1] ELSE Backslash
      /\ pos' = pos + e
  BY <1>6, Spelt DEF Write
<1>8. result' = [p \in DOMAIN result \cup {pos + k : k \in DOMAIN w} |->
                   IF p - pos \in DOMAIN w THEN w[p - pos] ELSE result[p]]
  BY DEF Write, Overwrite
<1> HIDE DEF n, size, c, w, e
<1>9. /\ passed \in 0 .. n /\ passed + 1 \in 0 .. n /\ n \in 0 .. n /\ passed + 1 <= n
      /\ (passed + 1) - 1 = passed
  BY <1>2, <1>3
<1>10. at[passed + 1] = pos + e /\ at[passed + 1] <= size
  <2>1. at[passed + 1] = at[(passed + 1) - 1] + Width(string[passed + 1])
    BY <1>2, <1>3, <1>5, NextEnd
  <2>2. at[passed + 1] \in Nat /\ at[passed + 1] + (n - (passed + 1)) <= at[n]
    BY <1>2, <1>5, <1>9, Spaced
  <2>3. at[passed + 1] = pos + e
    BY <1>5, <1>9, <2>1 DEF c, e
  <2> QED
    BY <1>2, <1>3, <1>5, <1>9, <2>2, <2>3
<1>11. /\ DOMAIN result' = 0 .. size - 1
       /\ \A p \in 0 .. pos - 1 : result'[p] = result[p]
       /\ \A p \in pos + e .. size - 1 : result'[p] = result[p]
       /\ \A k \in 1 .. e : result'[pos + k - 1] =
            IF k - 1 \in DOMAIN w THEN w[k - 1] ELSE result[pos + k - 1]
  <2>1. /\ pos + e <= size /\ e \in Nat \ {0} /\ DOMAIN w \subseteq 0 .. e - 1
        /\ pos \in Nat /\ size \in Nat
    BY <1>2, <1>7, <1>10
  <2>2. ASSUME NEW k \in DOMAIN w PROVE pos + k \in 0 .. size - 1
    <3>1. k \in 0 .. e - 1
      BY <2>1
    <3> QED
      BY <2>1, <3>1
  <2>3. DOMAIN result \cup {pos + k : k \in DOMAIN w} = 0 .. size - 1
    BY <1>4, <2>2
  <2>4. result' = [p \in 0 .. size - 1 |->
                     IF p - pos \in DOMAIN w THEN w[p - pos] ELSE result[p]]
    BY <1>8, <2>3
  <2>5. ASSUME NEW p \in 0 .. size - 1, p < pos \/ p >= pos + e
        PROVE  result'[p] = result[p]
    <3>1. p - pos \notin 0 .. e - 1
      BY <2>1, <2>5
    <3> QED
      BY <2>1, <2>4, <3>1
  <2>6. ASSUME NEW k \in 1 .. e
        PROVE  result'[pos + k - 1] =
                 IF k - 1 \in DOMAIN w THEN w[k - 1] ELSE result[pos + k - 1]
    <3>1. pos + k - 1 \in 0 .. size - 1 /\ (pos + k - 1) - pos = k - 1
      BY <2>1
    <3> QED
      BY <2>4, <3>1
  <2>7. \A p \in 0 .. pos - 1 : p \in 0 .. size - 1 /\ p < pos
    BY <2>1
  <2>8. \A p \in pos + e .. size - 1 : p \in 0 .. size - 1 /\ p >= pos + e
    BY <2>1
  <2> QED
    BY <2>4, <2>5, <2>6, <2>7, <2>8
<1>12. ASSUME NEW k \in 1 .. e
       PROVE  result'[pos + k - 1] = Spelling(c)[k]
  <2>1. pos + k - 1 \in pos .. size - 1
    BY <1>2, <1>7, <1>10
  <2> QED
    BY <1>4, <1>7, <1>11, <2>1
<1>13. \A p \in pos' .. size - 1 : result'[p] = Backslash
  <2>1. \A p \in pos + e .. size - 1 : p \in pos .. size - 1
    BY <1>2, <1>7
  <2> QED
    BY <1>4, <1>7, <1>11, <2>1
<1>14. SpelledAt(at, string, result', passed + 1)
  <2> SUFFICES ASSUME NEW j \in 1 .. passed + 1, NEW k \in 1 .. Width(string[j])
               PROVE  result'[at[j - 1] + k - 1] = Spelling(string[j])[k]
    BY DEF SpelledAt
  <2>1. CASE j = passed + 1
    <3>1. string[j] = c /\ k \in 1 .. e /\ at[j - 1] = pos
      BY <1>5, <1>9, <2>1 DEF c, e
    <3> QED
      BY <1>12, <3>1
  <2>2. CASE j \in 1 .. passed
    <3>1. /\ j \in 1 .. n /\ j \in 0 .. n /\ j - 1 \in 0 .. n /\ j <= passed
      BY <1>2, <1>9, <2>2
    <3>2. string[j] \in Characters
      BY <1>2, <3>1, ElementOfSeq DEF n
    <3>3. Width(string[j]) \in Nat
      BY <3>2, Spelt
    <3>4. /\ at[j - 1] \in Nat /\ at[j] \in Nat
          /\ at[j] = at[j - 1] + Width(string[j])
          /\ at[j] + (passed - j) <= at[passed]
      <4>1. at[j] = at[j - 1] + Width(string[j])
        BY <1>2, <1>5, <3>1, NextEnd
      <4>2. at[j] \in Nat /\ at[j] + (passed - j) <= at[passed]
        BY <1>2, <1>5, <1>9, <3>1, Spaced
      <4>3. at[j - 1] \in Nat
        BY <1>2, <1>5, <3>1, Spaced
      <4> QED
        BY <4>1, <4>2, <4>3
    <3>5. at[j] <= pos
      BY <1>2, <1>3, <1>5, <3>1, <3>4
    <3>6. at[j - 1] + k - 1 \in 0 .. pos - 1
      BY <1>2, <3>3, <3>4, <3>5
    <3>7. result[at[j - 1] + k - 1] = Spelling(string[j])[k]
      BY <1>5, <2>2 DEF SpelledAt
    <3> QED
      BY <1>11, <3>6, <3>7
  <2> QED
    BY <1>3, <2>1, <2>2
<1>15. /\ DOMAIN result' = 0 .. Len(string) + space - 1
       /\ \A p \in pos' .. Len(string) + space - 1 : result'[p] = Backslash
  <2>1. Len(string) + space - 1 = size - 1
    BY <1>2 DEF n, size
  <2>2. DOMAIN result' = 0 .. Len(string) + space - 1
    BY <1>11, <2>1
  <2> QED
    BY <1>13, <2>1, <2>2
<1>16. /\ Ends(at, string', Len(string')) /\ Len(string') + space' = at[Len(string')]
       /\ pos' = at[passed'] /\ SpelledAt(at, string', result', passed')
  BY <1>1, <1>5, <1>7, <1>10, <1>14 DEF n, size
<1>17. /\ string' \in Seq(Characters) /\ passed' \in 0 .. Len(string')
       /\ space' \in Nat /\ pos' \in Nat
  BY <1>1, <1>2, <1>7, <1>9 DEF n
<1> QED
  BY <1>1, <1>15, <1>16, <1>17 DEF EscapesInv

\* When all characters are written the room is used up.
LEMMA ReturnStep ==
  ASSUME EscapesInv, Return
  PROVE  EscapesInv'
<1> DEFINE n == Len(string)
<1>1. /\ stage = "write" /\ stage' = "returned" /\ passed = n
      /\ UNCHANGED <<string, passed, space, result, pos>>
  BY DEF Return
<1>2. string \in Seq(Characters) /\ n \in Nat /\ DOMAIN string = 1 .. n /\ space \in Nat
  BY DEF EscapesInv
<1>3. DOMAIN result = 0 .. n + space - 1
  BY <1>1 DEF EscapesInv
<1>4. PICK at : /\ Ends(at, string, n) /\ n + space = at[n]
                /\ SpelledAt(at, string, result, n)
  BY <1>1 DEF EscapesInv
<1> HIDE DEF n
<1>5. ASSUME NEW j \in 1 .. n
      PROVE  /\ at[j - 1] \in 0 .. n + space - 1
             /\ at[j - 1] + Len(Spelling(string[j])) = at[j]
             /\ Len(Spelling(string[j])) = Width(string[j])
             /\ j = 1 => at[j - 1] = 0
             /\ j # n => at[(j + 1) - 1] = at[j]
             /\ j = n => at[j] = n + space
  <2>1. /\ j \in 0 .. n /\ j - 1 \in 0 .. n /\ n \in 0 .. n /\ j <= n /\ j - 1 <= n
        /\ (j + 1) - 1 = j
    BY <1>2
  <2>2. string[j] \in Characters
    BY <1>2, ElementOfSeq DEF n
  <2>3. /\ Width(string[j]) \in Nat \ {0}
        /\ Len(Spelling(string[j])) = Width(string[j])
    BY <2>2, Spelt
  <2>4. /\ at[0] = 0 /\ at[j] \in Nat /\ at[j - 1] \in Nat
        /\ at[j] = at[j - 1] + Width(string[j])
        /\ at[j] + (n - j) <= n + space
    <3>1. at[0] = 0 /\ at[j] \in Nat /\ at[j] + (n - j) <= n + space
      BY <1>2, <1>4, <2>1, Spaced
    <3>2. at[j - 1] \in Nat
      BY <1>2, <1>4, <2>1, Spaced
    <3>3. at[j] = at[j - 1] + Width(string[j])
      BY <1>2, <1>4, NextEnd
    <3> QED
      BY <3>1, <3>2, <3>3
  <2>5. at[j - 1] \in 0 .. n + space - 1
    BY <1>2, <2>1, <2>3, <2>4
  <2>6. j = 1 => at[j - 1] = 0
    BY <2>4
  <2>7. j = n => at[j] = n + space
    BY <1>4
  <2> QED
    BY <2>1, <2>3, <2>4, <2>5, <2>6, <2>7
<1> DEFINE start == [j \in 1 .. n |-> at[j - 1]]
<1>6. start \in [DOMAIN string -> DOMAIN result]
  BY <1>2, <1>3, <1>5
<1>7. ASSUME NEW j \in DOMAIN string
      PROVE  LET spelling == Spelling(string[j])
                 end == start[j] + Len(spelling) IN
             /\ j = 1 => start[j] = 0
             /\ \A k \in 1 .. Len(spelling) : result[start[j] + k - 1] = spelling[k]
             /\ end = IF j = Len(string) THEN Len(string) + space ELSE start[j + 1]
  <2>1. j \in 1 .. n /\ (j # n => j + 1 \in 1 .. n)
    BY <1>2
  <2>2. start[j] = at[j - 1] /\ (j # n => start[j + 1] = at[(j + 1) - 1])
    BY <2>1
  <2> HIDE DEF start
  <2>3. \A k \in 1 .. Width(string[j]) : result[start[j] + k - 1] = Spelling(string[j])[k]
    BY <1>4, <2>1, <2>2 DEF SpelledAt
  <2>4. /\ j = 1 => start[j] = 0
        /\ start[j] + Len(Spelling(string[j])) = IF j = n THEN n + space ELSE start[j + 1]
    BY <1>5, <2>1, <2>2
  <2> QED
    BY <1>5, <2>1, <2>3, <2>4 DEF n
<1> HIDE DEF start
<1>8. Spells
  BY <1>6, <1>7 DEF Spells
<1> QED
  BY <1>1, <1>2, <1>3, <1>8 DEF EscapesInv, Spells, n

\* No step of the two functions breaks the invariant.
LEMMA EscapesInvariant == EscapesSpec => []EscapesInv
<1>1. ASSUME EscapesInit PROVE EscapesInv
  <2>1. string \in Seq(Characters) /\ Len(string) \in Nat
    BY <1>1, EscapesAssumption DEF EscapesInit, Characters
  <2> DEFINE at == [j \in 0 .. 0 |-> 0]
  <2>2. Ends(at, string, 0) /\ at[0] = 0
    BY DEF Ends
  <2> HIDE DEF at
  <2> QED
    BY <1>1, <2>1, <2>2 DEF EscapesInit, EscapesInv
<1>2. ASSUME EscapesInv, [EscapesNext]_escaping PROVE EscapesInv'
  <2>1. CASE UNCHANGED escaping
    BY <1>2, <2>1 DEF escaping, EscapesInv, Spells
  <2> QED
    BY <1>2, <2>1, CountStep, AllocateStep, WriteStep, ReturnStep DEF EscapesNext
<1> QED
  BY <1>1, <1>2, PTL DEF EscapesSpec

\* However long a string is and whatever characters it has, escape_string writes
\* inside the room that extra_space counted for it, and fills it.
THEOREM EscapesAlwaysFit == EscapesSpec => []EscapesFit
<1>1. EscapesInv => EscapesFit
  BY DEF EscapesInv, EscapesFit
<1> QED
  BY <1>1, EscapesInvariant, PTL
=============================================================================
