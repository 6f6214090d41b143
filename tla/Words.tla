-------------------------------- MODULE Words --------------------------------
(***************************************************************************)
(* What json.hpp and protocol.cpp should make of a text, stated without a  *)
(* scanner, a parser or a recursive descent, and compared with them on     *)
(* every text that can be put together from a few lexemes.                 *)
(***************************************************************************)
EXTENDS Wire, FiniteSets

CONSTANT Longest  \* Longest[kind]: lexemes in a text of that kind: a bound

Kinds == {"structure", "members", "number", "string", "id", "stream"}

\* The lexemes: their bytes, and what each stands for.
Lex(text, means) == [text |-> text, means |-> means]
Zero == NumberOf("number_unsigned", 0)
KeyA == <<QUOTE, 97, QUOTE>>
KeyB == <<QUOTE, 98, QUOTE>>
Mark(c) == [mark |-> c]
Sign(c) == Lex(<<c>>, <<Mark(c)>>)
NotJson == [none |-> TRUE]
Escape_u(hex, unit) == Lex(<<BACKSLASH, LETTER_u>> \o hex, unit)

Brackets == {Sign(91), Sign(93), Sign(44)}
Alphabet(kind) ==
  CASE kind = "structure" -> Brackets \cup
         {Sign(123), Sign(125), Sign(58),
          Lex(KeyA, <<Text(<<97>>)>>), Lex(<<48>>, <<Zero>>)}
    [] kind = "members" -> Brackets \cup
         {Lex(<<123>> \o KeyA \o <<58>>, <<Mark(123), Text(<<97>>), Mark(58)>>),
          Lex(<<44, 32>> \o KeyA \o <<58>>, <<Mark(44), Text(<<97>>), Mark(58)>>),
          Lex(<<44>> \o KeyB \o <<9, 58, 10>>, <<Mark(44), Text(<<98>>), Mark(58)>>),
          Sign(125), Lex(None, <<Null>>), Lex(<<32, 48>>, <<Zero>>)}
    [] kind = "number" ->
         {Lex(<<c>>, c) : c \in {MINUS, PLUS, DOT, ZERO, 50, 53, 69}}
    [] kind = "string" ->
         {Lex(<<97>>, 97), Lex(<<195, 169>>, 233), Lex(<<BACKSLASH, 110>>, 10),
          Lex(<<BACKSLASH, QUOTE>>, QUOTE), Lex(<<BACKSLASH, BACKSLASH>>, BACKSLASH),
          Escape_u(<<48, 48, 49, 70>>, 31), Escape_u(<<48, 55, 70, 70>>, 2047),
          Escape_u(<<50, 48, 97, 67>>, 8364), Escape_u(<<68, 56, 51, 68>>, 55357),
          Escape_u(<<68, 69, 48, 48>>, 56832), Lex(<<10>>, -1),
          Lex(<<BACKSLASH, 120>>, -1)}
    [] kind = "id" -> {Lex(<<c>>, c) : c \in {QUOTE, BACKSLASH, 47, LETTER_u, 10, 31, 127, 200}}
    [] kind = "stream" ->
         {Lex(makeRequest(CONNECT, <<52>>), [type |-> CONNECT, node_id |-> <<52>>]),
          Lex(makeResponse(TRUE, <<>>), [type |-> <<>>]), Lex(<<83>>, NotJson)}

VARIABLES kind, word

WordsInit == kind \in Kinds /\ word = <<>>

Extend ==
  /\ Len(word) < Longest[kind]
  /\ \E x \in Alphabet(kind) : word' = Append(word, x)
  /\ UNCHANGED kind

\* The texts, and the sequence of what their lexemes stand for.
text == FlattenSeq([i \in DOMAIN word |-> word[i].text])
tokens == FlattenSeq([i \in DOMAIN word |-> word[i].means])
meanings == [i \in DOMAIN word |-> word[i].means]

-----------------------------------------------------------------------------
(* The structure of a text *)

Level(t, i) == Cardinality({k \in 1 .. i : t[k] \in {Mark(91), Mark(123)}})
             - Cardinality({k \in 1 .. i : t[k] \in {Mark(93), Mark(125)}})

\* The parts between the commas that no bracket encloses.
Parts(t) ==
  LET commas == InOrder({<<i>> : i \in {i \in DOMAIN t : t[i] = Mark(44) /\ Level(t, i) = 0}})
      cuts == <<<<0>>>> \o commas \o <<<<Len(t) + 1>>>> IN
  [n \in 1 .. Len(cuts) - 1 |-> SubSeq(t, cuts[n][1] + 1, cuts[n + 1][1] - 1)]

IsValue(x) == "mark" \notin DOMAIN x
AllOk(rs) == \A i \in DOMAIN rs : rs[i].ok

\* The value that a sequence of tokens is the text of.
RECURSIVE Meaning(_)
Meaning(t) ==
  LET inner == SubSeq(t, 2, Len(t) - 1)
      parts == IF inner = <<>> THEN <<>> ELSE Parts(inner)
      enclosed(open, close) == Len(t) >= 2 /\ t[1] = Mark(open) /\ t[Len(t)] = Mark(close)
      elements == [i \in DOMAIN parts |-> Meaning(parts[i])]
      pair(p) == Len(p) > 2 /\ IsValue(p[1]) /\ p[1].type = "string" /\ p[2] = Mark(58)
      values == [i \in DOMAIN parts |-> Meaning(SubSeq(parts[i], 3, Len(parts[i])))]
      keys == {parts[i][1].string : i \in DOMAIN parts}
      last(k) == CHOOSE i \in DOMAIN parts :
                   /\ parts[i][1].string = k
                   /\ \A j \in DOMAIN parts : parts[j][1].string = k => j <= i IN
  CASE Len(t) = 1 /\ IsValue(t[1]) -> Returns(t[1])
    [] enclosed(91, 93) -> IF AllOk(elements)
         THEN Returns(Array([i \in DOMAIN parts |-> elements[i].value])) ELSE Throws
    [] enclosed(123, 125) -> IF (\A i \in DOMAIN parts : pair(parts[i])) /\ AllOk(values)
         THEN Returns(Object([k \in keys |-> values[last(k)].value])) ELSE Throws
    [] OTHER -> Throws

\* The parser accepts exactly the texts of JSON's grammar, with the value that
\* the grammar gives them; of two equal keys the later one counts.
Grammar == kind \in {"structure", "members"} => parse(text) = Meaning(tokens)

-----------------------------------------------------------------------------
(* Numbers *)

\* The forms of RFC 7159: the integer's text, then what makes it a fraction.
AllDigits(q) == q # <<>> /\ \A i \in DOMAIN q : q[i] \in Digit
IsInteger(q) ==
  LET digits == IF q # <<>> /\ Head(q) = MINUS THEN Tail(q) ELSE q IN
  AllDigits(digits) /\ (Len(digits) > 1 => Head(digits) # ZERO)
IsFraction(q) == q = <<>> \/ (Head(q) = DOT /\ AllDigits(Tail(q)))
IsExponent(q) ==
  \/ q = <<>>
  \/ /\ Head(q) = 69
     /\ \/ AllDigits(Tail(q))
        \/ Len(q) > 1 /\ q[2] \in {PLUS, MINUS} /\ AllDigits(Tail(Tail(q)))
IsNumber(q) ==
  \E i \in 0 .. Len(q) : \E j \in i .. Len(q) :
    /\ IsInteger(SubSeq(q, 1, i))
    /\ IsFraction(SubSeq(q, i + 1, j))
    /\ IsExponent(SubSeq(q, j + 1, Len(q)))

\* The digits' weights are powers of ten.
Weighed(q) == FoldSeq(LAMBDA t, sum : t + sum, 0,
                [i \in DOMAIN q |-> (q[i] - 48) * 10^(Len(q) - i)])
Worth(q) == IF Head(q) = MINUS THEN -Weighed(Tail(q)) ELSE Weighed(q)

\* A text of digits and signs is parsed as a number when it is one, and an
\* integer that the integer types hold is that integer; signed and unsigned
\* integers that both types hold compare as integers do.
SignedRange == -(2^(Width - 1)) .. 2^(Width - 1) - 1
ReadExactly(r, q) ==
  /\ r.ok <=> IsNumber(q)
  /\ r.ok /\ ~IsInteger(q) => r.value.type = "number_float"
  /\ r.ok /\ IsInteger(q) /\ Worth(q) \in -(2^(Width - 1)) .. 2^Width - 1
       => r.value.type # "number_float" /\ r.value.number = Worth(q)
OrderedAs(v, w, m, n) == (Less(v, w) <=> m < n) /\ (Equal(v, w) <=> m = n)
NumbersExact ==
  kind = "number" =>
    LET r == parse(text)
        t == Tail(text) IN
    /\ ReadExactly(r, text)
    /\ Len(text) > 1 /\ IsInteger(text) /\ IsInteger(t) /\ {Worth(text), Worth(t)} \subseteq SignedRange
         => OrderedAs(r.value, parse(t).value, Worth(text), Worth(t))

-----------------------------------------------------------------------------
(* Strings *)

\* The code points that bytes of UTF-8 encode.
RECURSIVE Points(_)
Points(q) ==
  LET rest(n) == Points(SubSeq(q, n + 1, Len(q)))
      low(i) == q[i] - 128 IN
  CASE q = <<>> -> <<>>
    [] q # <<>> /\ q[1] < 128 -> <<q[1]>> \o rest(1)
    [] q # <<>> /\ q[1] \in 192 .. 223 -> <<(q[1] - 192) * 64 + low(2)>> \o rest(2)
    [] q # <<>> /\ q[1] \in 224 .. 239 ->
         <<(q[1] - 224) * 4096 + low(2) * 64 + low(3)>> \o rest(3)
    [] OTHER -> <<(q[1] - 240) * 262144 + low(2) * 4096 + low(3) * 64 + low(4)>> \o rest(4)

\* The code points of UTF-16 units: a high surrogate needs its low one next.
RECURSIVE Paired(_)
Paired(units) ==
  LET after(n) == Paired(SubSeq(units, n + 1, Len(units)))
      then(point, rest) == IF rest.ok THEN Returns(<<point>> \o rest.value) ELSE Throws IN
  IF units = <<>> THEN Returns(<<>>)
  ELSE IF ~HighSurrogate(units[1]) THEN then(units[1], after(1))
  ELSE IF Len(units) > 1 /\ LowSurrogate(units[2])
       THEN then(65536 + (units[1] - 55296) * 1024 + (units[2] - 56320), after(2))
       ELSE Throws

\* A quoted text is the string of the characters it spells, in UTF-8, whether
\* they are written out or escaped.
StringsSpelled ==
  kind = "string" =>
    LET r == parse(<<QUOTE>> \o text \o <<QUOTE>>)
        spelled == Paired(meanings) IN
    IF \E i \in DOMAIN word : word[i].means = -1 THEN ~r.ok
    ELSE /\ r.ok <=> spelled.ok
         /\ r.ok => Points(r.value.string) = spelled.value

-----------------------------------------------------------------------------
(* What is printed is read back *)

ReadsBack(v) ==
  \A pretty \in BOOLEAN :
    LET r == parse(DumpAt(v, pretty, 2, 0)) IN r.ok /\ Equal(r.value, v)

\* dump, compact or pretty, prints a text that parses as the same value.
RoundTrip ==
  LET r == parse(IF kind = "string" THEN <<QUOTE>> \o text \o <<QUOTE>> ELSE text) IN
  kind \in {"structure", "members", "string"} /\ r.ok => ReadsBack(r.value)

\* A service id reaches spd as it was given to sp, whatever characters it has.
IdsSurvive ==
  kind = "id" => Received(makeRequest(REGISTER, text)) =
                   Returns([type |-> REGISTER, node_id |-> text])

\* Of a stream of packets and other bytes, what one recv returns is a request
\* only if it is one whole packet: no part, no two, none with bytes behind.
Unpadded(q) == SelectSeq(q, LAMBDA c : c # 10)
Framing ==
  kind = "stream" =>
    \A i \in 1 .. Len(text) : \A j \in i - 1 .. Len(text) :
      LET recv == SubSeq(text, i, j)
          whole == {x.means : x \in {x \in Alphabet("stream") :
                      x.means # NotJson /\ Unpadded(x.text) = Unpadded(recv)}} IN
      Received(recv) \in IF whole = {} THEN {Throws} ELSE {Returns(m) : m \in whole}
=============================================================================
