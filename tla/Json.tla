-------------------------------- MODULE Json --------------------------------
(***************************************************************************)
(* The vendored json.hpp as the programs use it: the scanner, the parser,  *)
(* the values, and dump.  Every packet goes through all of them.           *)
(*                                                                         *)
(* A text is a sequence of bytes.  The scanner is the longest match of     *)
(* re2c's automaton; what a floating-point number is worth, and how it is  *)
(* printed, is left out, and so is the parser's callback, which no program *)
(* passes.                                                                 *)
(***************************************************************************)
EXTENDS Integers, SequencesExt

CONSTANT Width  \* bits of the integer types: 64 in the code

ASSUME WidthAssumption == Width \in Nat \ {0}

QUOTE == 34
PLUS == 43
COMMA == 44
MINUS == 45
DOT == 46
ZERO == 48
COLON == 58
BACKSLASH == 92
LETTER_u == 117

Digit == 48 .. 57
Hex == Digit \cup 65 .. 70 \cup 97 .. 102
Blank == {9, 10, 13, 32}
ByteOrderMark == <<239, 187, 191>>

\* The byte that each two-character escape stands for.
Unescaped == 34 :> 34 @@ 92 :> 92 @@ 47 :> 47 @@ 98 :> 8 @@ 102 :> 12
             @@ 110 :> 10 @@ 114 :> 13 @@ 116 :> 9

True == <<116, 114, 117, 101>>
False == <<102, 97, 108, 115, 101>>
None == <<110, 117, 108, 108>>
Literals == True :> "literal_true" @@ False :> "literal_false" @@ None :> "literal_null"
Punctuation == 91 :> "begin_array" @@ 123 :> "begin_object" @@ 93 :> "end_array"
               @@ 125 :> "end_object" @@ 58 :> "name_separator"
               @@ 44 :> "value_separator"

-----------------------------------------------------------------------------
(* lexer *)

\* Past the end, fill_line_buffer pads with NULs.
At(q, i) == IF i \in DOMAIN q THEN q[i] ELSE 0

StartsAt(q, i, t) == \A k \in DOMAIN t : At(q, i + k - 1) = t[k]

RECURSIVE After(_, _, _)
After(q, i, bytes) == IF At(q, i) \in bytes THEN After(q, i + 1, bytes) ELSE i

RECURSIVE SkipBlanks(_, _)
SkipBlanks(q, i) ==
  CASE At(q, i) \in Blank -> SkipBlanks(q, i + 1)
    [] StartsAt(q, i, ByteOrderMark) -> SkipBlanks(q, i + 3)
    [] OTHER -> i

FourHex(q, i) == \A k \in 0 .. 3 : At(q, i + k) \in Hex

\* Where the string whose characters begin at i ends, 0 if it is none.
RECURSIVE StringEnd(_, _)
StringEnd(q, i) ==
  LET c == At(q, i)
      escape == At(q, i + 1) IN
  CASE c = QUOTE -> i + 1
    [] c = BACKSLASH /\ escape \in DOMAIN Unescaped -> StringEnd(q, i + 2)
    [] c = BACKSLASH /\ escape = LETTER_u /\ FourHex(q, i + 2) -> StringEnd(q, i + 6)
    [] c >= 32 /\ c # QUOTE /\ c # BACKSLASH -> StringEnd(q, i + 1)
    [] OTHER -> 0

\* Where a number ends: after its integer, fraction and exponent.
IntegerEnd(q, i) ==
  LET d == IF At(q, i) = MINUS THEN i + 1 ELSE i IN
  CASE At(q, d) = ZERO -> d + 1
    [] At(q, d) \in Digit \ {ZERO} -> After(q, d, Digit)
    [] OTHER -> 0
FractionEnd(q, i) ==
  IF At(q, i) = DOT /\ At(q, i + 1) \in Digit THEN After(q, i + 1, Digit) ELSE i
ExponentEnd(q, i) ==
  LET d == IF At(q, i + 1) \in {PLUS, MINUS} THEN i + 2 ELSE i + 1 IN
  IF At(q, i) \in {69, 101} /\ At(q, d) \in Digit THEN After(q, d, Digit) ELSE i
NumberEnd(q, i) ==
  LET e == IntegerEnd(q, i) IN IF e = 0 THEN 0 ELSE ExponentEnd(q, FractionEnd(q, e))

\* The token that begins at s.  A NUL is the end of the input wherever it stands.
TokenAt(q, s, c) ==
  LET token(type, next) == [type |-> IF next = 0 THEN "parse_error" ELSE type,
                            start |-> s, next |-> next]
      literal == {t \in DOMAIN Literals : StartsAt(q, s, t)} IN
  CASE c = 0 -> token("end_of_input", s)
    [] c \in DOMAIN Punctuation -> token(Punctuation[c], s + 1)
    [] c = QUOTE -> token("value_string", StringEnd(q, s + 1))
    [] c \in Digit \cup {MINUS} -> token("value_number", NumberEnd(q, s))
    [] literal # {} -> LET t == CHOOSE t \in literal : TRUE IN
                       token(Literals[t], s + Len(t))
    [] OTHER -> token("parse_error", 0)

\* The next token at or after i.
scan(q, i) == LET s == SkipBlanks(q, i) IN TokenAt(q, s, At(q, s))

HexValue(c) == CASE c \in Digit -> c - 48 [] c \in 65 .. 70 -> c - 55 [] OTHER -> c - 87
CodeUnit(q, i) == FoldLeft(LAMBDA n, c : 16 * n + HexValue(c), 0, SubSeq(q, i, i + 3))

HighSurrogate(u) == u \in 55296 .. 56319
LowSurrogate(u) == u \in 56320 .. 57343

\* UTF-8; the shifts and masks of the code as quotients and remainders.
Continuation(n) == 128 + (n % 64)
Utf8(n) ==
  CASE n < 128 -> <<n>>
    [] n \in 128 .. 2047 -> <<192 + n \div 64, Continuation(n)>>
    [] n \in 2048 .. 65535 ->
         <<224 + n \div 4096, Continuation(n \div 64), Continuation(n)>>
    [] OTHER -> <<240 + n \div 262144, Continuation(n \div 4096),
                  Continuation(n \div 64), Continuation(n)>>
LowTakenTwice(u1, u2) == u1 * 1024 + u2 - 56613888 + 56320
CodePoint(u1, u2) == u1 * 1024 + u2 - 56613888
to_unicode(u1, u2) == Utf8(IF HighSurrogate(u1) THEN CodePoint(u1, u2) ELSE u1)

Throws == [ok |-> FALSE]
Returns(v) == [ok |-> TRUE, value |-> v]

\* The characters of q from i to before its quote at e.
RECURSIVE Characters(_, _, _)
Characters(q, i, e) ==
  LET then(bytes, next) ==
        LET rest == Characters(q, next, e) IN
        IF rest.ok THEN Returns(bytes \o rest.value) ELSE Throws
      unit == CodeUnit(q, i + 2)
      low == CodeUnit(q, i + 8)
      paired == q[i + 6] = BACKSLASH /\ q[i + 7] = LETTER_u /\ LowSurrogate(low) IN
  CASE i = e -> Returns(<<>>)
    [] i < e /\ q[i] # BACKSLASH -> then(<<q[i]>>, i + 1)
    [] i < e /\ q[i] = BACKSLASH /\ q[i + 1] # LETTER_u -> then(<<Unescaped[q[i + 1]]>>, i + 2)
    [] OTHER -> CASE ~HighSurrogate(unit) -> then(to_unicode(unit, 0), i + 6)
                  [] HighSurrogate(unit) /\ paired -> then(to_unicode(unit, low), i + 12)
                  [] OTHER -> Throws

get_string(q, t) == Characters(q, t.start + 1, t.next - 1)

-----------------------------------------------------------------------------
(* Values.  An object is a function on its keys, std::map's order is that of
   the bytes. *)

Null == [type |-> "null"]
Boolean(b) == [type |-> "boolean", boolean |-> b]
Text(s) == [type |-> "string", string |-> s]
NumberOf(type, n) == [type |-> type, number |-> n]
Array(s) == [type |-> "array", array |-> s]
Object(f) == [type |-> "object", object |-> f]

\* What an integer token is worth: it is accumulated modulo 2^Width, and an
\* overflow is one when it shows.
DigitForgotten(n, c) == (n * 10) % 2^Width
Accumulated(n, c) == (n * 10 + c - 48) % 2^Width
get_number(q, t) ==
  LET negative == q[t.start] = MINUS
      digits == SubSeq(q, IF negative THEN t.start + 1 ELSE t.start, t.next - 1)
      max == IF negative THEN 2^(Width - 1) ELSE 2^Width - 1
      worth == FoldLeft(LAMBDA n, c :
                 IF n = -1 \/ c \notin Digit \/ Accumulated(n, c) < n
                           \/ Accumulated(n, c) > max
                 THEN -1 ELSE Accumulated(n, c), 0, digits) IN
  CASE worth = -1 -> [type |-> "number_float"]
    [] negative /\ worth # -1 -> NumberOf("number_integer", -worth)
    [] OTHER -> NumberOf("number_unsigned", worth)

\* Of two integers of different types both comparisons cast the unsigned one.
Signed(n) == IF n < 2^(Width - 1) THEN n ELSE n - 2^Width
AsUnsigned(v) == v.number % 2^Width
AsSigned(v) == IF v.type = "number_unsigned" THEN Signed(v.number) ELSE v.number
MixedNumbers(v, w) == {v.type, w.type} = {"number_integer", "number_unsigned"}

\* operator==, of values without floating-point numbers.
RECURSIVE Equal(_, _)
Equal(v, w) ==
  CASE v.type = "array" /\ w.type = "array" ->
         /\ Len(v.array) = Len(w.array)
         /\ \A i \in DOMAIN v.array : Equal(v.array[i], w.array[i])
    [] v.type = "object" /\ w.type = "object" ->
         /\ DOMAIN v.object = DOMAIN w.object
         /\ \A k \in DOMAIN v.object : Equal(v.object[k], w.object[k])
    [] MixedNumbers(v, w) -> AsSigned(v) = AsSigned(w)
    [] OTHER -> v = w

\* std::map's order of its keys is that of their bytes.
RECURSIVE Before(_, _)
Before(a, b) ==
  CASE a = <<>> -> b # <<>>
    [] a # <<>> /\ b = <<>> -> FALSE
    [] OTHER -> \/ Head(a) < Head(b)
                \/ Head(a) = Head(b) /\ Before(Tail(a), Tail(b))
RECURSIVE InOrder(_)
InOrder(keys) ==
  LET first == CHOOSE k \in keys : \A l \in keys \ {k} : Before(k, l) IN
  IF keys = {} THEN <<>> ELSE <<first>> \o InOrder(keys \ {first})

\* operator<, of types and of values; vectors and maps compare as sequences.
TypeOrder == "null" :> 0 @@ "boolean" :> 1 @@ "number_integer" :> 2 @@ "number_unsigned" :> 2
             @@ "number_float" :> 2 @@ "object" :> 3 @@ "array" :> 4 @@ "string" :> 5
RECURSIVE Less(_, _)
LessSeq(s, t) ==
  \E i \in DOMAIN t :
    /\ i = Len(s) + 1 \/ (i \in DOMAIN s /\ Less(s[i], t[i]))
    /\ \A j \in 1 .. i - 1 : ~Less(s[j], t[j]) /\ ~Less(t[j], s[j])
Pairs(object) ==
  FlattenSeq([i \in DOMAIN InOrder(DOMAIN object) |->
                LET k == InOrder(DOMAIN object)[i] IN <<Text(k), object[k]>>])
Less(v, w) ==
  CASE v.type = "array" /\ w.type = "array" -> LessSeq(v.array, w.array)
    [] v.type = "object" /\ w.type = "object" -> LessSeq(Pairs(v.object), Pairs(w.object))
    [] v.type = "string" /\ w.type = "string" -> Before(v.string, w.string)
    [] v.type = "boolean" /\ w.type = "boolean" -> ~v.boolean /\ w.boolean
    [] MixedNumbers(v, w) -> AsSigned(v) < AsSigned(w)
    [] v.type = w.type /\ v.type \in {"number_integer", "number_unsigned"} -> v.number < w.number
    [] OTHER -> TypeOrder[v.type] < TypeOrder[w.type]

-----------------------------------------------------------------------------
(* parser.  A recursive call begins at token t and leaves last_token, last. *)

Parsed(v, t) == [ok |-> TRUE, value |-> v, last |-> t]

RECURSIVE parse_internal(_, _), ValueFrom(_, _, _), Members(_, _, _),
          AfterMember(_, _, _, _), Elements(_, _, _), AfterElement(_, _, _)

parse_internal(q, t) == ValueFrom(q, t, scan(q, t.next))

\* The value that begins with the token t, when u comes next.
ValueFrom(q, t, u) ==
  CASE t.type = "begin_object" ->
         IF u.type = "end_object" THEN Parsed(Object(<<>>), scan(q, u.next))
                                  ELSE Members(q, u, <<>>)
    [] t.type = "begin_array" ->
         IF u.type = "end_array" THEN Parsed(Array(<<>>), scan(q, u.next))
                                 ELSE Elements(q, u, <<>>)
    [] t.type = "value_string" ->
         LET s == get_string(q, t) IN IF s.ok THEN Parsed(Text(s.value), u) ELSE Throws
    [] t.type = "value_number" -> Parsed(get_number(q, t), u)
    [] t.type = "literal_true" -> Parsed(Boolean(TRUE), u)
    [] t.type = "literal_false" -> Parsed(Boolean(FALSE), u)
    [] t.type = "literal_null" -> Parsed(Null, u)
    [] OTHER -> Throws

\* The pairs of an object from the key t on.
Members(q, t, object) ==
  LET colon == scan(q, t.next) IN
  IF t.type # "value_string" \/ colon.type # "name_separator" THEN Throws
  ELSE AfterMember(q, get_string(q, t), parse_internal(q, scan(q, colon.next)), object)

\* The rest of them, after the pair of key and r; of equal keys the last wins.
AfterMember(q, key, r, object) ==
  LET longer == (key.value :> r.value) @@ object IN
  IF ~key.ok \/ ~r.ok THEN Throws
  ELSE CASE r.last.type = "value_separator" -> Members(q, scan(q, r.last.next), longer)
         [] r.last.type = "end_object" -> Parsed(Object(longer), scan(q, r.last.next))
         [] OTHER -> Throws

\* The elements of an array from the token t on, and those after r.
TrailingComma(q, t, array) ==
  IF t.type = "end_array" THEN Parsed(Array(array), scan(q, t.next))
  ELSE AfterElement(q, parse_internal(q, t), array)
Elements(q, t, array) == AfterElement(q, parse_internal(q, t), array)

AfterElement(q, r, array) ==
  LET longer == Append(array, r.value) IN
  IF ~r.ok THEN Throws
  ELSE CASE r.last.type = "value_separator" -> Elements(q, scan(q, r.last.next), longer)
         [] r.last.type = "end_array" -> Parsed(Array(longer), scan(q, r.last.next))
         [] OTHER -> Throws

\* A whole text is one value: nothing but blanks may follow it.
AnyRest(r) == IF r.ok THEN Returns(r.value) ELSE Throws
NoRest(r) == IF r.ok /\ r.last.type = "end_of_input" THEN Returns(r.value) ELSE Throws
parse(q) == NoRest(parse_internal(q, scan(q, 1)))

-----------------------------------------------------------------------------
(* dump *)

HexDigit(n) == IF n < 10 THEN n + 48 ELSE n + 87
BackslashKept(c) ==
  IF c < 32 THEN <<BACKSLASH, LETTER_u, ZERO, ZERO, HexDigit(c \div 16), HexDigit(c % 16)>>
  ELSE IF c = QUOTE THEN <<BACKSLASH, QUOTE>> ELSE <<c>>
EscapeOf(c) ==
  LET letter == {x \in DOMAIN Unescaped \ {47} : Unescaped[x] = c} IN
  CASE letter # {} -> <<BACKSLASH, CHOOSE x \in letter : TRUE>>
    [] letter = {} /\ c < 32 ->
         <<BACKSLASH, LETTER_u, ZERO, ZERO, HexDigit(c \div 16), HexDigit(c % 16)>>
    [] OTHER -> <<c>>
escape_string(s) == FlattenSeq([i \in DOMAIN s |-> EscapeOf(s[i])])
Quoted(s) == <<QUOTE>> \o escape_string(s) \o <<QUOTE>>

RECURSIVE Decimal(_)
Decimal(n) ==
  CASE n < 0 -> <<MINUS>> \o Decimal(-n)
    [] n \in 0 .. 9 -> <<n + 48>>
    [] OTHER -> Decimal(n \div 10) \o <<(n % 10) + 48>>

Spaces(n) == [i \in 1 .. n |-> 32]

\* dump's pretty form puts each element on a line, step spaces further in.
RECURSIVE DumpAt(_, _, _, _)
DumpAt(v, pretty, step, indent) ==
  LET deeper == IF pretty THEN indent + step ELSE indent
      line == IF pretty THEN <<10>> ELSE <<>>
      inner(w) == DumpAt(w, pretty, step, deeper)
      list(open, items, close) ==
        IF items = <<>> THEN <<open, close>>
        ELSE <<open>> \o line
             \o FlattenSeq([i \in DOMAIN items |->
                  (IF i = 1 THEN <<>> ELSE <<COMMA>> \o line) \o Spaces(deeper) \o items[i]])
             \o line \o Spaces(indent) \o <<close>> IN
  CASE v.type = "object" ->
         LET keys == InOrder(DOMAIN v.object) IN
         list(123, [i \in DOMAIN keys |->
                      Quoted(keys[i]) \o <<COLON>> \o (IF pretty THEN <<32>> ELSE <<>>)
                      \o inner(v.object[keys[i]])], 125)
    [] v.type = "array" -> list(91, [i \in DOMAIN v.array |-> inner(v.array[i])], 93)
    [] v.type = "string" -> Quoted(v.string)
    [] v.type = "boolean" -> IF v.boolean THEN True ELSE False
    [] v.type \in {"number_integer", "number_unsigned"} -> Decimal(v.number)
    [] v.type = "null" -> None

dump(v) == DumpAt(v, FALSE, 0, 0)
=============================================================================
