------------------------------- MODULE Escapes -------------------------------
(***************************************************************************)
(* How dump escapes a string, character by character: a first function     *)
(* counts the room that the escapes take, a second one makes a result of   *)
(* that size and writes into it, with nothing that stops it at the end.    *)
(***************************************************************************)
EXTENDS Integers, Sequences

CONSTANT Strings  \* the strings to escape

ASSUME EscapesAssumption == Strings \subseteq Seq(0 .. 255)

VARIABLES string,  \* the string that is escaped,
          stage,   \* what is done with it,
          passed,  \* the characters that are already counted or written,
          space,   \* the room counted for the escapes,
          result,  \* the characters of the result from 0 on,
          pos      \* and where the next one is written

escaping == <<string, stage, passed, space, result, pos>>

\* Quotes, backslashes and five control characters have a short escape, all
\* other control characters are written as their number.
Backslash == 92
Short == {8, 9, 10, 12, 13, 34, Backslash}
Control == (0 .. 31) \ Short
Letter(c) == CASE c = 8 -> 98 [] c = 9 -> 116 [] c = 10 -> 110 [] c = 12 -> 102
               [] c = 13 -> 114 [] OTHER -> c
Hexify(n) == IF n < 10 THEN n + 48 ELSE n + 87
AsNumber(c) == <<117, 48, 48, Hexify(c \div 16), Hexify(c % 16)>>

EscapesInit ==
  /\ string \in Strings
  /\ stage = "count" /\ passed = 0 /\ space = 0 /\ result = <<>> /\ pos = 0

-----------------------------------------------------------------------------
(* extra_space *)

FourMore(c) == IF c \in Short THEN 1 ELSE IF c \in Control THEN 4 ELSE 0
ExtraOf(c) == IF c \in Short THEN 1 ELSE IF c \in Control THEN 5 ELSE 0

Count ==
  /\ stage = "count" /\ passed < Len(string)
  /\ space' = space + ExtraOf(string[passed + 1])
  /\ passed' = passed + 1
  /\ UNCHANGED <<string, stage, result, pos>>

-----------------------------------------------------------------------------
(* escape_string *)

\* Without an escape the string is returned as it is; otherwise the result is
\* filled with backslashes, which need not be written any more.
Allocate ==
  /\ stage = "count" /\ passed = Len(string)
  /\ IF space = 0
     THEN /\ stage' = "returned"
          /\ result' = [p \in 0 .. Len(string) - 1 |-> string[p + 1]]
     ELSE /\ stage' = "write"
          /\ result' = [p \in 0 .. Len(string) + space - 1 |-> Backslash]
  /\ passed' = 0
  /\ UNCHANGED <<string, space, pos>>

\* result[pos + k] = w[k] for all k, wherever that is.
Overwrite(w) ==
  result' = [p \in DOMAIN result \cup {pos + k : k \in DOMAIN w} |->
               IF p - pos \in DOMAIN w THEN w[p - pos] ELSE result[p]]

\* What is written for a character, behind the backslash or in its place.
Written(c) ==
  CASE c = Backslash -> <<>>
    [] c \in Short \ {Backslash} -> <<Letter(c)>>
    [] c \in Control -> AsNumber(c)
    [] OTHER -> [k \in {0} |-> c]

Write ==
  /\ stage = "write" /\ passed < Len(string)
  /\ LET c == string[passed + 1] IN
       /\ Overwrite(Written(c))
       /\ pos' = pos + (IF c \in Short THEN 2 ELSE IF c \in Control THEN 6 ELSE 1)
  /\ passed' = passed + 1
  /\ UNCHANGED <<string, stage, space>>

Return ==
  /\ stage = "write" /\ passed = Len(string)
  /\ stage' = "returned"
  /\ UNCHANGED <<string, passed, space, result, pos>>

-----------------------------------------------------------------------------
EscapesNext == Count \/ Allocate \/ Write \/ Return

EscapesSpec == EscapesInit /\ [][EscapesNext]_escaping

-----------------------------------------------------------------------------
(* What is promised *)

\* A character in a text of JSON.
Spelling(c) ==
  IF c \in Short THEN <<Backslash, Letter(c)>>
  ELSE IF c \in Control
       THEN <<Backslash, 117, 48, 48, Hexify(c \div 16), Hexify(c % 16)>>
  ELSE <<c>>

\* The characters of the result are those of the spellings, one behind the
\* other, from the first to the last of them.
Spells ==
  \E start \in [DOMAIN string -> DOMAIN result] :
    \A j \in DOMAIN string :
      LET spelling == Spelling(string[j])
          end == start[j] + Len(spelling) IN
      /\ j = 1 => start[j] = 0
      /\ \A k \in 1 .. Len(spelling) : result[start[j] + k - 1] = spelling[k]
      /\ end = IF j = Len(string) THEN Len(string) + space ELSE start[j + 1]

\* escape_string never writes outside the room that extra_space counted, and
\* fills all of it: what it returns spells the string, with nothing behind it.
EscapesFit ==
  /\ stage # "count" => DOMAIN result = 0 .. Len(string) + space - 1
  /\ stage = "returned" => Spells
=============================================================================
