------------------------------- MODULE MCTexts -------------------------------
(* Small instances of Texts for TLC. *)
EXTENDS Texts

Lengths == [k \in Kinds |-> CASE k \in {"structure", "members", "number"} -> 5
                              [] k \in {"string", "id"} -> 4
                              [] k = "stream" -> 3]

\* A key that looks like an index, and one that has to be escaped.
SomeKeys == {<<ZERO>>, <<SLASH, TILDE, 49>>}

\* No value, an empty one, one without its blank, one with it, and with two.
Settings == [setting : {TRUE}, field : Fields \cup {"Other"},
             after : {<<>>, <<32>>, <<97>>, <<32, 97>>, <<32, 32, 98>>}]
Comment == [setting |-> FALSE, field |-> "ProxyHost", after |-> <<>>]
SomeLines == Settings \cup {Comment}

\* Characters with a short, a long and no escape, the last one not of ASCII.
SomeStrings == UNION {[1 .. n -> {34, 92, 10, 31, 97, 200}] : n \in 0 .. 3}
=============================================================================
