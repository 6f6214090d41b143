-------------------------------- MODULE Texts --------------------------------
(***************************************************************************)
(* The texts of Words, the trees of JsonTrees and the loops of Startup and *)
(* of Escapes side by side: no step changes two of them.                   *)
(***************************************************************************)
EXTENDS Words, JsonTrees, Startup, Escapes

Wordless(k) == kind = k /\ word = <<>>
Treeless == source = Null /\ target = Null
Idle == StartupInit /\ call = "loadConfigFile"
Mute == EscapesInit /\ string = <<>>

Init == \/ WordsInit /\ Treeless /\ Idle /\ Mute
        \/ TreesInit /\ Wordless("trees") /\ Idle /\ Mute
        \/ StartupInit /\ Wordless("startup") /\ Treeless /\ Mute
        \/ EscapesInit /\ Wordless("escapes") /\ Treeless /\ Idle

Next == \/ /\ kind \in Kinds /\ Extend
           /\ UNCHANGED <<source, target, startup, escaping>>
        \/ /\ kind = "trees" /\ TreesNext
           /\ UNCHANGED <<kind, word, startup, escaping>>
        \/ /\ kind = "startup" /\ StartupNext
           /\ UNCHANGED <<kind, word, source, target, escaping>>
        \/ /\ kind = "escapes" /\ EscapesNext
           /\ UNCHANGED <<kind, word, source, target, startup>>

Spec == Init /\ [][Next]_<<kind, word, source, target, startup, escaping>>
=============================================================================
