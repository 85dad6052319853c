----------------------------- MODULE MCSettings -----------------------------
(* A port in range and one out of it, two themes, two applications; files  *)
(* of version 1 with a field that does not decode, and of version 2 with   *)
(* one, without one, and with a theme that is not there.                   *)
EXTENDS Settings

CONSTANTS good, outOfRange, t, u, gone, a, b

MCThemes == <<t, u>>
MCDefault == [port |-> good, theme |-> t, preview |-> FALSE, autoStart |-> FALSE,
              device |-> None]
MCConfig == [port : {good, outOfRange}, theme : {t, u, gone, NoTheme},
             preview : BOOLEAN, autoStart : BOOLEAN, device : {a, b, None}]
MCValid == {c \in MCConfig : c.port = good /\ c.theme # NoTheme}
MCForeign == {[v1 |-> TRUE, values |-> [port |-> good, theme |-> Bad,
                                        autoStart |-> TRUE, preview |-> TRUE]],
              [v1 |-> FALSE, values |-> [preview |-> Bad, theme |-> u]],
              [v1 |-> FALSE, values |-> [theme |-> gone, device |-> a]]}
MCPortTexts == {good, outOfRange, NotANumber}
MCClickable == {"preview"}
MCLists == {<<>>, <<b>>, <<a, b>>}
MCVersion == <<2, 0, 0>>
MCTags == {<<2, 1, 0>>, <<2>>}
=============================================================================
