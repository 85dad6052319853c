--------------------------- MODULE MCThemeClient ---------------------------
(* Two tracks, one of them with two pictures that come late, and a player  *)
(* that plays, with and without a rate and a time stamp, pauses and stops. *)
(* The delays are 1, 2 and 3.                                              *)
EXTENDS ThemeClient

CONSTANTS a, b, x, y, p, q

MCTracks == {a, b}
MCArts == {x, y, NoArt}
MCPoints == {p, q}
MCInfos == {[track |-> a, art |-> NoArt], [track |-> a, art |-> x],
            [track |-> b, art |-> y]}
Played(pt, m, s) == [point |-> pt, moving |-> m, stamped |-> s, status |-> "playing"]
MCProgresses ==
    {Played(p, TRUE, TRUE), Played(q, TRUE, FALSE), Played(q, FALSE, TRUE),
     [point |-> q, moving |-> FALSE, stamped |-> TRUE, status |-> "paused"],
     [point |-> p, moving |-> FALSE, stamped |-> FALSE, status |-> "stopped"]}
=============================================================================
