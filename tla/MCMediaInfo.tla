----------------------------- MODULE MCMediaInfo -----------------------------
(* Two songs and the untitled track, pictures of one length.               *)
EXTENDS MediaInfo

CONSTANTS a, b

MCSongs == {a, b}
MCSizes == {1}
=============================================================================
