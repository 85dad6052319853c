---------------------------- MODULE MCClientSync ----------------------------
(* Two clients, one topic with two versions, a hub channel of two commands *)
(* in place of 64.                                                         *)
EXTENDS ClientSync

CONSTANTS c1, c2

MCClients == {c1, c2}
MCIdlers == {c1}
MCTopics == <<"info">>
=============================================================================
