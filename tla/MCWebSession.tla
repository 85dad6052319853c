---------------------------- MODULE MCWebSession ----------------------------
(* A unit of fifteen seconds: a tick every two, a timeout of six, a pong   *)
(* that comes within three, and two messages with an id.                   *)
EXTENDS WebSession
=============================================================================
