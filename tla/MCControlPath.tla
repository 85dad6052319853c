--------------------------- MODULE MCControlPath ---------------------------
(* An HTTP request and a WebSocket goroutine, the UI thread, a channel of  *)
(* three commands in place of 32.                                            *)
EXTENDS ControlPath

CONSTANTS http, ws

MCRequests == {http, ws}
MCHttpRequests == {http}
=============================================================================
