---------------------------- MODULE MCEventFanout ----------------------------
(* The two subscribers of the program, the web server and the settings     *)
(* window, with buffers of one and two events in place of 64 and 16.       *)
EXTENDS EventFanout

CONSTANTS server, gui

MCSubscribers == {server, gui}
MCBufSize == [s \in MCSubscribers |-> IF s = server THEN 2 ELSE 1]
=============================================================================
