----------------------------- MODULE MCSessions -----------------------------
(* Three session objects of two applications, listed up to two at a time,  *)
(* and a channel of two commands in place of 32.  The code treats the two  *)
(* kinds of events alike; one stands for both.                             *)
EXTENDS Sessions

CONSTANTS o1, o2, o3, x, y, p0, p1, e0, e1

MCObjects == {o1, o2, o3}
MCApps == {x, y}
MCAppOf == [o \in MCObjects |-> IF o = o2 THEN y ELSE x]
MCLists == {<<>>, <<o1>>, <<o2, o1>>, <<o3, o1>>}
MCKinds == {"playback"}
MCPositions == {p0, p1}
MCExtras == {e0, e1}
=============================================================================
