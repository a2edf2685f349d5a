------------------------------- MODULE MCEdge -------------------------------
(* The edge of a screen between a server and a client at each side of it.  *)
EXTENDS Edge

Desk  == 1 .. 3
Rects == {{}, {1, 2}, {3}}
=============================================================================
