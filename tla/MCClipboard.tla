---------------------------- MODULE MCClipboard ----------------------------
(* A hub and two clients; a copy travels as one piece or as two.           *)
EXTENDS Clipboard

TwoThenOne == <<2, 1>>
TwoTwo     == <<2, 2>>
=============================================================================
