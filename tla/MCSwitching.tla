---------------------------- MODULE MCSwitching ----------------------------
(* Two machines beyond two edges of the server's one screen, or one machine *)
(* with a screen of two points or of one.  The point beyond an edge has the *)
(* name of the machine there, so that the two machines are interchangeable *)
(* with their places.                                                      *)
EXTENDS Switching, TLC

CONSTANTS a, b, here

Desk  == {here, a, b}
Rects == {{}, {here}, {a}, {b}}
Sides == (a :> {a}) @@ (b :> {b})

Interchangeable == Permutations({a, b})

Wide      == {{}, {here}, {a, b}}
WideSides == a :> {a, b}

Near      == {here, a}
NearRects == {{}, {here}, {a}}
NearSide  == a :> {a}
=============================================================================
