------------------------------ MODULE MCServer ------------------------------
(* A server, two clients that are interchangeable, and a desk of three     *)
(* points.  A screen covers two points or the one beyond them, so that the *)
(* machines may be side by side or over each other.                        *)
EXTENDS Server, TLC

CONSTANTS a, b

Desk  == 1 .. 3
Rects == {{}, {1, 2}, {3}}

Interchangeable == Permutations({a, b})
=============================================================================
