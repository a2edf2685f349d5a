------------------------------ MODULE MCFiles ------------------------------
(* A hub and two clients.                                                  *)
EXTENDS Files

TwoCopies == <<<<2>>, <<0, 1>>>>
=============================================================================
