------------------------------ MODULE MCWorker ------------------------------
(* The ordinary desktop and the secure one, either of which may be broken;  *)
(* one thing goes wrong besides, and a worker has at most one word on its   *)
(* way to the service.                                                      *)
EXTENDS Worker
=============================================================================
