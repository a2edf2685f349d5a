------------------------------- MODULE Focus -------------------------------
(***************************************************************************)
(* What the person at the keyboard is promised, whatever the server does   *)
(* inside: one machine at a time has the cursor, only a connected one is   *)
(* ever given it, it comes home at the very moment its machine is lost or  *)
(* says it cannot act, and input is kept from this machine exactly while   *)
(* it goes to another.                                                     *)
(***************************************************************************)
CONSTANTS Local, Clients

VARIABLES
  holder,    \* the machine that has the cursor
  standing,  \* "Absent", "Ready" or "Suspended", for each client
  swallowed  \* whether local input is kept from this machine

vars == <<holder, standing, swallowed>>

Give(d) == holder' = d /\ swallowed' = (d # Local)

Init ==
  /\ holder = Local
  /\ standing = [c \in Clients |-> "Absent"]
  /\ swallowed = FALSE

\* A machine connects, or finds that it can act again.
Arrive(c) ==
  /\ standing' = [standing EXCEPT ![c] = "Ready"]
  /\ UNCHANGED <<holder, swallowed>>

\* A machine is lost, or can no longer act.
Fail(c, s) ==
  /\ standing[c] # "Absent"
  /\ standing' = [standing EXCEPT ![c] = s]
  /\ Give(IF holder = c THEN Local ELSE holder)

\* The cursor passes to this machine or to a connected one.
Pass(d) ==
  /\ d \in Clients => standing[d] # "Absent"
  /\ Give(d)
  /\ UNCHANGED standing

Next ==
  \/ \E c \in Clients : Arrive(c) \/ \E s \in {"Absent", "Suspended"} : Fail(c, s)
  \/ \E d \in Clients \cup {Local} : Pass(d)

Spec == Init /\ [][Next]_vars
=============================================================================
