-------------------------------- MODULE Edge --------------------------------
(***************************************************************************)
(* The edge of a screen: the server, and beside it a history variable that *)
(* measures from the movements alone how long the cursor has really been   *)
(* pressed against an edge.  It looks at nothing the server remembers of   *)
(* it (pending) and takes part in no guard, so EdgeSpec allows the server  *)
(* no more and no less than Spec.                                          *)
(***************************************************************************)
EXTENDS Server

VARIABLE pressed  \* the machine beyond the edge pressed last, and for how long

edgeVars == <<vars, pressed>>

\* How long d's edge will have been pressed once a movement has ended on d.
PressOf(d) ==
  IF d = active \/ ~Usable(d) THEN None
    ELSE IF pressed # None /\ pressed.target = d
      THEN pressed ELSE [target |-> d, age |-> 0]

\* Only a movement starts a press or ends one; only time makes it longer.
EdgeNext ==
  \/ \E d \in Devices, p \in Points : PointerBy(d, p) /\ pressed' = PressOf(d)
  \/ /\ Elapse
     /\ pressed' = IF pressed = None THEN None
                   ELSE [pressed EXCEPT !.age = IF @ < MaxAge THEN @ + 1 ELSE @]
  \/ /\ UNCHANGED pressed
     /\ \/ Tick \/ Wheel \/ \E p \in Points : PointerAt(p)
        \/ \E k \in Keys, down \in BOOLEAN : Key(k, down)
        \/ \E c \in Clients : \/ ClientUp(c) \/ ClientDown(c)
                              \/ ClientSuspended(c) \/ ClientResumed(c)
                              \/ \E s \in Screens : ClientMonitors(c, s)
        \/ \E f \in Arrangements, d \in Delays, w \in Windows :
             Reconfigure(f, d, w)

EdgeSpec == Init /\ pressed = None /\ [][EdgeNext]_edgeVars /\ Fairness

\* "How long the pointer must rest against an edge before it crosses."
\* (server.rs, Settings::switch_delay)  With a delay and no double tap, motion
\* and time hand the cursor over only after one unbroken press of that edge
\* that was long enough, whichever machines came, went or moved meanwhile.
RestsBeforeCrossing ==
  [][(Tick \/ Motion)
       /\ active' # active /\ delay > 0 /\ window = 0
     => pressed # None /\ pressed.target = active' /\ pressed.age >= delay]_edgeVars
=============================================================================
