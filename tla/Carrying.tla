------------------------------ MODULE Carrying -------------------------------
(***************************************************************************)
(* Drags, under names of their own, for the instances and the proofs that  *)
(* hold them beside other machines.                                        *)
(***************************************************************************)
EXTENDS Naturals, Sequences

CONSTANTS DragHub, DragClients, DragRoom, MaxDrags, MaxHolds, MaxCross,
          DragTrouble

ASSUME DragAssumption == DragHub \notin DragClients /\ MaxDrags \in Nat

VARIABLES
  hub, share, client, up, closed, carries, left, crossings, trouble, hold,
  holdOf, origin, dropped, landed, missed, spoiled

DR == INSTANCE Drag WITH Hub <- DragHub, Clients <- DragClients,
      Room <- DragRoom, MaxTrouble <- DragTrouble

\* Drag: what is dragged stays under the hand until the hand lets go, through
\* whatever machines the cursor goes, and the pointer at home is hidden, and its
\* input swallowed, exactly while the cursor is away (cli/server.rs, clipboard.rs).
DragIsCarried == DR!CarriedUntilLetGo /\ DR!HiddenWhileAway
=============================================================================
