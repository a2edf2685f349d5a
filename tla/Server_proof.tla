---------------------------- MODULE Server_proof ----------------------------
(***************************************************************************)
(* Proofs about Server, for every set of clients, every arrangement and    *)
(* every delay and window.                                                 *)
(*                                                                         *)
(* Inv is inductive: what the four parts need of each other is there.  A   *)
(* step that hands the cursor over needs its target to be connected, which *)
(* HeldEdgeIsOpen gives for an edge waited at, and a step that forgets a   *)
(* machine needs ModeFollowsCursor and HolderIsPresent together.           *)
(***************************************************************************)
EXTENDS Edge, TLAPS

-----------------------------------------------------------------------------
(* The screens.                                                            *)

\* A connected machine is a machine.
LEMMA PresentAreDevices == Present \subseteq Devices
BY DEF Present, Devices

\* Screens lie on the desktop.
LEMMA ScreensOnDesk ==
  ASSUME NEW f \in [Devices -> Screens], NEW d \in Devices
  PROVE  f[d] \subseteq Points
BY ScreenAssumption

\* A machine with a point under it is connected, and the point on the desktop.
LEMMA UnderIsPresent ==
  ASSUME TypeOK, NEW p, NEW d \in Under(p)
  PROVE  d \in Present /\ d \in Devices /\ p \in place[d] /\ p \in Points
BY PresentAreDevices, ScreensOnDesk DEF Under, TypeOK

\* A machine that can take the cursor is connected.
LEMMA UsableIsPresent ==
  ASSUME NEW d \in Devices, Usable(d)
  PROVE  d \in Present
BY DeviceAssumption DEF Usable, Present, Devices

-----------------------------------------------------------------------------
(* What handle returns.                                                    *)

\* A message to a machine is an action.
LEMMA DoIsAction ==
  ASSUME NEW d \in Devices, NEW m \in Msgs
  PROVE  Do(d, m) \in Seq(Actions)
BY DEF Do, Actions

\* The local actions are actions.
LEMMA LocalActions ==
  /\ SetMode("Local") \in Seq(Actions)
  /\ SetMode("Captured") \in Seq(Actions)
  /\ \A p \in Points : Warp(p) \in Seq(Actions)
<1>1. Local \in Devices
  BY DEF Devices
<1>2. \A m \in {"Local", "Captured"} : [type |-> "Mode", mode |-> m] \in Msgs
  BY DEF Msgs
<1>3. \A p \in Points : [type |-> "Warp", at |-> p] \in Msgs
  BY DEF Msgs
<1> QED
  BY <1>1, <1>2, <1>3, DoIsAction DEF SetMode, Warp

\* Telling a machine where the cursor is.
LEMMA PositionIsAction ==
  ASSUME TypeOK, NEW p, NEW d \in Under(p)
  PROVE  Position(d, p) \in Seq(Actions)
<1>1. p \in Points /\ d \in Devices
  BY UnderIsPresent
<1>2. [type |-> "MoveTo", at |-> p] \in Msgs
  BY <1>1 DEF Msgs
<1> QED
  BY <1>1, <1>2, DoIsAction, LocalActions DEF Position

\* Leaving one machine and arriving on another.
LEMMA HandoverIsAction ==
  ASSUME TypeOK, NEW d \in Devices, NEW p \in Points
  PROVE  Parting \o Arriving(d, p) \in Seq(Actions)
<1>1. [type |-> "Leave"] \in Msgs
  BY DEF Msgs
<1>2. [type |-> "Enter", at |-> p, keys |-> keys] \in Msgs
  BY DEF Msgs, TypeOK
<1>3. Parting \in Seq(Actions)
  BY <1>1, DoIsAction, LocalActions DEF Parting, TypeOK
<1>4. Arriving(d, p) \in Seq(Actions)
  BY <1>2, DoIsAction, LocalActions DEF Arriving
<1> QED
  BY <1>3, <1>4

-----------------------------------------------------------------------------
(* The pieces the actions are made of keep the invariant.                  *)

\* What every action leaves alone: the screens, and with them who is present.
Steady == UNCHANGED <<place, clients, keys, delay, window>>

\* Handing the cursor to a connected machine.
LEMMA CrossKeeps ==
  ASSUME Inv, Steady, NEW d \in Present, NEW p \in Points, CrossTo(d, p)
  PROVE  Inv'
<1>1. d \in Devices /\ d \in Present'
  BY PresentAreDevices DEF Present, Steady
<1>2. out' \in Seq(Actions)
  BY <1>1, HandoverIsAction DEF Inv, CrossTo
<1>3. TypeOK'
  BY <1>1, <1>2 DEF Inv, TypeOK, CrossTo, Steady
<1>4. ModeFollowsCursor' /\ HolderIsPresent' /\ HeldEdgeIsOpen'
  BY <1>1 DEF CrossTo, ModeFollowsCursor, HolderIsPresent, HeldEdgeIsOpen
<1> QED
  BY <1>3, <1>4 DEF Inv

\* The cursor is not let through, whatever then happens to the held edge.
LEMMA StopIsTyped ==
  ASSUME Inv, StopAtEdge
  PROVE  cursor' \in Points /\ out' \in Seq(Actions)
<1>1. CASE place[active] = {} /\ cursor' = cursor /\ out' = <<>>
  BY <1>1 DEF Inv, TypeOK
<1>2. CASE \E p \in place[active] :
             /\ cursor' = p
             /\ IF p = cursor THEN out' = <<>>
                               ELSE \E d \in Under(p) : out' = Position(d, p)
  <2>1. PICK p \in place[active] :
          /\ cursor' = p
          /\ IF p = cursor THEN out' = <<>>
                            ELSE \E d \in Under(p) : out' = Position(d, p)
    BY <1>2
  <2>2. p \in Points
    BY ScreensOnDesk DEF Inv, TypeOK
  <2>3. \A d \in Under(p) : Position(d, p) \in Seq(Actions)
    BY <2>2, PositionIsAction DEF Inv
  <2>4. CASE p = cursor
    BY <2>1, <2>2, <2>4
  <2>5. CASE p # cursor
    <3>1. PICK d \in Under(p) : out' = Position(d, p)
      BY <2>1, <2>5
    <3> QED
      BY <3>1, <2>1, <2>2, <2>3
  <2> QED
    BY <2>4, <2>5
<1> QED
  BY <1>1, <1>2 DEF StopAtEdge

\* The cursor comes home; the machine it was on may be gone.
LEMMA RecallKeeps ==
  ASSUME Inv, RecallCursor, UNCHANGED <<place, keys, delay, window>>,
         clients' \in [Clients -> {"Absent", "Ready", "Suspended"}]
  PROVE  Inv'
<1>1. PICK p \in place[Local] : cursor' = p /\ out' = SetMode("Local") \o Warp(p)
  BY DEF RecallCursor
<1>2. p \in Points /\ Local \in Devices
  BY ScreensOnDesk DEF Inv, TypeOK, Devices
<1>3. out' \in Seq(Actions)
  BY <1>1, <1>2, LocalActions
<1>4. TypeOK'
  BY <1>1, <1>2, <1>3 DEF RecallCursor, Inv, TypeOK
<1>5. ModeFollowsCursor' /\ HolderIsPresent' /\ HeldEdgeIsOpen'
  BY DEF RecallCursor, ModeFollowsCursor, HolderIsPresent, HeldEdgeIsOpen, Present
<1> QED
  BY <1>4, <1>5 DEF Inv

\* The arrangement changes under the cursor.
LEMMA ResettleKeeps ==
  ASSUME Inv, NEW f \in [Devices -> Screens], place' = f,
         delay' \in Delays, window' \in Windows, UNCHANGED <<clients, keys>>,
         NEW p, NEW hold \in {pending, None}, NEW tap \in {lastTap, None},
         Resettle(f, p, hold, tap)
  PROVE  Inv'
<1>1. PICK d \in Present :
        /\ p \in f[d]
        /\ IF d = active
             THEN /\ cursor' = p /\ pending' = hold /\ lastTap' = tap
                  /\ out' = <<>>
                  /\ UNCHANGED <<active, mode>>
             ELSE CrossTo(d, p)
  BY DEF Resettle
<1>2. d \in Devices /\ d \in Present' /\ p \in Points
  BY <1>1, PresentAreDevices, ScreensOnDesk DEF Present
<1>3. CASE d = active
  <2>1. TypeOK'
    BY <1>1, <1>2, <1>3 DEF Inv, TypeOK
  <2>2. ModeFollowsCursor' /\ HolderIsPresent'
    BY <1>1, <1>3 DEF Inv, ModeFollowsCursor, HolderIsPresent, Present
  <2>3. HeldEdgeIsOpen'
    BY <1>1, <1>3 DEF Inv, HeldEdgeIsOpen, Usable
  <2> QED
    BY <2>1, <2>2, <2>3 DEF Inv
<1>4. CASE d # active
  <2>1. CrossTo(d, p)
    BY <1>1, <1>4
  <2>2. out' \in Seq(Actions)
    BY <1>2, <2>1, HandoverIsAction DEF Inv, CrossTo
  <2>3. TypeOK'
    BY <1>2, <2>1, <2>2 DEF Inv, TypeOK, CrossTo
  <2>4. ModeFollowsCursor' /\ HolderIsPresent' /\ HeldEdgeIsOpen'
    BY <1>2, <2>1 DEF CrossTo, ModeFollowsCursor, HolderIsPresent, HeldEdgeIsOpen
  <2> QED
    BY <2>3, <2>4 DEF Inv
<1> QED
  BY <1>3, <1>4

-----------------------------------------------------------------------------
(* Every action keeps the invariant.                                       *)

\* The initial states satisfy it.
LEMMA InitInv == Init => Inv
<1> SUFFICES ASSUME Init PROVE Inv
  OBVIOUS
<1>1. TypeOK
  <2>1. Local \in Devices /\ place \in [Devices -> Screens]
    BY DEF Init, Devices
  <2>2. cursor \in Points
    BY <2>1, ScreensOnDesk DEF Init
  <2>3. clients \in [Clients -> {"Absent", "Ready", "Suspended"}]
    BY DEF Init
  <2> QED
    BY <2>1, <2>2, <2>3 DEF Init, TypeOK
<1>2. ModeFollowsCursor /\ HolderIsPresent /\ HeldEdgeIsOpen
  BY DEF Init, ModeFollowsCursor, HolderIsPresent, HeldEdgeIsOpen, Present
<1> QED
  BY <1>1, <1>2 DEF Inv

\* Actions that leave the machines, the cursor's holder and its hold alone.
LEMMA StillHeld ==
  ASSUME Inv, TypeOK', UNCHANGED <<active, mode, place, pending>>,
         \A c \in Clients : clients'[c] = clients[c] \/ clients'[c] = "Ready"
  PROVE  Inv'
<1>1. ModeFollowsCursor' /\ HolderIsPresent'
  BY DEF Inv, ModeFollowsCursor, HolderIsPresent, Present
<1>2. HeldEdgeIsOpen'
  BY DEF Inv, HeldEdgeIsOpen, Usable
<1> QED
  BY <1>1, <1>2 DEF Inv

\* Event::PointerBy.
LEMMA PointerByKeeps ==
  ASSUME Inv, NEW target \in Devices, NEW p \in Points, PointerBy(target, p)
  PROVE  Inv'
<1>1. Steady /\ target \in Under(p) /\ target \in Present
  BY UnderIsPresent DEF PointerBy, Steady, Inv
<1>2. CASE target = active /\ pending' = None /\ cursor' = p
           /\ out' = Position(target, p) /\ UNCHANGED <<active, mode, lastTap>>
  <2>1. out' \in Seq(Actions)
    BY <1>1, <1>2, PositionIsAction DEF Inv
  <2>2. TypeOK'
    BY <1>1, <1>2, <2>1 DEF Inv, TypeOK, Steady
  <2>3. ModeFollowsCursor' /\ HolderIsPresent' /\ HeldEdgeIsOpen'
    BY <1>1, <1>2 DEF Inv, ModeFollowsCursor, HolderIsPresent, HeldEdgeIsOpen, Steady, Present
  <2> QED
    BY <2>2, <2>3 DEF Inv
<1>3. CASE pending' = None /\ StopAtEdge /\ UNCHANGED <<active, mode, lastTap>>
  <2>1. TypeOK'
    BY <1>1, <1>3, StopIsTyped DEF Inv, TypeOK, Steady
  <2>2. ModeFollowsCursor' /\ HolderIsPresent' /\ HeldEdgeIsOpen'
    BY <1>1, <1>3 DEF Inv, ModeFollowsCursor, HolderIsPresent, HeldEdgeIsOpen, Steady, Present
  <2> QED
    BY <2>1, <2>2 DEF Inv
<1>4. CASE CrossTo(target, p)
  BY <1>1, <1>4, CrossKeeps
<1>5. CASE target # active /\ ~Wall(target) /\ NoteStrike(target)
           /\ HoldAtEdge(target, p) /\ StopAtEdge /\ UNCHANGED <<active, mode>>
  <2>1. pending' \in Holds /\ pending'.target = target
    BY <1>1, <1>5, TimeAssumption
    DEF HoldAtEdge, Holds, Ages, Inv, TypeOK
  <2>2. lastTap' \in Taps \cup {None}
    BY <1>1, <1>5, TimeAssumption
    DEF NoteStrike, Taps, Ages, Inv, TypeOK
  <2>3. TypeOK'
    BY <1>1, <1>5, <2>1, <2>2, StopIsTyped DEF Inv, TypeOK, Steady
  <2>4. ModeFollowsCursor' /\ HolderIsPresent'
    BY <1>1, <1>5 DEF Inv, ModeFollowsCursor, HolderIsPresent, Steady, Present
  <2>5. HeldEdgeIsOpen'
    BY <1>1, <1>5, <2>1 DEF HeldEdgeIsOpen, Wall, Usable, Steady
  <2> QED
    BY <2>3, <2>4, <2>5 DEF Inv
<1> QED
  BY <1>2, <1>3, <1>4, <1>5 DEF PointerBy

\* Event::Tick.
LEMMA TickKeeps ==
  ASSUME Inv, Tick
  PROVE  Inv'
<1>1. Steady /\ pending \in Holds
  BY DEF Tick, Steady, Inv, TypeOK
<1>2. CASE Usable(pending.target) /\ pending.at \in Live
  <2>1. pending.target \in Present /\ pending.at \in Points
    BY <1>1, <1>2, UsableIsPresent DEF Holds
  <2> QED
    BY <1>1, <1>2, <2>1, CrossKeeps DEF Tick
<1>3. CASE ~(Usable(pending.target) /\ pending.at \in Live)
  <2>1. pending' = None /\ out' = <<>> /\ UNCHANGED <<active, mode, cursor, lastTap>>
    BY <1>3 DEF Tick
  <2>2. TypeOK'
    BY <1>1, <2>1 DEF Inv, TypeOK, Steady
  <2>3. ModeFollowsCursor' /\ HolderIsPresent' /\ HeldEdgeIsOpen'
    BY <1>1, <2>1 DEF Inv, ModeFollowsCursor, HolderIsPresent, HeldEdgeIsOpen, Steady, Present
  <2> QED
    BY <2>2, <2>3 DEF Inv
<1> QED
  BY <1>2, <1>3

\* A machine leaves or can no longer take the cursor.
LEMMA UnfitKeeps ==
  ASSUME Inv, NEW c \in Clients, NEW health \in {"Absent", "Suspended"},
         clients' = [clients EXCEPT ![c] = health],
         UNCHANGED <<place, keys, delay, window>>,
         IF active = c
           THEN RecallCursor
           ELSE /\ pending' = IF pending # None /\ pending.target = c
                                THEN None ELSE pending
                /\ out' = <<>>
                /\ UNCHANGED <<active, mode, cursor, lastTap>>
  PROVE  Inv'
<1>1. clients' \in [Clients -> {"Absent", "Ready", "Suspended"}]
  BY DEF Inv, TypeOK
<1>2. CASE active = c
  BY <1>1, <1>2, RecallKeeps
<1>3. CASE active # c
  <2>1. TypeOK'
    BY <1>1, <1>3 DEF Inv, TypeOK
  <2>2. ModeFollowsCursor' /\ HolderIsPresent'
    BY <1>3 DEF Inv, TypeOK, ModeFollowsCursor, HolderIsPresent, Present
  <2>3. HeldEdgeIsOpen'
    BY <1>3 DEF Inv, TypeOK, HeldEdgeIsOpen, Usable
  <2> QED
    BY <2>1, <2>2, <2>3 DEF Inv
<1> QED
  BY <1>2, <1>3

\* Every step of the server keeps the invariant.
LEMMA StepInv == Inv /\ [Next]_vars => Inv'
<1> SUFFICES ASSUME Inv, [Next]_vars PROVE Inv'
  OBVIOUS
<1> USE DEF Inv
<1>1. ASSUME NEW p \in Points, PointerAt(p) PROVE Inv'
  <2>1. TypeOK'
    BY <1>1 DEF PointerAt, TypeOK
  <2> QED
    BY <1>1, <2>1, StillHeld DEF PointerAt
<1>2. CASE Motion
  BY <1>2, PointerByKeeps DEF Motion
<1>3. CASE Tick
  BY <1>3, TickKeeps
<1>4. CASE Elapse
  <2> DEFINE Older(t) == IF t = None THEN None
                         ELSE [t EXCEPT !.age = IF @ < MaxAge THEN @ + 1 ELSE @]
  <2>1. \A t \in Holds : Older(t) \in Holds /\ Older(t).target = t.target
    BY TimeAssumption, NoneAssumption DEF Holds, Ages
  <2>2. \A t \in Taps : Older(t) \in Taps
    BY TimeAssumption, NoneAssumption DEF Taps, Ages
  <2>3. pending' = Older(pending) /\ lastTap' = Older(lastTap) /\ out' = <<>>
        /\ UNCHANGED <<active, mode, cursor, place, clients, keys, delay, window>>
    BY <1>4 DEF Elapse
  <2>4. Older(None) = None
    OBVIOUS
  <2> HIDE DEF Older
  <2>5. TypeOK'
    BY <2>1, <2>2, <2>3, <2>4 DEF TypeOK
  <2>6. ModeFollowsCursor' /\ HolderIsPresent'
    BY <2>3 DEF ModeFollowsCursor, HolderIsPresent, Present
  <2>7. HeldEdgeIsOpen'
    BY <2>1, <2>3, <2>4 DEF TypeOK, HeldEdgeIsOpen, Usable
  <2> QED
    BY <2>5, <2>6, <2>7
<1>5. ASSUME NEW k \in Keys, NEW down \in BOOLEAN, Key(k, down) PROVE Inv'
  <2>1. [type |-> "Key", key |-> k, down |-> down] \in Msgs
    BY <1>5 DEF Msgs
  <2>2. out' \in Seq(Actions)
    BY <1>5, <2>1, DoIsAction DEF Key, TypeOK
  <2>3. TypeOK'
    BY <1>5, <2>2 DEF Key, TypeOK
  <2> QED
    BY <1>5, <2>3, StillHeld DEF Key
<1>6. CASE Wheel
  <2>1. [type |-> "Wheel"] \in Msgs
    BY DEF Msgs
  <2>2. TypeOK'
    BY <1>6, <2>1, DoIsAction DEF Wheel, TypeOK
  <2> QED
    BY <1>6, <2>2, StillHeld DEF Wheel
<1>7. ASSUME NEW c \in Clients, ClientUp(c) PROVE Inv'
  <2>1. [type |-> "ReleaseAll"] \in Msgs /\ c \in Devices
    BY <1>7 DEF Msgs, Devices
  <2>2. out' \in Seq(Actions)
    BY <1>7, <2>1, DoIsAction DEF ClientUp
  <2>3. TypeOK'
    BY <1>7, <2>2 DEF ClientUp, TypeOK
  <2> QED
    BY <1>7, <2>3, StillHeld DEF ClientUp, TypeOK
<1>8. ASSUME NEW c \in Clients, NEW s \in Screens, ClientMonitors(c, s) PROVE Inv'
  <2> DEFINE f == [place EXCEPT ![c] = s]
  <2>1. f \in [Devices -> Screens]
    BY DEF TypeOK
  <2>2. PICK p \in Snaps(f) : Resettle(f, p, pending, lastTap)
    BY <1>8 DEF ClientMonitors
  <2>3. place' = f /\ delay' \in Delays /\ window' \in Windows
        /\ UNCHANGED <<clients, keys>>
    BY <1>8 DEF ClientMonitors, TypeOK
  <2> HIDE DEF f
  <2> QED
    BY <2>1, <2>2, <2>3, ResettleKeeps
<1>9. ASSUME NEW c \in Clients, ClientDown(c) PROVE Inv'
  BY <1>9, UnfitKeeps DEF ClientDown
<1>10. ASSUME NEW c \in Clients, ClientSuspended(c) PROVE Inv'
  BY <1>10, UnfitKeeps DEF ClientSuspended
<1>11. ASSUME NEW c \in Clients, ClientResumed(c) PROVE Inv'
  <2>1. TypeOK'
    BY <1>11 DEF ClientResumed, TypeOK
  <2> QED
    BY <1>11, <2>1, StillHeld DEF ClientResumed, TypeOK
<1>12. ASSUME NEW f \in Arrangements, NEW d \in Delays, NEW w \in Windows,
              Reconfigure(f, d, w)
       PROVE  Inv'
  <2>1. f \in [Devices -> Screens]
    BY DEF Arrangements
  <2>2. PICK p \in Snaps(f) : Resettle(f, p, None, None)
    BY <1>12 DEF Reconfigure
  <2>3. place' = f /\ delay' \in Delays /\ window' \in Windows
        /\ UNCHANGED <<clients, keys>>
    BY <1>12 DEF Reconfigure
  <2> QED
    BY <2>1, <2>2, <2>3, ResettleKeeps
<1>13. CASE UNCHANGED vars
  <2>1. TypeOK'
    BY <1>13 DEF vars, TypeOK
  <2> QED
    BY <1>13, <2>1, StillHeld DEF vars
<1> QED
  BY <1>1, <1>2, <1>3, <1>4, <1>5, <1>6, <1>7, <1>8, <1>9, <1>10, <1>11, <1>12,
     <1>13 DEF Next

\* The inductive invariant holds of every reachable state.
THEOREM Invariance == Spec => []Inv
BY InitInv, StepInv, PTL DEF Spec

\* The server's state has its types: every event, in any order, keeps the
\* cursor on the desktop and sends only well-formed messages to machines.
THEOREM TypeCorrect == Spec => []TypeOK
BY Invariance, PTL DEF Inv

\* Local input is swallowed exactly while the cursor is elsewhere.
THEOREM SwallowedOnlyWhileAway == Spec => []ModeFollowsCursor
BY Invariance, PTL DEF Inv

\* The cursor is never with a machine that is not connected.
THEOREM HolderConnected == Spec => []HolderIsPresent
BY Invariance, PTL DEF Inv

\* An edge being held leads to another machine that can take the cursor.
THEOREM HeldEdgeOpen == Spec => []HeldEdgeIsOpen
BY Invariance, PTL DEF Inv

-----------------------------------------------------------------------------
(* What a step may never do.                                               *)

\* Motion and time hand the cursor only to a machine that can take it.
THEOREM MotionUsable == Spec => MotionFindsUsable
<1> DEFINE Found == (Tick \/ Motion) /\ active' # active => Usable(active')
<1>1. Tick => Found
  BY DEF Tick, CrossTo
<1>2. Motion => Found
  BY DEF Motion, PointerBy, CrossTo, Wall
<1>3. [Found]_vars
  BY <1>1, <1>2
<1> QED
  BY <1>3, PTL DEF MotionFindsUsable

\* Where the cursor may be in the middle of a change of arrangement.
LEMMA ResettleLands ==
  ASSUME NEW f, place' = f, NEW p, NEW hold, NEW tap, Resettle(f, p, hold, tap)
  PROVE  cursor' \in place'[active']
BY DEF Resettle, CrossTo

\* A machine leaves or can no longer take the cursor.
LEMMA UnfitLands ==
  ASSUME NEW c \in Clients, cursor \in place[active], UNCHANGED place,
         IF active = c THEN RecallCursor ELSE UNCHANGED <<active, cursor>>
  PROVE  cursor' \in place'[active']
BY DEF RecallCursor

\* The cursor stays on a screen of the machine that has it.
THEOREM CursorUnderHolder == Spec => CursorStaysUnderHolder
<1> DEFINE Before == /\ cursor \in place[active]
                     /\ pending # None => pending.at \in place[pending.target]
           After  == cursor' \in place'[active']
<1>1. ASSUME Inv, Before, Next PROVE After
  <2> USE <1>1
  <2>1. ASSUME NEW p \in Points, PointerAt(p) PROVE After
    BY <2>1 DEF PointerAt
  <2>2. ASSUME NEW d \in Devices, NEW p \in Points, PointerBy(d, p) PROVE After
    <3>1. p \in place[d]
      BY <2>2 DEF PointerBy, Under
    <3>2. StopAtEdge => cursor' \in place[active]
      BY DEF StopAtEdge
    <3> QED
      BY <2>2, <3>1, <3>2 DEF PointerBy, CrossTo
  <2>3. CASE Tick
    BY <2>3 DEF Tick, CrossTo
  <2>4. CASE Elapse \/ Wheel
    BY <2>4 DEF Elapse, Wheel
  <2>5. ASSUME NEW k \in Keys, NEW down \in BOOLEAN, Key(k, down) PROVE After
    BY <2>5 DEF Key
  <2>6. ASSUME NEW c \in Clients, ClientUp(c) \/ ClientResumed(c) PROVE After
    BY <2>6 DEF ClientUp, ClientResumed
  <2>7. ASSUME NEW c \in Clients, ClientDown(c) PROVE After
    BY <2>7, UnfitLands DEF ClientDown
  <2>8. ASSUME NEW c \in Clients, ClientSuspended(c) PROVE After
    BY <2>8, UnfitLands DEF ClientSuspended
  <2>9. ASSUME NEW c \in Clients, NEW s \in Screens, ClientMonitors(c, s) PROVE After
    <3> DEFINE f == [place EXCEPT ![c] = s]
    <3>1. place' = f
      BY <2>9 DEF ClientMonitors
    <3>2. PICK p \in Snaps(f) : Resettle(f, p, pending, lastTap)
      BY <2>9 DEF ClientMonitors
    <3> HIDE DEF f
    <3> QED
      BY <3>1, <3>2, ResettleLands
  <2>10. ASSUME NEW f \in Arrangements, NEW d \in Delays, NEW w \in Windows,
                Reconfigure(f, d, w)
         PROVE  After
    <3>1. place' = f
      BY <2>10 DEF Reconfigure
    <3>2. PICK p \in Snaps(f) : Resettle(f, p, None, None)
      BY <2>10 DEF Reconfigure
    <3> QED
      BY <3>1, <3>2, ResettleLands
  <2> QED
    BY <2>1, <2>2, <2>3, <2>4, <2>5, <2>6, <2>7, <2>8, <2>9, <2>10
    DEF Next, Motion
<1>2. Inv /\ [Next]_vars => [Before => After]_vars
  BY <1>1
<1> QED
  BY <1>2, Invariance, PTL DEF Spec, CursorStaysUnderHolder

\* What Parting puts first is still there whatever follows it.
LEMMA PartingIsSaid ==
  ASSUME TypeOK, NEW c \in Clients, active = c, NEW d \in Devices,
         NEW p \in Points, CrossTo(d, p)
  PROVE  \E i \in 1 .. Len(out') :
           out'[i] = [to |-> c, msg |-> [type |-> "Leave"]]
<1>1. Parting = <<[to |-> c, msg |-> [type |-> "Leave"]]>>
  BY DeviceAssumption DEF Parting, Do
<1>2. Arriving(d, p) \in Seq(Actions)
  <2>1. [type |-> "Enter", at |-> p, keys |-> keys] \in Msgs
    BY DEF Msgs, TypeOK
  <2> QED
    BY <2>1, DoIsAction, LocalActions DEF Arriving
<1>3. out' = Parting \o Arriving(d, p)
  BY DEF CrossTo
<1>4. Len(out') >= 1 /\ out'[1] = [to |-> c, msg |-> [type |-> "Leave"]]
  BY <1>1, <1>2, <1>3
<1> QED
  BY <1>4

\* A client that can take input is never left without being told.
THEOREM LeavingSaid == Spec => LeavingIsSaid
<1> DEFINE Told(c) == \E i \in 1 .. Len(out') :
                        out'[i] = [to |-> c, msg |-> [type |-> "Leave"]]
           Left(c) == active = c /\ active' # c /\ clients'[c] = "Ready"
<1>1. ASSUME Inv, Next, NEW c \in Clients, Left(c) PROVE Told(c)
  <2> USE <1>1 DEF Inv
  <2>1. \A d \in Devices, p \in Points : CrossTo(d, p) => Told(c)
    BY PartingIsSaid
  <2> HIDE DEF Told
  <2>2. ASSUME NEW d \in Devices, NEW p \in Points, PointerBy(d, p) PROVE Told(c)
    <3>1. CrossTo(d, p)
      BY <2>2 DEF PointerBy
    <3> QED
      BY <2>1, <3>1
  <2>3. CASE Tick
    <3>1. CrossTo(pending.target, pending.at) /\ pending \in Holds
      BY <2>3 DEF Tick, TypeOK
    <3> QED
      BY <2>1, <3>1 DEF Holds
  <2>4. ASSUME NEW d \in Clients, ClientDown(d) \/ ClientSuspended(d) PROVE Told(c)
    \* Only the machine itself loses the cursor so, and it is not Ready then.
    BY <2>4 DEF ClientDown, ClientSuspended, RecallCursor, TypeOK
  <2>5. ASSUME NEW f \in [Devices -> Screens], NEW p, NEW hold, NEW tap,
               Resettle(f, p, hold, tap)
        PROVE  Told(c)
    <3>1. PICK d \in Present : p \in f[d] /\ CrossTo(d, p)
      BY <2>5 DEF Resettle
    <3>2. d \in Devices /\ p \in Points
      BY <3>1, PresentAreDevices, ScreensOnDesk
    <3> QED
      BY <2>1, <3>1, <3>2
  <2>6. ASSUME NEW d \in Clients, NEW s \in Screens, ClientMonitors(d, s)
        PROVE  Told(c)
    <3> DEFINE f == [place EXCEPT ![d] = s]
    <3>1. f \in [Devices -> Screens]
      BY DEF TypeOK
    <3>2. PICK p \in Snaps(f) : Resettle(f, p, pending, lastTap)
      BY <2>6 DEF ClientMonitors
    <3> HIDE DEF f
    <3> QED
      BY <2>5, <3>1, <3>2
  <2>7. ASSUME NEW f \in Arrangements, NEW d \in Delays, NEW w \in Windows,
               Reconfigure(f, d, w)
        PROVE  Told(c)
    BY <2>5, <2>7 DEF Reconfigure, Arrangements
  <2> QED
    BY <2>2, <2>3, <2>4, <2>6, <2>7 DEF Next, Motion, PointerAt, Elapse, Wheel,
       Key, ClientUp, ClientResumed
<1>2. Inv /\ [Next]_vars => [\A c \in Clients : Left(c) => Told(c)]_vars
  BY <1>1
<1> QED
  BY <1>2, Invariance, PTL DEF Spec, LeavingIsSaid

-----------------------------------------------------------------------------
(* The server implements Focus.                                            *)

\* A machine that leaves or can no longer act fails, in Focus's terms.
LEMMA UnfitFails ==
  ASSUME Inv, NEW c \in Clients, clients[c] # "Absent",
         NEW health \in {"Absent", "Suspended"},
         clients' = [clients EXCEPT ![c] = health],
         IF active = c THEN RecallCursor ELSE UNCHANGED <<active, mode>>
  PROVE  F!Fail(c, health)
<1>1. CASE active = c
  BY <1>1 DEF F!Fail, F!Give, RecallCursor
<1>2. CASE active # c
  BY <1>2 DEF F!Fail, F!Give, Inv, ModeFollowsCursor
<1> QED
  BY <1>1, <1>2

\* A cursor handed over passes, in Focus's terms.
LEMMA CrossPasses ==
  ASSUME NEW d \in Present, NEW p, CrossTo(d, p), UNCHANGED clients
  PROVE  F!Pass(d)
BY DeviceAssumption DEF F!Pass, F!Give, CrossTo, Present

\* A change of arrangement passes the cursor on or leaves it where it was.
LEMMA ResettlePasses ==
  ASSUME NEW f, NEW p, NEW hold, NEW tap, Resettle(f, p, hold, tap),
         UNCHANGED clients
  PROVE  [F!Next]_F!vars
<1>1. PICK d \in Present : IF d = active THEN UNCHANGED <<active, mode>>
                                         ELSE CrossTo(d, p)
  BY DEF Resettle
<1>2. CASE UNCHANGED <<active, mode>>
  BY <1>2 DEF F!vars
<1>3. CASE CrossTo(d, p)
  <2>1. F!Pass(d) /\ d \in Clients \cup {Local}
    BY <1>3, CrossPasses, PresentAreDevices DEF Devices
  <2> QED
    BY <2>1 DEF F!Next
<1> QED
  BY <1>1, <1>2, <1>3

\* Every run of the server is a run of Focus: the cursor is with one connected
\* machine, comes home at once when that machine is lost or cannot act, and
\* local input is swallowed exactly meanwhile.
THEOREM ImplementsFocus == Spec => KeepsFocus
<1>1. Init => F!Init
  BY DEF Init, F!Init
<1>2. ASSUME Inv, [Next]_vars PROVE [F!Next]_F!vars
  <2> USE <1>2
  <2>1. ASSUME NEW p \in Points, PointerAt(p) PROVE UNCHANGED F!vars
    BY <2>1 DEF PointerAt, F!vars
  <2>2. ASSUME NEW d \in Devices, NEW p \in Points, PointerBy(d, p)
        PROVE  [F!Next]_F!vars
    <3>1. d \in Present /\ d \in Clients \cup {Local} /\ UNCHANGED clients
      BY <2>2, UnderIsPresent DEF PointerBy, Devices, Inv
    <3>2. CASE CrossTo(d, p)
      BY <3>1, <3>2, CrossPasses DEF F!Next
    <3>3. CASE UNCHANGED <<active, mode>>
      BY <3>1, <3>3 DEF F!vars
    <3> QED
      BY <2>2, <3>2, <3>3 DEF PointerBy
  <2>3. CASE Tick
    <3>1. CASE CrossTo(pending.target, pending.at) /\ Usable(pending.target)
      <4>1. pending.target \in Devices
        BY <2>3 DEF Tick, Inv, TypeOK, Holds
      <4>2. pending.target \in Present
        BY <3>1, <4>1, UsableIsPresent
      <4> QED
        BY <2>3, <3>1, <4>1, <4>2, CrossPasses DEF Tick, F!Next, Devices
    <3>2. CASE UNCHANGED <<active, mode>>
      BY <2>3, <3>2 DEF Tick, F!vars
    <3> QED
      BY <2>3, <3>1, <3>2 DEF Tick
  <2>4. CASE Elapse \/ Wheel
    BY <2>4 DEF Elapse, Wheel, F!vars
  <2>5. ASSUME NEW k \in Keys, NEW down \in BOOLEAN, Key(k, down)
        PROVE  UNCHANGED F!vars
    BY <2>5 DEF Key, F!vars
  <2>6. ASSUME NEW c \in Clients, ClientUp(c) \/ ClientResumed(c)
        PROVE  [F!Next]_F!vars
    BY <2>6 DEF ClientUp, ClientResumed, F!Arrive, F!Next
  <2>7. ASSUME NEW c \in Clients, ClientDown(c) PROVE [F!Next]_F!vars
    BY <2>7, UnfitFails DEF ClientDown, F!Next
  <2>8. ASSUME NEW c \in Clients, ClientSuspended(c) PROVE [F!Next]_F!vars
    BY <2>8, UnfitFails DEF ClientSuspended, F!Next
  <2>9. ASSUME NEW c \in Clients, NEW s \in Screens, ClientMonitors(c, s)
        PROVE  [F!Next]_F!vars
    BY <2>9, ResettlePasses DEF ClientMonitors
  <2>10. ASSUME NEW f \in Arrangements, NEW d \in Delays, NEW w \in Windows,
                Reconfigure(f, d, w)
         PROVE  [F!Next]_F!vars
    BY <2>10, ResettlePasses DEF Reconfigure
  <2>11. CASE UNCHANGED vars
    BY <2>11 DEF vars, F!vars
  <2> QED
    BY <2>1, <2>2, <2>3, <2>4, <2>5, <2>6, <2>7, <2>8, <2>9, <2>10, <2>11
    DEF Next, Motion
<1> QED
  BY <1>1, <1>2, Invariance, PTL DEF Spec, F!Spec, KeepsFocus

-----------------------------------------------------------------------------
(* The held edge and the history of presses.                               *)

\* The history is a press of some machine's edge, or none.
PressType == pressed \in Taps \cup {None}

\* What the server holds has really been pressed: the same machine's edge, and
\* for no shorter than the server believes.
HeldIsPressed ==
  pending # None => /\ pressed # None
                    /\ pressed.target = pending.target
                    /\ pressed.age >= pending.age

\* The history takes no part in what the server does.
LEMMA EdgeIsServer == EdgeSpec => Spec
<1>1. [EdgeNext]_edgeVars => [Next]_vars
  BY DEF EdgeNext, edgeVars, Next, Motion
<1> QED
  BY <1>1, PTL DEF EdgeSpec, Spec

\* Events other than movement and time: a hold is kept or forgotten.
LEMMA HoldKeptOrForgotten ==
  ASSUME Inv,
         \/ Tick \/ Wheel \/ \E p \in Points : PointerAt(p)
         \/ \E k \in Keys, down \in BOOLEAN : Key(k, down)
         \/ \E c \in Clients : \/ ClientUp(c) \/ ClientDown(c)
                               \/ ClientSuspended(c) \/ ClientResumed(c)
                               \/ \E s \in Screens : ClientMonitors(c, s)
         \/ \E f \in Arrangements, d \in Delays, w \in Windows :
              Reconfigure(f, d, w)
  PROVE  pending' = pending \/ pending' = None
<1>1. \A f, p, tap : /\ Resettle(f, p, pending, tap) => pending' = pending \/ pending' = None
                     /\ Resettle(f, p, None, tap) => pending' = None
  BY DEF Resettle, CrossTo
<1>2. Tick => pending' = None
  BY DEF Tick, CrossTo
<1>3. \A c \in Clients, s \in Screens :
        ClientMonitors(c, s) => pending' = pending \/ pending' = None
  BY <1>1 DEF ClientMonitors
<1>4. \A f \in Arrangements, d \in Delays, w \in Windows :
        Reconfigure(f, d, w) => pending' = None
  BY <1>1 DEF Reconfigure
<1>5. \A c \in Clients : ClientDown(c) \/ ClientSuspended(c)
                         => pending' = pending \/ pending' = None
  BY DEF ClientDown, ClientSuspended, RecallCursor
<1>6. \A c \in Clients : ClientUp(c) \/ ClientResumed(c) => pending' = pending
  BY DEF ClientUp, ClientResumed
<1>7. \A k \in Keys, down \in BOOLEAN : Key(k, down) => pending' = pending
  BY DEF Key
<1>8. Wheel \/ (\E p \in Points : PointerAt(p)) => pending' = pending
  BY DEF Wheel, PointerAt
<1> QED
  BY <1>2, <1>3, <1>4, <1>5, <1>6, <1>7, <1>8

\* A movement starts a hold of the server's and a press together, and goes on
\* with both or with neither.
LEMMA MovementPresses ==
  ASSUME Inv, PressType, HeldIsPressed, NEW d \in Devices, NEW p \in Points,
         PointerBy(d, p), pressed' = PressOf(d)
  PROVE  PressType' /\ HeldIsPressed'
<1>1. PressType'
  BY TimeAssumption DEF PressType, PressOf, Taps, Ages
<1>2. CASE pending' = None
  BY <1>1, <1>2 DEF HeldIsPressed
<1>3. CASE d # active /\ ~Wall(d) /\ HoldAtEdge(d, p)
  <2>1. pressed' = IF pressed # None /\ pressed.target = d
                     THEN pressed ELSE [target |-> d, age |-> 0]
    BY <1>3 DEF PressOf, Wall
  <2>2. [target |-> d, age |-> 0] \in Taps
    BY TimeAssumption DEF Taps, Ages
  <2>3. pressed' # None /\ pressed'.target = d
    BY <2>1, <2>2, NoneAssumption
  <2>4. CASE pending # None /\ pending.target = d
    <3>1. pending' = [pending EXCEPT !.at = p]
      BY <1>3, <2>4 DEF HoldAtEdge
    <3>2. pending'.target = d /\ pending'.age = pending.age
      BY <2>4, <3>1 DEF Inv, TypeOK, Holds
    <3>3. pressed' = pressed /\ pressed.age >= pending.age
      BY <2>1, <2>4 DEF HeldIsPressed
    <3> QED
      BY <2>3, <3>2, <3>3, <1>1 DEF HeldIsPressed
  <2>5. CASE ~(pending # None /\ pending.target = d)
    <3>1. pending' = [target |-> d, age |-> 0, at |-> p]
      BY <1>3, <2>5 DEF HoldAtEdge
    <3>2. pressed'.age \in Nat
      BY <1>1, <2>3, TimeAssumption DEF PressType, Taps, Ages
    <3> QED
      BY <2>3, <3>1, <3>2, <1>1 DEF HeldIsPressed
  <2> QED
    BY <2>4, <2>5
<1> QED
  BY <1>2, <1>3 DEF PointerBy, CrossTo

\* Time makes a hold and the press it is of longer alike, as far as ages go.
LEMMA TimePresses ==
  ASSUME Inv, PressType, HeldIsPressed, Elapse,
         pressed' = IF pressed = None THEN None
                    ELSE [pressed EXCEPT !.age = IF @ < MaxAge THEN @ + 1 ELSE @]
  PROVE  PressType' /\ HeldIsPressed'
<1>1. PressType'
  BY TimeAssumption DEF PressType, Taps, Ages
<1>2. CASE pending = None
  BY <1>1, <1>2 DEF Elapse, HeldIsPressed
<1>3. CASE pending # None
  <2>1. /\ pending \in Holds /\ pressed \in Taps
        /\ pressed.target = pending.target /\ pressed.age >= pending.age
    BY <1>3 DEF HeldIsPressed, PressType, Inv, TypeOK
  <2>2. pending' = [pending EXCEPT !.age = IF @ < MaxAge THEN @ + 1 ELSE @]
    BY <1>3 DEF Elapse
  <2>3. pressed' = [pressed EXCEPT !.age = IF @ < MaxAge THEN @ + 1 ELSE @]
    BY <2>1, NoneAssumption
  <2>4. /\ pending'.target = pending.target
        /\ pending'.age = IF pending.age < MaxAge THEN pending.age + 1 ELSE pending.age
    BY <2>1, <2>2 DEF Holds
  <2>5. /\ pressed'.target = pressed.target /\ pressed' \in Taps
        /\ pressed'.age = IF pressed.age < MaxAge THEN pressed.age + 1 ELSE pressed.age
    BY <2>1, <2>3, TimeAssumption DEF Taps, Ages
  <2>6. pending.age \in 0 .. MaxAge /\ pressed.age \in 0 .. MaxAge
    BY <2>1 DEF Holds, Taps, Ages
  <2>7. pressed'.age >= pending'.age
    BY <2>1, <2>4, <2>5, <2>6, TimeAssumption
  <2> QED
    BY <1>1, <2>1, <2>4, <2>5, <2>7, NoneAssumption DEF HeldIsPressed
<1> QED
  BY <1>2, <1>3

\* Every step keeps the hold and the history together.
LEMMA StepPresses ==
  Inv /\ PressType /\ HeldIsPressed /\ [EdgeNext]_edgeVars
    => PressType' /\ HeldIsPressed'
<1> SUFFICES ASSUME Inv, PressType, HeldIsPressed, [EdgeNext]_edgeVars
             PROVE  PressType' /\ HeldIsPressed'
  OBVIOUS
<1>1. CASE UNCHANGED pressed /\ (pending' = pending \/ pending' = None)
  BY <1>1 DEF PressType, HeldIsPressed
<1>2. CASE UNCHANGED edgeVars
  BY <1>1, <1>2 DEF edgeVars, vars
<1>3. ASSUME NEW d \in Devices, NEW p \in Points, PointerBy(d, p),
             pressed' = PressOf(d)
      PROVE  PressType' /\ HeldIsPressed'
  BY <1>3, MovementPresses
<1> QED
  BY <1>1, <1>2, <1>3, TimePresses, HoldKeptOrForgotten DEF EdgeNext

\* The cursor crosses an edge that takes time only where it has rested: what
\* the server goes by is never longer than what the hand did.
THEOREM RestedBeforeCrossing == EdgeSpec => RestsBeforeCrossing
<1> DEFINE Rested == (Tick \/ Motion) /\ active' # active /\ delay > 0 /\ window = 0
                     => /\ pressed # None
                        /\ pressed.target = active'
                        /\ pressed.age >= delay
<1>1. ASSUME Inv, PressType, HeldIsPressed PROVE Rested
  <2> SUFFICES ASSUME Tick \/ Motion, active' # active, delay > 0, window = 0
               PROVE  /\ pressed # None
                      /\ pressed.target = active'
                      /\ pressed.age >= delay
    OBVIOUS
  <2>1. HeldLongEnough(active')
    <3>1. CASE Tick
      BY <3>1 DEF Tick, CrossTo
    <3>2. CASE Motion
      <4>1. PICK d \in Devices, p \in Points : PointerBy(d, p)
        BY <3>2 DEF Motion
      <4>2. MayCross(d) /\ active' = d
        BY <4>1 DEF PointerBy, CrossTo
      <4> QED
        BY <4>2, TimeAssumption DEF MayCross, Restrike, Inv, TypeOK
    <3> QED
      BY <3>1, <3>2
  <2>2. /\ pressed \in Taps /\ pending \in Holds
        /\ pressed.target = active' /\ pressed.age >= pending.age
        /\ pending.age >= delay
    BY <1>1, <2>1 DEF HeldLongEnough, HeldIsPressed, PressType, Inv, TypeOK
  <2>3. pressed.age \in Nat /\ pending.age \in Nat /\ delay \in Nat
    BY <1>1, <2>2, TimeAssumption DEF Taps, Holds, Ages, Inv, TypeOK
  <2> QED
    BY <2>2, <2>3, NoneAssumption
<1>2. Init /\ pressed = None => PressType /\ HeldIsPressed
  BY DEF Init, PressType, HeldIsPressed
<1>3. Inv /\ PressType /\ HeldIsPressed => [Rested]_edgeVars
  BY <1>1
<1> QED
  BY <1>2, <1>3, EdgeIsServer, Invariance, StepPresses, PTL
  DEF EdgeSpec, RestsBeforeCrossing

=============================================================================
