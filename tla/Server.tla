------------------------------- MODULE Server -------------------------------
(***************************************************************************)
(* The machine holding the keyboard and mouse: crates/smkvm-core/src/      *)
(* server.rs.  One action per arm of Server::handle, plus reconfigure.     *)
(*                                                                         *)
(* The arrangement of screens is abstracted to a finite set of Points and  *)
(* to which of them each machine's screens cover.  Where one movement ends *)
(* (Layout::resolve) is any covered point: the geometry that picks it is   *)
(* the subject of another module.  Screens of different machines may       *)
(* overlap, as a configuration written by hand may make them: a point that *)
(* two machines cover is then taken to be on either.  Keys and mouse       *)
(* buttons are one set, Keys: the code keeps two sets and treats them      *)
(* alike.                                                                  *)
(*                                                                         *)
(* Time is kept as ages: how long an edge has been held, how long ago it   *)
(* was last struck.  Elapse is one unit of time and ages stop at MaxAge,   *)
(* which is above every window and below no delay: stopping loses nothing. *)
(***************************************************************************)
EXTENDS Naturals, Sequences, FiniteSets

CONSTANTS
  Local,     \* the machine the server runs on
  Clients,   \* the machines that may connect to it
  Points,    \* places on the global desktop
  Screens,   \* the sets of points a machine's screens may cover
  Keys,      \* keys and mouse buttons
  Delays,    \* values of switch_delay a configuration may hold
  Windows,   \* values of switch_double_tap a configuration may hold
  MaxAge,    \* bound: where ages stop counting
  None       \* stands for Option::None

Devices == {Local} \cup Clients
Ages    == 0 .. MaxAge
Holds   == [target : Devices, age : Ages, at : Points]
Taps    == [target : Devices, age : Ages]

ASSUME DeviceAssumption == Local \notin Clients
ASSUME ScreenAssumption == Screens \subseteq SUBSET Points /\ {} \in Screens
ASSUME TimeAssumption ==
  /\ MaxAge \in Nat
  /\ Delays \subseteq 0 .. MaxAge
  /\ Windows \subseteq 0 .. MaxAge
  /\ \A w \in Windows : w < MaxAge
ASSUME NoneAssumption == None \notin Holds \cup Taps

VARIABLES
  active,    \* which machine has the cursor
  mode,      \* how the local pointer is read: "Local" or "Captured"
  cursor,    \* where the cursor is on the desktop
  place,     \* the points each machine's screens were given
  clients,   \* health of each machine: "Absent", "Ready" or "Suspended"
  keys,      \* what the person holds down, as far as the server was told
  pending,   \* an edge being held and not yet let through, or None
  lastTap,   \* the last strike against an edge, or None
  delay,     \* settings.switch_delay
  window,    \* settings.switch_double_tap
  out        \* the actions the last call to handle returned, in order

vars == <<active, mode, cursor, place, clients, keys, pending, lastTap,
          delay, window, out>>

-----------------------------------------------------------------------------
(* The actions handle returns.  One addressed to Local is a LocalAction    *)
(* for this machine; any other is a message to a client.                   *)

Msgs ==      [type : {"Leave", "ReleaseAll", "Wheel"}]
        \cup [type : {"MoveTo", "Warp"}, at : Points]
        \cup [type : {"Enter"}, at : Points, keys : SUBSET Keys]
        \cup [type : {"Key"}, key : Keys, down : BOOLEAN]
        \cup [type : {"Mode"}, mode : {"Local", "Captured"}]

Actions == [to : Devices, msg : Msgs]

Do(d, m)   == <<[to |-> d, msg |-> m]>>
SetMode(m) == Do(Local, [type |-> "Mode", mode |-> m])
Warp(p)    == Do(Local, [type |-> "Warp", at |-> p])

-----------------------------------------------------------------------------
(* The layout, as the server sees it.                                      *)

Present  == {Local} \cup {c \in Clients : clients[c] # "Absent"}
Live     == UNION {place[d] : d \in Present}
Under(p) == {d \in Present : p \in place[d]}

Usable(d) == d = Local \/ (d \in Clients /\ clients[d] = "Ready")

-----------------------------------------------------------------------------
(* Handing the cursor over.                                                *)

PartingUnsaid ==   \* mutant: a client is left without being told
  IF active = Local THEN SetMode("Captured") ELSE <<>>

\* What leaving a machine takes: swallowing local input, or a Leave.
Parting == IF active = Local THEN SetMode("Captured")
                             ELSE Do(active, [type |-> "Leave"])

\* What arriving on a machine takes: its own pointer back, or an Enter.
Arriving(target, p) ==
  IF target = Local THEN SetMode("Local") \o Warp(p)
  ELSE Do(target, [type |-> "Enter", at |-> p, keys |-> keys])

CrossTo(target, p) ==
  /\ pending' = None
  /\ lastTap' = None
  /\ cursor' = p
  /\ active' = target
  /\ mode' = IF target = Local THEN "Local" ELSE "Captured"
  /\ out' = Parting \o Arriving(target, p)

RecallWithoutMode ==   \* mutant: local input stays swallowed
  /\ pending' = None
  /\ lastTap' = None
  /\ active' = Local
  /\ \E p \in place[Local] : cursor' = p /\ out' = SetMode("Local") \o Warp(p)
  /\ UNCHANGED mode

\* Bring the cursor back to the middle of this machine's first screen.
RecallCursor ==
  /\ pending' = None
  /\ lastTap' = None
  /\ active' = Local
  /\ mode' = "Local"
  /\ \E p \in place[Local] : cursor' = p /\ out' = SetMode("Local") \o Warp(p)

\* Tell d, which has point p under it, where the cursor now is.  This machine
\* is only told when its pointer is not already being moved by the system.
Position(d, p) ==
  IF d = Local
    THEN IF mode = "Captured" THEN Warp(p) ELSE <<>>
    ELSE Do(d, [type |-> "MoveTo", at |-> p])

\* The cursor is not let through: it goes as far as its own screen reaches.
StopAtEdge ==
  \/ place[active] = {} /\ cursor' = cursor /\ out' = <<>>
  \/ \E p \in place[active] :
       /\ cursor' = p
       /\ IF p = cursor THEN out' = <<>>
                         ELSE \E d \in Under(p) : out' = Position(d, p)

\* Put the cursor somewhere real on the arrangement f, at p where it snaps to.
\* A cursor that stays with its machine leaves the held edge and the last
\* strike as hold and tap.
Resettle(f, p, hold, tap) ==
  \E d \in Present :
    /\ p \in f[d]
    /\ IF d = active
         THEN /\ cursor' = p /\ pending' = hold /\ lastTap' = tap
              /\ out' = <<>>
              /\ UNCHANGED <<active, mode>>
         ELSE CrossTo(d, p)

\* Where Layout::snap may put the cursor on the arrangement f.
Snaps(f) ==
  LET live == UNION {f[d] : d \in Present}
  IN IF cursor \in live THEN {cursor} ELSE live

-----------------------------------------------------------------------------
(* Is the cursor allowed through the edge it is pressed against?           *)

Restrike(target) == /\ window > 0
                    /\ lastTap # None
                    /\ lastTap.target = target
                    /\ lastTap.age <= window

HeldLongEnough(target) == /\ delay > 0
                          /\ pending # None
                          /\ pending.target = target
                          /\ pending.age >= delay

MayCross(target) == \/ Restrike(target)
                    \/ delay = 0 /\ window = 0
                    \/ HeldLongEnough(target)

\* may_cross remembers the strike whichever way it answers.
NoteStrike(target) ==
  lastTap' = IF window > 0 THEN [target |-> target, age |-> 0] ELSE lastTap

HoldFromFirstPress(target, p) ==   \* mutant: another edge keeps the old clock
  pending' = IF pending # None
               THEN [pending EXCEPT !.target = target, !.at = p]
               ELSE [target |-> target, age |-> 0, at |-> p]

HoldRestarts(target, p) ==   \* mutant: every press starts the wait again
  pending' = [target |-> target, age |-> 0, at |-> p]

HoldAtEdge(target, p) ==
  pending' = IF pending # None /\ pending.target = target
               THEN [pending EXCEPT !.at = p]
               ELSE [target |-> target, age |-> 0, at |-> p]

-----------------------------------------------------------------------------
(* Server::new, set_placements, and the report of this machine's screens.  *)

Init ==
  /\ active = Local
  /\ mode = "Local"
  /\ place \in [Devices -> Screens]
  /\ place[Local] # {} /\ \A c \in Clients : place[c] = {}
  /\ cursor \in place[Local]
  /\ clients = [c \in Clients |-> "Absent"]
  /\ keys = {}
  /\ pending = None
  /\ lastTap = None
  /\ delay \in Delays
  /\ window \in Windows
  /\ out = <<>>

-----------------------------------------------------------------------------
(* The pointer.                                                            *)

\* Event::PointerAt.  Follows the real pointer and never crosses.
PointerAt(p) ==
  /\ mode = "Local" /\ active = Local
  /\ p \in place[Local]
  /\ cursor' = p
  /\ out' = <<>>
  /\ UNCHANGED <<active, mode, place, clients, keys, pending, lastTap, delay,
                 window>>

\* An edge with no machine beyond it that can take the cursor is a wall.
Wall(d) == ~Usable(d)

\* Event::PointerBy whose movement resolves to p on a screen of target.
PointerBy(target, p) ==
  /\ target \in Under(p)
  /\ \/ /\ target = active
        /\ pending' = None
        /\ cursor' = p
        /\ out' = Position(target, p)
        /\ UNCHANGED <<active, mode, lastTap>>
     \/ /\ target # active /\ Wall(target)
        /\ pending' = None
        /\ StopAtEdge
        /\ UNCHANGED <<active, mode, lastTap>>
     \/ /\ target # active /\ ~Wall(target) /\ MayCross(target)
        /\ CrossTo(target, p)
     \/ /\ target # active /\ ~Wall(target) /\ ~MayCross(target)
        /\ NoteStrike(target)
        /\ HoldAtEdge(target, p)
        /\ StopAtEdge
        /\ UNCHANGED <<active, mode>>
  /\ UNCHANGED <<place, clients, keys, delay, window>>

\* The mouse is moved.
Motion == \E d \in Devices, p \in Points : PointerBy(d, p)

\* Event::Tick: let a waiting cursor through once its edge was held long
\* enough.  The crossing goes to the machine that was waited for.
Tick ==
  /\ pending # None
  /\ HeldLongEnough(pending.target)
  /\ IF Usable(pending.target) /\ pending.at \in Live
       THEN CrossTo(pending.target, pending.at)
       ELSE /\ pending' = None
            /\ out' = <<>>
            /\ UNCHANGED <<active, mode, cursor, lastTap>>
  /\ UNCHANGED <<place, clients, keys, delay, window>>

\* Time passing between events.
Elapse ==
  LET Older(t) == IF t = None THEN None
                  ELSE [t EXCEPT !.age = IF @ < MaxAge THEN @ + 1 ELSE @]
  IN /\ pending' = Older(pending)
     /\ lastTap' = Older(lastTap)
     /\ out' = <<>>
     /\ UNCHANGED <<active, mode, cursor, place, clients, keys, delay, window>>

-----------------------------------------------------------------------------
(* Buttons, keys and the wheel.                                            *)

\* Event::Key and Event::Button.
Key(k, down) ==
  /\ keys' = IF down THEN keys \cup {k} ELSE keys \ {k}
  /\ out' = IF active = Local THEN <<>>
            ELSE Do(active, [type |-> "Key", key |-> k, down |-> down])
  /\ UNCHANGED <<active, mode, cursor, place, clients, pending, lastTap, delay,
                 window>>

\* Event::Wheel.
Wheel ==
  /\ out' = IF active = Local THEN <<>> ELSE Do(active, [type |-> "Wheel"])
  /\ UNCHANGED <<active, mode, cursor, place, clients, keys, pending, lastTap,
                 delay, window>>

-----------------------------------------------------------------------------
(* Machines coming and going.  The daemon passes on only what a machine    *)
(* that is attached says, which is the guard clients[c] # "Absent" below.  *)

\* Event::ClientUp.  Its old screens, if it had any, count again at once.
ClientUp(c) ==
  /\ clients' = [clients EXCEPT ![c] = "Ready"]
  /\ out' = Do(c, [type |-> "ReleaseAll"])
  /\ UNCHANGED <<active, mode, cursor, place, keys, pending, lastTap, delay,
                 window>>

MonitorsUnsettled(c, s) ==   \* mutant: the cursor stays where it was
  LET f == [place EXCEPT ![c] = s]
  IN /\ clients[c] # "Absent"
     /\ place' = f
     /\ out' = <<>>
     /\ UNCHANGED <<active, mode, cursor, clients, keys, pending, lastTap,
                    delay, window>>

\* Event::ClientMonitors: c's screens now cover s; the others stay put.
ClientMonitors(c, s) ==
  LET f == [place EXCEPT ![c] = s]
  IN /\ clients[c] # "Absent"
     /\ place' = f
     /\ \E p \in Snaps(f) : Resettle(f, p, pending, lastTap)
     /\ UNCHANGED <<clients, keys, delay, window>>

\* Event::ClientDown.
ClientDown(c) ==
  /\ clients[c] # "Absent"
  /\ clients' = [clients EXCEPT ![c] = "Absent"]
  /\ IF active = c
       THEN RecallCursor
       ELSE /\ pending' = IF pending # None /\ pending.target = c
                            THEN None ELSE pending
            /\ out' = <<>>
            /\ UNCHANGED <<active, mode, cursor, lastTap>>
  /\ UNCHANGED <<place, keys, delay, window>>

SuspendedKeepsCursor(c) ==   \* mutant: the cursor is left with the machine
  /\ clients[c] # "Absent"
  /\ clients' = [clients EXCEPT ![c] = "Suspended"]
  /\ out' = <<>>
  /\ UNCHANGED <<active, mode, cursor, place, keys, pending, lastTap, delay,
                 window>>

\* Event::ClientSuspended.
ClientSuspended(c) ==
  /\ clients[c] # "Absent"
  /\ clients' = [clients EXCEPT ![c] = "Suspended"]
  /\ IF active = c
       THEN RecallCursor
       ELSE /\ pending' = IF pending # None /\ pending.target = c
                            THEN None ELSE pending
            /\ out' = <<>>
            /\ UNCHANGED <<active, mode, cursor, lastTap>>
  /\ UNCHANGED <<place, keys, delay, window>>

\* Event::ClientResumed.
ClientResumed(c) ==
  /\ clients[c] # "Absent"
  /\ clients' = [clients EXCEPT ![c] = "Ready"]
  /\ out' = <<>>
  /\ UNCHANGED <<active, mode, cursor, place, keys, pending, lastTap, delay,
                 window>>

\* The arrangements a configuration may ask for: only screens that have been
\* reported can be moved, and none is given up.
Arrangements ==
  {f \in [Devices -> Screens] :
     \A e \in Devices : (f[e] = {}) <=> (place[e] = {})}

ReconfigureSwapped(f, d, w) ==   \* mutant: one setting is read as the other
  /\ place' = f
  /\ delay' = w
  /\ window' = d
  /\ \E p \in Snaps(f) : Resettle(f, p, None, None)
  /\ UNCHANGED <<clients, keys>>

\* Server::reconfigure: a changed configuration is taken into use.
Reconfigure(f, d, w) ==
  /\ place' = f
  /\ delay' = d
  /\ window' = w
  /\ \E p \in Snaps(f) : Resettle(f, p, None, None)
  /\ UNCHANGED <<clients, keys>>

-----------------------------------------------------------------------------
Next ==
  \/ \E p \in Points : PointerAt(p)
  \/ Motion \/ Tick \/ Elapse \/ Wheel
  \/ \E k \in Keys, down \in BOOLEAN : Key(k, down)
  \/ \E c \in Clients : \/ ClientUp(c) \/ ClientDown(c)
                        \/ ClientSuspended(c) \/ ClientResumed(c)
                        \/ \E s \in Screens : ClientMonitors(c, s)
  \/ \E f \in Arrangements, d \in Delays, w \in Windows : Reconfigure(f, d, w)

\* The daemon ticks every 20 ms and time does not stop.
Fairness == WF_vars(Tick) /\ WF_vars(Elapse)

Spec == Init /\ [][Next]_vars /\ Fairness
-----------------------------------------------------------------------------
(* Properties.                                                             *)

\* Every variable holds what the code's types allow.
TypeOK ==
  /\ active \in Devices
  /\ mode \in {"Local", "Captured"}
  /\ cursor \in Points
  /\ place \in [Devices -> Screens]
  /\ clients \in [Clients -> {"Absent", "Ready", "Suspended"}]
  /\ keys \subseteq Keys
  /\ pending \in Holds \cup {None}
  /\ lastTap \in Taps \cup {None}
  /\ delay \in Delays
  /\ window \in Windows
  /\ out \in Seq(Actions)

\* Local input is swallowed exactly while the cursor is on another machine:
\* the two are set in different functions (cross_to, recall_cursor) and a
\* disagreement takes the person's keyboard away.
ModeFollowsCursor == mode = "Captured" <=> active # Local

\* The cursor is never with a machine that is not connected, whatever order
\* arrivals, departures, reports and movements come in.
HolderIsPresent == active \in Present

\* An edge being held leads to another machine, one that can take the cursor:
\* every event that makes the target unfit also forgets the hold.
HeldEdgeIsOpen == pending # None => pending.target # active /\ Usable(pending.target)

Inv == TypeOK /\ ModeFollowsCursor /\ HolderIsPresent /\ HeldEdgeIsOpen

\* Motion and time alone never take the cursor to a machine that cannot act
\* on input; only a change of arrangement may.
MotionFindsUsable ==
  [][(Tick \/ Motion) /\ active' # active => Usable(active')]_vars

\* The cursor stays on a screen of the machine that has it, through every
\* event, unless an edge is being held for a machine whose screen has since
\* been taken away from under the spot.
CursorStaysUnderHolder ==
  [][/\ cursor \in place[active]
     /\ pending # None => pending.at \in place[pending.target]
     => cursor' \in place'[active']]_vars

\* A machine loses the cursor only by being told: every step that takes it
\* from a client that is still present tells that client to leave, unless
\* the client itself said it cannot take input.
LeavingIsSaid ==
  [][\A c \in Clients :
       active = c /\ active' # c /\ clients'[c] = "Ready"
         => \E i \in 1 .. Len(out') :
              out'[i] = [to |-> c, msg |-> [type |-> "Leave"]]]_vars

\* An edge that is being held does not stay held: with a delay configured the
\* wait ends, in a crossing or by being given up for another edge.
HeldEdgeSettles ==
  \A d \in Devices :
    (pending # None /\ pending.target = d /\ delay > 0)
      ~> (pending = None \/ pending.target # d)

\* Seen from outside, the server does what Focus promises: each handler comes
\* to one step of it or to none.
F == INSTANCE Focus WITH holder    <- active,
                         standing  <- clients,
                         swallowed <- (mode = "Captured")
KeepsFocus == F!Spec

-----------------------------------------------------------------------------
(* What the documentation says and the code does not do.                   *)

\* "When set, an edge must be struck twice within this window to cross."
\* (server.rs:127)  A strike is pressing against an edge that was not being
\* pressed: the second one comes after the cursor has been off the edge, so
\* no movement that merely continues the first may cross.
TwoStrikesToCross ==
  [][/\ window > 0 /\ delay = 0
     /\ place' = place /\ clients' = clients
     /\ active' # active
     => pending = None \/ pending.target # active']_vars
=============================================================================
