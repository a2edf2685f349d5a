----------------------------- MODULE Switching -----------------------------
(***************************************************************************)
(* One server and its clients over real links: the server's daemon         *)
(* (crates/smkvm-cli/src/server.rs) carrying out what Server decides, and  *)
(* the client's daemon (crates/smkvm-cli/src/client.rs) feeding Client.    *)
(*                                                                         *)
(* What the server sends a machine waits in two queues, and the writer     *)
(* takes state changes ahead of positions.  What was written is on the     *)
(* wire until the client reads it.  A link may be cut at any time, a       *)
(* machine may be let go for being too far behind or silent, and it        *)
(* connects again while the server still believes in the old link.         *)
(*                                                                         *)
(* Left out here and covered in the modules instanced: edge delays, the    *)
(* wheel, absolute positions, and a changed configuration.                 *)
(***************************************************************************)
EXTENDS Naturals, Sequences, FiniteSets

CONSTANTS
  Local, Clients, Points, Screens, Keys, None, Corner, Reasons, Endings,
  Home,        \* the screens each machine has
  ControlMax,  \* room for state changes, CONTROL_QUEUE in the code
  MotionMax,   \* room for positions, MOTION_QUEUE in the code
  WireMax,     \* bound: messages written and not yet read
  UpMax        \* bound: messages from a client not yet handled

VARIABLES
  active, mode, cursor, place, clients, keys, pending, lastTap, delay, window,
  out,                                                 \* Server
  session, acting, suspended, refused, held, down, at, owes,
  screen,                                              \* Client
  attached,  \* the machines the daemon has an Outbound for
  control,   \* Outbound::control, for each machine
  motion,    \* Outbound::motion
  wire,      \* written to the machine and not yet read by it
  up,        \* said by the machine and not yet handled by the daemon
  link,      \* "cut", "knocking" (arrived, not yet taken in) or "open"
  todo,      \* departures the daemon still owes the server in this turn
  arriving   \* the machine it takes in at the end of this turn, or None

serverVars == <<active, mode, cursor, place, clients, keys, pending, lastTap,
                delay, window, out>>
clientVars == <<session, acting, suspended, refused, held, down, at, owes,
                screen>>
linkVars   == <<attached, control, motion, wire, up, link, todo, arriving>>
vars       == <<serverVars, clientVars, linkVars>>

S == INSTANCE Server WITH Delays <- {0}, Windows <- {0}, MaxAge <- 1
C == INSTANCE Client

ASSUME DeskAssumption ==
  /\ Local \notin Clients /\ None \notin Clients
  /\ Screens \subseteq SUBSET Points
  /\ Home \in [Clients -> Screens]
ASSUME ParkingAssumption == Corner \notin Points /\ None \notin Points \cup {Corner} \cup Reasons
ASSUME RoomAssumption == {ControlMax, MotionMax, WireMax, UpMax} \subseteq Nat \ {0}

-----------------------------------------------------------------------------
(* Outbound: how an action of the server reaches a machine's queues.       *)

KeysMayBeDropped(m) ==   \* mutant: keys are let go of under load
  m.type \in {"MoveTo", "Wheel", "Key"}

MayBeDropped(m) == m.type \in {"MoveTo", "Wheel"}

Full(c) == Len(control[c]) = ControlMax

\* What the server's last step said to c: it says at most one thing to each.
Told(c) == \E i \in DOMAIN out' : out'[i].to = c
Said(c) == out'[CHOOSE i \in DOMAIN out' : out'[i].to = c].msg

\* Carry out what the server's last step returned.  A full control queue, or a
\* link the writer found closed, lets the machine go: the daemon forgets it
\* now and owes the server its departure.  A full motion queue drops.
Deliver ==
  \E closed \in SUBSET {c \in attached : link[c] # "open"} :
    LET over == {c \in attached : /\ Told(c)
                                  /\ (c \in closed \/ (~MayBeDropped(Said(c)) /\ Full(c)))}
        Kept(c) == c \in attached \ over /\ Told(c) /\ link[c] = "open"
    IN /\ control' = [c \in Clients |->
                        IF Kept(c) /\ ~MayBeDropped(Said(c))
                          THEN Append(control[c], Said(c)) ELSE control[c]]
       /\ motion' = [c \in Clients |->
                       IF Kept(c) /\ MayBeDropped(Said(c)) /\ Len(motion[c]) < MotionMax
                         THEN Append(motion[c], Said(c)) ELSE motion[c]]
       /\ attached' = attached \ over
       /\ todo' = todo \cup over

\* The daemon takes the next thing only when a turn is over.
Idle == todo = {} /\ arriving = None

-----------------------------------------------------------------------------
Init ==
  /\ S!Init /\ C!Init
  /\ \A c \in Clients : at[c] \in Home[c] /\ place[Local] \cap Home[c] = {}
  /\ attached = {}
  /\ control = [c \in Clients |-> <<>>]
  /\ motion = [c \in Clients |-> <<>>]
  /\ wire = [c \in Clients |-> <<>>]
  /\ up = [c \in Clients |-> <<>>]
  /\ link = [c \in Clients |-> "cut"]
  /\ todo = {}
  /\ arriving = None

-----------------------------------------------------------------------------
(* The person.                                                             *)

\* The mouse is moved, and the movement ends at p.
Move(p) ==
  /\ Idle
  /\ \E d \in {Local} \cup Clients : S!PointerBy(d, p)
  /\ Deliver
  /\ UNCHANGED <<clientVars, wire, up, link, arriving>>

\* A key or button is pressed or let go.
Type(k, d) ==
  /\ Idle
  /\ (k \in keys) # d
  /\ S!Key(k, d)
  /\ Deliver
  /\ UNCHANGED <<clientVars, wire, up, link, arriving>>

-----------------------------------------------------------------------------
(* Links.                                                                  *)

\* A client connects, says hello and reports its screens.
Connect(c) ==
  /\ link[c] = "cut"
  /\ C!Begin(c)
  /\ link' = [link EXCEPT ![c] = "knocking"]
  /\ control' = [control EXCEPT ![c] = <<>>]
  /\ motion' = [motion EXCEPT ![c] = <<>>]
  /\ wire' = [wire EXCEPT ![c] = <<>>]
  /\ up' = [up EXCEPT ![c] = <<"Monitors">>]
  /\ UNCHANGED <<serverVars, attached, todo, arriving>>

ArrivedOverOld(c) ==   \* mutant: the old link's departure is not told
  /\ Idle
  /\ link[c] = "knocking"
  /\ arriving' = c
  /\ UNCHANGED <<serverVars, clientVars, attached, control, motion, wire, up,
                 link, todo>>

\* Daemon::arrived.  The same machine still attached is let go first.
Arrived(c) ==
  /\ Idle
  /\ link[c] = "knocking"
  /\ arriving' = c
  /\ attached' = attached \ {c}
  /\ todo' = attached \cap {c}
  /\ UNCHANGED <<serverVars, clientVars, control, motion, wire, up, link>>

\* The end of Daemon::arrived: the machine is attached and told to let go.
TakeIn(c) ==
  /\ todo = {} /\ arriving = c
  /\ S!ClientUp(c)
  /\ arriving' = None
  /\ attached' = attached \cup {c}
  /\ link' = [link EXCEPT ![c] = "open"]
  /\ control' = [control EXCEPT ![c] = <<[type |-> "ReleaseAll"]>>]
  /\ UNCHANGED <<clientVars, motion, wire, up, todo>>

\* A departure owed to the server, handled within the turn that caused it.
Departed(c) ==
  /\ c \in todo
  /\ S!ClientDown(c)
  /\ todo' = todo \ {c}
  /\ UNCHANGED <<clientVars, attached, control, motion, wire, up, link, arriving>>

\* Daemon::gone, when the reader has come to the end of the link, and the
\* heartbeat's detach of a machine that has been silent.
Gone(c) ==
  /\ Idle
  /\ c \in attached
  /\ link[c] = "cut" => up[c] = <<>>
  /\ attached' = attached \ {c}
  /\ S!ClientDown(c)
  /\ up' = IF link[c] = "knocking" THEN up ELSE [up EXCEPT ![c] = <<>>]
  /\ UNCHANGED <<clientVars, control, motion, wire, link, todo, arriving>>

\* client_writer: state changes ahead of positions.  Once the machine has been
\* let go and both queues are drained the link is closed.
Write(c) ==
  /\ link[c] = "open"
  /\ Len(wire[c]) < WireMax
  /\ \/ /\ control[c] # <<>>
        /\ wire' = [wire EXCEPT ![c] = Append(@, Head(control[c]))]
        /\ control' = [control EXCEPT ![c] = Tail(@)]
        /\ UNCHANGED <<motion, link>>
     \/ /\ control[c] = <<>> /\ motion[c] # <<>>
        /\ wire' = [wire EXCEPT ![c] = Append(@, Head(motion[c]))]
        /\ motion' = [motion EXCEPT ![c] = Tail(@)]
        /\ UNCHANGED <<control, link>>
     \/ /\ control[c] = <<>> /\ motion[c] = <<>> /\ c \notin attached
        /\ link' = [link EXCEPT ![c] = "cut"]
        /\ UNCHANGED <<wire, control, motion>>
  /\ UNCHANGED <<serverVars, clientVars, attached, up, todo, arriving>>

\* The network fails: some of what was sent either way never arrives.
Cut(c) ==
  /\ link[c] = "open"
  /\ link' = [link EXCEPT ![c] = "cut"]
  /\ control' = [control EXCEPT ![c] = <<>>]
  /\ motion' = [motion EXCEPT ![c] = <<>>]
  /\ \E n \in 0 .. Len(wire[c]), m \in 0 .. Len(up[c]) :
       /\ wire' = [wire EXCEPT ![c] = SubSeq(@, 1, n)]
       /\ up' = [up EXCEPT ![c] = SubSeq(@, 1, m)]
  /\ UNCHANGED <<serverVars, clientVars, attached, todo, arriving>>

-----------------------------------------------------------------------------
(* The clients.                                                            *)

\* The session takes the next message.  No capture says that a press repeats
\* (capture.rs), so none is passed on as one.
Receive(c) ==
  /\ wire[c] # <<>>
  /\ wire' = [wire EXCEPT ![c] = Tail(@)]
  /\ LET m == Head(wire[c])
     IN CASE m.type = "Enter"      -> C!Enter(c, m.at, m.keys)
          [] m.type = "Leave"      -> C!Leave(c)
          [] m.type = "MoveTo"     -> C!MoveTo(c, m.at)
          [] m.type = "Key"        -> C!KeyEvent(c, m.key, m.down, FALSE)
          [] m.type = "ReleaseAll" -> C!ReleaseAll(c)
  /\ UNCHANGED <<serverVars, attached, control, motion, up, link, todo, arriving>>

\* The session ends: the link failed, or nothing was heard for too long.
Disconnect(c) ==
  /\ link[c] # "knocking"
  /\ wire[c] = <<>>
  /\ C!Disconnected(c)
  /\ link' = [link EXCEPT ![c] = "cut"]
  /\ control' = [control EXCEPT ![c] = <<>>]
  /\ motion' = [motion EXCEPT ![c] = <<>>]
  /\ UNCHANGED <<serverVars, attached, wire, up, todo, arriving>>

\* The client's process is killed or told to stop.
Crash(c) ==
  /\ link[c] # "knocking"
  /\ C!Crash(c) \/ C!Stop(c)
  /\ link' = [link EXCEPT ![c] = "cut"]
  /\ control' = [control EXCEPT ![c] = <<>>]
  /\ motion' = [motion EXCEPT ![c] = <<>>]
  /\ wire' = [wire EXCEPT ![c] = <<>>]
  /\ UNCHANGED <<serverVars, attached, up, todo, arriving>>

\* look_at_blockage, and what it says to the server.
Look(c) ==
  /\ Len(up[c]) < UpMax
  /\ \/ C!Suspend(c) /\ up' = [up EXCEPT ![c] = Append(@, "Suspended")]
     \/ C!Resume(c) /\ up' = [up EXCEPT ![c] = Append(@, "Resumed")]
     \/ C!Shrug(c) /\ UNCHANGED up
  /\ UNCHANGED <<serverVars, attached, control, motion, wire, link, todo, arriving>>

\* A prompt comes up over a client's screen, or goes.
Prompt(c, s) ==
  /\ C!Screen(c, s)
  /\ UNCHANGED <<serverVars, linkVars>>

\* Daemon::heard.
Hear(c) ==
  /\ Idle
  /\ c \in attached /\ link[c] # "knocking"
  /\ up[c] # <<>>
  /\ up' = [up EXCEPT ![c] = Tail(@)]
  /\ CASE Head(up[c]) = "Monitors"  -> S!ClientMonitors(c, Home[c])
       [] Head(up[c]) = "Suspended" -> S!ClientSuspended(c)
       [] Head(up[c]) = "Resumed"   -> S!ClientResumed(c)
  /\ Deliver
  /\ UNCHANGED <<clientVars, wire, link, arriving>>

-----------------------------------------------------------------------------
Next ==
  \/ \E p \in Points : Move(p)
  \/ \E k \in Keys, d \in BOOLEAN : Type(k, d)
  \/ \E c \in Clients :
       \/ Connect(c) \/ Arrived(c) \/ TakeIn(c) \/ Departed(c) \/ Gone(c)
       \/ Write(c) \/ Cut(c)
       \/ Receive(c) \/ Disconnect(c) \/ Crash(c) \/ Look(c) \/ Hear(c)
       \/ \E s \in Reasons \cup {"open"} : Prompt(c, s)

\* The daemons' loops run, the writer writes, and a client looks twice a
\* second at whether its input lands.  Nothing obliges the person to act, the
\* network to fail or a machine to connect.
Fairness ==
  \A c \in Clients :
    /\ WF_vars(Arrived(c)) /\ WF_vars(TakeIn(c)) /\ WF_vars(Departed(c))
    /\ WF_vars(Write(c)) /\ WF_vars(Receive(c)) /\ WF_vars(Look(c))
    /\ WF_vars(Hear(c))
    /\ WF_vars(link[c] = "cut" /\ Gone(c))
    /\ WF_vars(link[c] = "cut" /\ Disconnect(c))

Spec == Init /\ [][Next]_vars /\ Fairness

-----------------------------------------------------------------------------
(* Properties.                                                             *)

\* Every variable holds what the code's types allow.
TypeOK ==
  /\ S!TypeOK /\ C!TypeOK
  /\ attached \subseteq Clients
  /\ \A c \in Clients : /\ Len(control[c]) <= ControlMax
                        /\ Len(motion[c]) <= MotionMax
                        /\ Len(wire[c]) <= WireMax
                        /\ Len(up[c]) <= UpMax
  /\ link \in [Clients -> {"cut", "knocking", "open"}]
  /\ todo \subseteq Clients
  /\ arriving \in Clients \cup {None}

\* A machine is settled when nothing is on its way to or from it and both
\* ends agree on whether there is a link.
Settled(c) ==
  /\ Idle
  /\ control[c] = <<>> /\ motion[c] = <<>> /\ wire[c] = <<>> /\ up[c] = <<>>
  /\ ~refused[c]
  /\ IF session[c] THEN link[c] = "open" /\ c \in attached
                   ELSE link[c] = "cut" /\ c \notin attached

\* Once a machine has been told everything, what is down on it is what the
\* person holds if the cursor is there, and nothing if it is not.
NothingSticks ==
  \A c \in Clients :
    Settled(c) => down[c] = IF active = c THEN keys ELSE {}

\* Once a machine has been told everything, it believes it has the cursor
\* exactly if the server believes so: no Enter and no Leave is ever lost.
BothEndsAgree == \A c \in Clients : Settled(c) => (acting[c] <=> active = c)

\* A machine without a session has its own pointer back out of the corner,
\* however the session ended and whatever was queued for it.
PointerIsGivenBack ==
  \A c \in Clients : ~session[c] => at[c] # Corner

\* The server's map of machines and the daemon's agree between turns.
MapsAgree ==
  Idle => \A c \in Clients : clients[c] # "Absent" <=> c \in attached

\* Both ends of every link agree on who has the cursor once everything has been
\* said, and the server knows of exactly the machines that the daemon has a link
\* to, however links ended and whatever was being carried out when they did
\* (Daemon::arrived, gone and detach in cli/server.rs).
EveryoneAgrees == BothEndsAgree /\ MapsAgree

\* A cursor on a machine where input has stopped landing comes home, unless
\* the screen opens again first.
CursorComesHome ==
  \A c \in Clients :
    (active = c /\ screen[c] # "open") ~> (active # c \/ screen[c] = "open")

\* A machine that keeps the cursor comes to know that it has it.
HolderComesToAct ==
  \A c \in Clients : <>[](active = c) => <>[](acting[c])

-----------------------------------------------------------------------------
(* What the documentation says and the code does not do.                   *)

\* "Nothing sticks.  Every key and button held is tracked, and let go of the
\* moment a machine stops being in charge -- on crossing, on a dropped link, on
\* a UAC prompt taking the screen." (README.md)  What a machine both has down
\* and knows it has down is let go of once it is not in charge.
LetGoWhenNotInCharge ==
  \A c \in Clients : Settled(c) /\ active # c => held[c] \cap down[c] = {}
=============================================================================
