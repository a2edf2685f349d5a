------------------------------- MODULE Capture -------------------------------
(***************************************************************************)
(* The machine with the keyboard: the hooks that watch it                  *)
(* (crates/smkvm-input/src/platform/windows/capture.rs), the way what they *)
(* saw takes to the daemon, straight or through a worker                   *)
(* (crates/smkvm-cli/src/platform.rs, secure/windows/worker.rs, link.rs),  *)
(* and the order to swallow that comes back when the cursor crosses.       *)
(* The hooks run on a thread of their own, and the daemon decides later    *)
(* about what they have long let through or swallowed.                     *)
(*                                                                         *)
(* One key, or the left button, is followed: at the hand, in the programs  *)
(* of this machine, in the server's record, and on the other machine.      *)
(* Every move of the pointer here is one that crosses.  The link to the    *)
(* other machine is the matter of module Switching.                        *)
(***************************************************************************)
EXTENDS Naturals, Sequences

CONSTANTS
  Room,      \* the daemon's queue of events
  MaxMoves,  \* bound: what the hand does
  MaxTrouble \* bound: changes of desktop, workers replaced

VARIABLES
  through,  \* CaptureHandle::ThroughWorker, and not Here
  hand,     \* whether the person holds the key down
  app,      \* whether the programs of this machine believe it
  swallow,  \* SWALLOW
  blind,    \* the input is on a desktop these hooks do not see
  seen,     \* what the hooks emitted and the pump has not passed on
  events,   \* the daemon's queue
  orders,   \* ToWorker::Swallow, on its way
  told,     \* the last one the link was asked for
  held,     \* Server::keys, Server::buttons
  away,     \* Server::active is the other machine
  wire,     \* on its way to that machine
  remote,   \* what it holds down
  running,  \* the daemon has not been stopped
  missed,   \* the last thing the hand did to the key was lost on the way
  moves, trouble

machine == <<hand, app, swallow, blind>>
way     == <<seen, events, orders, told>>
server  == <<held, away, wire>>
bounds  == <<moves, trouble>>
vars    == <<through, machine, way, server, remote, running, missed, bounds>>

Init ==
  /\ through \in BOOLEAN
  /\ hand = FALSE /\ app = FALSE /\ swallow = FALSE /\ blind = FALSE
  /\ seen = <<>> /\ events = <<>> /\ orders = <<>> /\ told = FALSE
  /\ held = FALSE /\ away = FALSE /\ wire = <<>> /\ remote = FALSE
  /\ running = TRUE /\ missed = FALSE
  /\ moves = 0 /\ trouble = 0

Heard(queue) == \E i \in DOMAIN queue : queue[i] # "move"

-----------------------------------------------------------------------------
(* The hooks: keyboard_hook, mouse_hook.                                   *)

OursTakenForTheHands(injected) == FALSE   \* mutant: is_ours is not asked

\* is_ours: the mark WindowsInput leaves on everything it injects.
IsOurs(injected) == injected

\* What a hook does about a key that goes down or up: it is emitted before it
\* is swallowed, and what is ours is neither.
Hook(down, injected) ==
  IF IsOurs(injected)
    THEN app' = down /\ UNCHANGED seen
    ELSE /\ app' = IF swallow THEN app ELSE down
         /\ seen' = Append(seen, IF down THEN "down" ELSE "up")

\* The person presses or lets go.
Press ==
  /\ moves < MaxMoves /\ moves' = moves + 1
  /\ hand' = ~hand
  /\ IF blind \/ ~running
       THEN /\ app' \in {app, hand'}   \* the programs of whichever desktop it is
            /\ missed' = TRUE
            /\ UNCHANGED seen
       ELSE /\ Hook(hand', FALSE)
            /\ missed' = FALSE
  /\ UNCHANGED <<through, swallow, blind, events, orders, told, server, remote,
                 running, trouble>>

\* The pointer reaches the edge, or is pushed back over it: a position while it
\* is at home, a distance from raw input while it is away.
Move ==
  /\ running /\ ~blind
  /\ moves < MaxMoves /\ moves' = moves + 1
  /\ seen' = Append(seen, "move")
  /\ UNCHANGED <<through, machine, events, orders, told, server, remote,
                 running, missed, trouble>>

-----------------------------------------------------------------------------
(* The way to the daemon and back.                                         *)

\* start_capture: the pump waits for room.  Through a worker nobody waits:
\* Link::heard tries, and lets fall what there is no room for.
Pump ==
  /\ seen # <<>> /\ running
  /\ IF Len(events) < Room
       THEN events' = Append(events, Head(seen)) /\ UNCHANGED missed
       ELSE /\ through
            /\ missed' = (missed \/ (Head(seen) # "move" /\ ~Heard(Tail(seen))))
            /\ UNCHANGED events
  /\ seen' = Tail(seen)
  /\ UNCHANGED <<through, machine, orders, told, server, remote, running, bounds>>

\* CaptureHandle::set_swallow.
SetSwallow(on) ==
  IF through
    THEN /\ told' = on /\ UNCHANGED swallow
         /\ orders' = IF blind THEN orders ELSE Append(orders, on)
    ELSE swallow' = on /\ told' = on /\ UNCHANGED orders

\* The worker's turn: ToWorker::Swallow.
Obey ==
  /\ orders # <<>> /\ orders' = Tail(orders)
  /\ swallow' = Head(orders)
  /\ UNCHANGED <<through, hand, app, blind, seen, events, told, server, remote,
                 running, missed, bounds>>

-----------------------------------------------------------------------------
(* The daemon.                                                             *)

Said(what) == wire' = IF away THEN Append(wire, what) ELSE wire

\* Server::key, Server::button.
Key ==
  /\ events # <<>> /\ Head(events) # "move" /\ running
  /\ events' = Tail(events)
  /\ held' = (Head(events) = "down")
  /\ Said(Head(events))
  /\ UNCHANGED <<through, machine, seen, orders, told, away, remote, running,
                 missed, bounds>>

\* cross_to, outwards: the hooks swallow from now on, a drag that hangs on the
\* held button is caught, which lets go of the button here by injecting it, and
\* the machine is told what is held.
CrossOut ==
  /\ events # <<>> /\ Head(events) = "move" /\ ~away /\ running
  /\ events' = Tail(events)
  /\ away' = TRUE
  /\ SetSwallow(TRUE)
  /\ \/ held /\ ~blind /\ Hook(FALSE, TRUE)
     \/ UNCHANGED <<app, seen>>
  /\ wire' = Append(wire, IF held THEN "enterHolding" ELSE "enter")
  /\ UNCHANGED <<through, hand, blind, held, remote, running, missed, bounds>>

\* cross_to, home again: LocalAction::ReleaseAll does nothing, and is not asked for.
CrossHome ==
  /\ events # <<>> /\ Head(events) = "move" /\ away /\ running
  /\ events' = Tail(events)
  /\ Said("leave")
  /\ away' = FALSE
  /\ SetSwallow(FALSE)
  /\ UNCHANGED <<through, hand, app, blind, seen, held, remote, running, missed,
                 bounds>>

\* The other machine: Client::handle.
Arrive ==
  /\ wire # <<>> /\ wire' = Tail(wire)
  /\ remote' = (Head(wire) \in {"down", "enterHolding"})
  /\ UNCHANGED <<through, machine, way, held, away, running, missed, bounds>>

\* The daemon stops: its capture is dropped and gives the input back, a worker
\* lets go of everything on its way out, and the machines are told goodbye.
Stop ==
  /\ running /\ running' = FALSE
  /\ swallow' = FALSE /\ orders' = <<>> /\ told' = FALSE
  /\ seen' = <<>> /\ events' = <<>>
  /\ app' = IF through /\ ~blind THEN FALSE ELSE app
  /\ Said("goodbye")
  /\ UNCHANGED <<through, hand, blind, held, away, remote, missed, bounds>>

-----------------------------------------------------------------------------
(* Desktops.                                                               *)

\* A prompt takes the screen, or gives it back: hooks of this process see
\* nothing of what is typed there.
InputMoves ==
  /\ ~through /\ running
  /\ trouble < MaxTrouble \/ blind
  /\ trouble' = IF blind THEN trouble ELSE trouble + 1
  /\ blind' = ~blind
  /\ UNCHANGED <<through, hand, app, swallow, way, server, remote, running,
                 missed, moves>>

\* The worker that watched is replaced.  It lets go of everything on its way
\* out, and what it had not passed on is lost with it.
WorkerEnds ==
  /\ through /\ running /\ ~blind
  /\ trouble < MaxTrouble /\ trouble' = trouble + 1
  /\ blind' = TRUE /\ swallow' = FALSE
  /\ app' = FALSE
  /\ missed' = (missed \/ Heard(seen))
  /\ seen' = <<>> /\ orders' = <<>>
  /\ UNCHANGED <<through, hand, events, told, server, remote, running, moves>>

\* Link::attach tells the next one whether to swallow.
WorkerAttaches ==
  /\ through /\ running /\ blind
  /\ blind' = FALSE
  /\ orders' = <<told>>
  /\ UNCHANGED <<through, hand, app, swallow, seen, events, told, server, remote,
                 running, missed, bounds>>

Next ==
  \/ Press \/ Move \/ Pump \/ Obey
  \/ Key \/ CrossOut \/ CrossHome \/ Arrive \/ Stop
  \/ InputMoves \/ WorkerEnds \/ WorkerAttaches

Spec == Init /\ [][Next]_vars

-----------------------------------------------------------------------------
Settled == seen = <<>> /\ events = <<>> /\ orders = <<>> /\ wire = <<>>

\* Once everything the hooks saw has been acted on, the machine the cursor is
\* on holds the key exactly when the hand does, and the machine that was left
\* does not, whatever was injected meanwhile to end a drag.  Only what was lost
\* on the way, typed at a prompt or dropped by a full queue, may still be
\* missing, and the next press that is seen makes up for it.
FollowsTheHand ==
  Settled => (remote => away /\ running) /\ (away /\ running /\ ~missed => remote = hand)

-----------------------------------------------------------------------------
(* What the documentation says and the code does not do.                   *)

\* README.md:24: "Nothing sticks.  Every key and button held is tracked, and let
\* go of the moment a machine stops being in charge -- on crossing, ...".  The
\* machine with the keyboard stops being in charge too.
NothingSticksAtHome == Settled /\ ~missed /\ running => (app => hand)
=============================================================================
