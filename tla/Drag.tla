---------------------------------- MODULE Drag ----------------------------------
(***************************************************************************)
(* Files dragged from one machine to another: what happens when the cursor *)
(* leaves a machine with the button held (pick_up_drag, dragging,          *)
(* send_bulk, settle_drops of crates/smkvm-cli/src/server.rs and           *)
(* client.rs), what is told to whom (drag_started, drop_here of            *)
(* clipboard.rs), and the catchers that take the drag from under the       *)
(* pointer (smkvm-clipboard: platform/x11.rs, platform/windows_drag.rs).   *)
(*                                                                         *)
(* A client whose link is lost does not come back, the clipboard is used   *)
(* for nothing else, and fetching what was dragged is one step: see        *)
(* Switching, Clipboard and Files.                                         *)
(***************************************************************************)
EXTENDS Naturals, Sequences, FiniteSets

CONSTANTS
  Hub, Clients,
  Room,       \* CONTROL_QUEUE
  MaxDrags,   \* bound: drags begun
  MaxHolds,   \* bound: times the button is pressed
  MaxCross,   \* bound: crossings
  MaxTrouble  \* bound: catches that fail and links that are lost

VARIABLES
  hub,      \* the server: [active, attached, swallow, hidden, out, downs]
  share,    \* of each machine: [offer, pending, pulling], each a drag or 0
  client,   \* of each client: [acting, down], whether it is in charge and what
            \* its injector has pressed
  up,       \* what each client has said and the server has not heard
  closed,   \* the links that are lost and not found to be
  carries,  \* what is being dragged on each machine, under its pointer
  left,     \* whether the person holds the button
  crossings, trouble,
  \* what happened, for the properties:
  hold,     \* how often the button was pressed
  holdOf,   \* at which of these each drag was begun
  origin,   \* where each drag was last picked up
  dropped,  \* drags let go of over something
  landed,   \* drags whose files have arrived somewhere
  missed,   \* drags a catch failed on, or begun or overtaken while another was on its way
  spoiled   \* a link was lost in the middle of picking up a drag

happened == <<holdOf, origin, dropped, landed, missed, spoiled>>
vars == <<hub, share, client, up, closed, carries, left, crossings, trouble, hold, happened>>

Drags == 1..MaxDrags
Machines == Clients \cup {Hub}
Begun == {d \in Drags : holdOf[d] # 0}

Msg(kind, d, b) == [kind |-> kind, drag |-> d, left |-> b]
Enter(b) == Msg("Enter", 0, b)
Leave == Msg("Leave", 0, FALSE)
Button(b) == Msg("Button", 0, b)
Offered(d) == Msg("Offer", d, FALSE)
Carried(d) == Msg("Dragging", d, FALSE)

Init ==
  /\ hub = [active |-> Hub, attached |-> Clients, swallow |-> FALSE, hidden |-> FALSE,
            out |-> [c \in Clients |-> <<>>], downs |-> {}]
  /\ share = [m \in Machines |-> [offer |-> 0, pending |-> 0, pulling |-> 0]]
  /\ client = [c \in Clients |-> [acting |-> FALSE, down |-> FALSE]]
  /\ up = [c \in Clients |-> <<>>]
  /\ closed = {} /\ left = FALSE
  /\ carries = [m \in Machines |-> 0]
  /\ crossings = 0 /\ trouble = 0 /\ hold = 0
  /\ holdOf = [d \in Drags |-> 0] /\ origin = [d \in Drags |-> Hub]
  /\ dropped = {} /\ landed = {} /\ missed = {} /\ spoiled = FALSE

Trouble == trouble < MaxTrouble /\ trouble' = trouble + 1

-----------------------------------------------------------------------------
(* The server daemon, as what becomes of its part of the state.  Its one   *)
(* thread acts on an event to the end before it takes the next.            *)

\* send, to each of a set of machines: one that has no room is detached, and its
\* departure is for handle to deal with.
Tell(h, to, msg) ==
  LET told  == {c \in to \cap h.attached : c \notin closed /\ Len(h.out[c]) < Room}
      lost  == (to \cap h.attached) \ told
  IN [h EXCEPT !.attached = @ \ lost, !.downs = @ \cup lost,
               !.out = [c \in Clients |-> CASE c \in told -> Append(@[c], msg)
                                            [] c \in lost -> <<>>
                                            [] OTHER -> @[c]]]

\* recall_cursor and what act makes of it.
RecallCursor(h) == [h EXCEPT !.active = Hub, !.swallow = FALSE, !.hidden = FALSE]

\* handle, of the departures queued.
Departures(h) ==
  [(IF h.active \in h.downs THEN RecallCursor(h) ELSE h) EXCEPT !.downs = {}]

SendBulk(h, to, msg) == Departures(Tell(h, to, msg))

\* dragging, when the cursor is on another machine than this.
PassOn(h, c, d) == SendBulk(h, {h.active}, Carried(d))

-----------------------------------------------------------------------------
(* Sharing.                                                                *)

\* drop_here, with begin_pull: not before the offer is held here, and not while
\* other files still arrive.
DropHere(m, s, d) ==
  IF s[m].offer # d \/ origin[d] = m THEN [s EXCEPT ![m].pending = d]
  ELSE [s EXCEPT ![m].pending = 0, ![m].pulling = IF @ = 0 THEN d ELSE @]

\* peer_said, of an offer; a drop that waited for it begins.
TakeOffer(m, s, d) ==
  IF s[m].pending = d THEN DropHere(m, [s EXCEPT ![m].offer = d], d)
  ELSE [s EXCEPT ![m].offer = d]

-----------------------------------------------------------------------------
(* The person.                                                             *)

There(m) == IF m = Hub THEN hub.active = Hub ELSE hub.active = m /\ client[m].acting

\* What machines are still told of, wait for or fetch.
Said(d) ==
  \E c \in Clients : \E q \in {up[c], hub.out[c]} : \E i \in DOMAIN q : q[i].drag = d

UnderWay ==
  {d \in Begun : Said(d) \/ \E m \in Machines : d \in {share[m].pending, share[m].pulling}}

Letting(m) == IF carries[m] = 0 THEN {} ELSE {carries[m]}

PressLeft ==
  /\ ~left /\ hold < MaxHolds
  /\ left' = TRUE /\ hold' = hold + 1
  /\ hub' = Departures(Tell(hub, {hub.active} \ {Hub}, Button(TRUE)))
  /\ UNCHANGED <<share, client, up, closed, carries, crossings, trouble, happened>>

LetGoLeft ==
  /\ left /\ left' = FALSE
  /\ hub' = Departures(Tell(hub, {hub.active} \ {Hub}, Button(FALSE)))
  /\ IF hub.active = Hub
       THEN dropped' = dropped \cup Letting(Hub) /\ carries' = [carries EXCEPT ![Hub] = 0]
       ELSE UNCHANGED <<dropped, carries>>
  /\ UNCHANGED <<share, client, up, closed, crossings, trouble, hold,
                 holdOf, origin, landed, missed, spoiled>>

\* Files are picked up under the pointer, with the press this machine saw last.
BeginDrag(m) ==
  /\ left /\ There(m)
  /\ m # Hub => client[m].down /\ \A i \in DOMAIN hub.out[m] : hub.out[m][i].kind # "Button"
  /\ \A n \in Machines : carries[n] = 0
  /\ \E d \in Drags :
       /\ holdOf[d] = 0 /\ \A e \in Drags : e < d => holdOf[e] # 0
       /\ \A e \in Drags : holdOf[e] # hold
       /\ carries' = [carries EXCEPT ![m] = d]
       /\ holdOf' = [holdOf EXCEPT ![d] = hold]
       /\ missed' = missed \cup UnderWay \cup (IF UnderWay = {} THEN {} ELSE {d})
  /\ UNCHANGED <<hub, share, client, up, closed, left, crossings, trouble, hold,
                 origin, dropped, landed, spoiled>>

-----------------------------------------------------------------------------
(* Crossing.                                                               *)

\* What comes of looking for a drag under the pointer.  The drag that is there may
\* not notice in time, or carry no files or, its button released, never be dropped;
\* on Windows its files are taken even if it is dropped too late, somewhere else.
CatchXdnd == {"caught", "unnoticed", "released"}
CatchOle  == {"caught", "unnoticed", "released", "late"}

Catches(held, d) == IF held /\ d # 0 THEN CatchXdnd \cup CatchOle ELSE {"nothing"}

Costs(r, d) ==
  IF r \in {"nothing", "caught"} THEN UNCHANGED <<trouble, missed>>
  ELSE Trouble /\ missed' = missed \cup {d}

\* The cursor leaves home, with what pick_up_drag does in the middle of it.
CrossOut(c) ==
  /\ hub.active = Hub /\ c \in hub.attached
  /\ crossings < MaxCross /\ crossings' = crossings + 1
  /\ LET h == [hub EXCEPT !.active = c, !.swallow = TRUE]
         d == carries[Hub]
         Goes(h1) == hub' = Departures(Tell([h1 EXCEPT !.hidden = TRUE], {c}, Enter(left)))
     IN \E r \in Catches(left, d) :
          /\ Costs(r, d)
          /\ carries' = IF r \in {"nothing", "unnoticed"} THEN carries
                        ELSE [carries EXCEPT ![Hub] = 0]
          /\ dropped' = IF r = "late" THEN dropped \cup {d} ELSE dropped
          /\ IF r \in {"caught", "late"}
               THEN /\ \E h1 \in {SendBulk(h, Clients, Offered(d))} :
                         /\ share' = [share EXCEPT ![Hub].offer = d,
                               ![Hub].pending = IF h1.active = Hub THEN d ELSE @]
                         /\ \E h2 \in {IF h1.active = Hub THEN h1 ELSE PassOn(h1, Hub, d)} :
                              Goes(h2) /\ spoiled' = (spoiled \/ h2.active # c)
                    /\ origin' = [origin EXCEPT ![d] = Hub]
               ELSE Goes(h) /\ UNCHANGED <<share, origin, spoiled>>
  /\ UNCHANGED <<client, up, closed, left, hold, holdOf, landed>>

CrossHome ==
  /\ hub.active # Hub
  /\ crossings < MaxCross /\ crossings' = crossings + 1
  /\ hub' = Departures(Tell(RecallCursor(hub), {hub.active}, Leave))
  /\ UNCHANGED <<share, client, up, closed, carries, left, trouble, hold, happened>>

CrossOver(c) ==
  /\ hub.active # Hub /\ c \in hub.attached \ {hub.active}
  /\ crossings < MaxCross /\ crossings' = crossings + 1
  /\ hub' = Departures(Tell(Tell([hub EXCEPT !.active = c], {hub.active}, Leave),
                            {c}, Enter(left)))
  /\ UNCHANGED <<share, client, up, closed, carries, left, trouble, hold, happened>>

-----------------------------------------------------------------------------
(* A client hears the server.                                              *)

Heard(c) == hub' = [hub EXCEPT !.out[c] = Tail(@)]

HearEnter(c) ==
  LET msg == Head(hub.out[c]) IN
  /\ msg.kind = "Enter"
  /\ client' = [client EXCEPT ![c] = [acting |-> TRUE, down |-> msg.left]]
  /\ Heard(c)
  /\ UNCHANGED <<share, up, closed, carries, left, crossings, trouble, hold, happened>>

HearButton(c) ==
  LET msg == Head(hub.out[c]) IN
  /\ msg.kind = "Button"
  /\ client' = [client EXCEPT ![c].down = msg.left]
  /\ IF msg.left THEN UNCHANGED <<dropped, carries>>
     ELSE dropped' = dropped \cup Letting(c) /\ carries' = [carries EXCEPT ![c] = 0]
  /\ Heard(c)
  /\ UNCHANGED <<share, up, closed, left, crossings, trouble, hold,
                 holdOf, origin, landed, missed, spoiled>>

LeaveLooksAfter(c) ==   \* mutant: the leave is acted on before the drag is looked for
  /\ Head(hub.out[c]).kind = "Leave"
  /\ Heard(c)
  /\ client' = [client EXCEPT ![c] = [acting |-> FALSE, down |-> FALSE]]
  /\ dropped' = dropped \cup Letting(c) /\ carries' = [carries EXCEPT ![c] = 0]
  /\ UNCHANGED <<share, up, closed, left, crossings, trouble, hold, holdOf, origin,
                 landed, missed, spoiled>>

\* pick_up_drag, and then what Client::handle makes of Leave: whatever is still
\* held is let go of.
HearLeave(c) ==
  /\ Head(hub.out[c]).kind = "Leave"
  /\ Heard(c)
  /\ client' = [client EXCEPT ![c] = [acting |-> FALSE, down |-> FALSE]]
  /\ \E r \in Catches(client[c].down, carries[c]) :
       LET d == carries[c] IN
       /\ carries' = [carries EXCEPT ![c] = 0]
       /\ Costs(r, d)
       /\ dropped' = IF r = "caught" THEN dropped ELSE dropped \cup Letting(c)
       /\ IF r \in {"caught", "late"}
            THEN /\ share' = [share EXCEPT ![c].offer = d]
                 /\ up' = [up EXCEPT ![c] = @ \o <<Offered(d), Carried(d)>>]
                 /\ origin' = [origin EXCEPT ![d] = c]
            ELSE UNCHANGED <<share, up, origin>>
  /\ UNCHANGED <<closed, left, crossings, hold, holdOf, landed, spoiled>>

HearBulk(c) ==
  LET msg == Head(hub.out[c]) IN
  /\ \/ msg.kind = "Offer" /\ share' = TakeOffer(c, share, msg.drag)
     \/ msg.kind = "Dragging" /\ share' = DropHere(c, share, msg.drag)
  /\ Heard(c)
  /\ UNCHANGED <<client, up, closed, carries, left, crossings, trouble, hold, happened>>

-----------------------------------------------------------------------------
(* The server hears a client.                                              *)

HubTakesOffer(c) ==
  LET d == Head(up[c]).drag IN
  /\ Head(up[c]).kind = "Offer"
  /\ share' = TakeOffer(Hub, share, d)
  /\ hub' = SendBulk(hub, Clients \ {c}, Offered(d))
  /\ up' = [up EXCEPT ![c] = Tail(@)]
  /\ UNCHANGED <<client, closed, carries, left, crossings, trouble, hold, happened>>

HubHearsDragging(c) ==
  LET d == Head(up[c]).drag IN
  /\ Head(up[c]).kind = "Dragging"
  /\ up' = [up EXCEPT ![c] = Tail(@)]
  /\ IF hub.active = Hub
       THEN share' = DropHere(Hub, share, d) /\ UNCHANGED hub
       ELSE hub' = PassOn(hub, c, d) /\ UNCHANGED share
  /\ UNCHANGED <<client, closed, carries, left, crossings, trouble, hold, happened>>

-----------------------------------------------------------------------------
(* Files arrive.                                                           *)

\* still_dragging, as the machine sees it.
Dragging(m) ==
  IF m = Hub THEN hub.active = Hub /\ left ELSE client[m].acting /\ client[m].down

\* native_drop: a drag of the files that landed, where the platform can and one can
\* be begun.
NativeDrop(m, d) ==
  IF Dragging(m) /\ carries[m] = 0 THEN {carries, [carries EXCEPT ![m] = d]} ELSE {carries}

\* landed and settle_drops: the files go on the clipboard and under the pointer.
Land(m) ==
  LET d == share[m].pulling IN
  /\ d # 0 /\ (m \in Clients => m \in hub.attached)
  /\ origin[d] \in hub.attached \cup {Hub}
  /\ share' = [share EXCEPT ![m].pulling = 0]
  /\ landed' = landed \cup {d}
  /\ carries' \in NativeDrop(m, d)
  /\ UNCHANGED <<hub, client, up, closed, left, crossings, trouble, hold,
                 holdOf, origin, dropped, missed, spoiled>>

\* What it was fetched from is gone, or offers something else.
PullFails(m) ==
  LET d == share[m].pulling IN
  /\ d # 0
  /\ \/ share[origin[d]].offer # d \/ share[m].offer # d
     \/ \E n \in {m, origin[d]} \ {Hub} : n \notin hub.attached
  /\ share' = [share EXCEPT ![m].pulling = 0]
  /\ UNCHANGED <<hub, client, up, closed, carries, left, crossings, trouble, hold, happened>>

-----------------------------------------------------------------------------
(* Links.                                                                  *)

\* What was on its way is lost, and the client lets go of everything.
Cut(c) ==
  /\ Trouble /\ c \in hub.attached \ closed
  /\ closed' = closed \cup {c}
  /\ client' = [client EXCEPT ![c] = [acting |-> FALSE, down |-> FALSE]]
  /\ up' = [up EXCEPT ![c] = <<>>]
  /\ hub' = [hub EXCEPT !.out[c] = <<>>]
  /\ dropped' = dropped \cup Letting(c) /\ carries' = [carries EXCEPT ![c] = 0]
  /\ UNCHANGED <<share, left, crossings, hold, holdOf, origin, landed, missed, spoiled>>

\* gone: the reader found the link closed.
Gone(c) ==
  /\ c \in closed /\ c \in hub.attached
  /\ hub' = Departures([hub EXCEPT !.attached = @ \ {c}, !.downs = {c}, !.out[c] = <<>>])
  /\ UNCHANGED <<share, client, up, closed, carries, left, crossings, trouble, hold, happened>>

\* A client that was detached for being too slow notices.
Detached(c) ==
  /\ c \notin hub.attached /\ c \notin closed
  /\ closed' = closed \cup {c}
  /\ client' = [client EXCEPT ![c] = [acting |-> FALSE, down |-> FALSE]]
  /\ up' = [up EXCEPT ![c] = <<>>]
  /\ dropped' = dropped \cup Letting(c) /\ carries' = [carries EXCEPT ![c] = 0]
  /\ UNCHANGED <<hub, share, left, crossings, trouble, hold, holdOf, origin, landed, missed,
                 spoiled>>

ClientHears(c) ==
  /\ c \in hub.attached \ closed /\ hub.out[c] # <<>>
  /\ HearEnter(c) \/ HearButton(c) \/ HearLeave(c) \/ HearBulk(c)

HubHears(c) ==
  /\ c \in hub.attached /\ up[c] # <<>>
  /\ HubTakesOffer(c) \/ HubHearsDragging(c)

Next ==
  \/ PressLeft \/ LetGoLeft \/ CrossHome
  \/ \E m \in Machines : BeginDrag(m) \/ Land(m) \/ PullFails(m)
  \/ \E c \in Clients : CrossOut(c) \/ CrossOver(c) \/ Cut(c) \/ Gone(c) \/ Detached(c)
  \/ \E c \in Clients : ClientHears(c) \/ HubHears(c)

Spec == Init /\ [][Next]_vars

-----------------------------------------------------------------------------
\* What is dragged stays under the person's hand: as long as the button is held
\* the files are dropped nowhere, whichever machines the cursor goes through,
\* and once everything has been said they are under a pointer or have landed;
\* as long as no catch failed, no link was lost and no two drags were on
\* their way at once, and the cursor was not back where it had picked them up by
\* the time the notice of it came through: that machine then waits for an offer it
\* made itself.
CarriedUntilLetGo ==
  hub.attached = Clients /\ closed = {} =>
  \A d \in Begun \ missed :
    /\ d \in dropped => ~(left /\ holdOf[d] = hold)
    /\ (/\ \A c \in Clients : hub.out[c] = <<>> /\ up[c] = <<>>
        /\ \A m \in Machines : share[m].pulling = 0)
       => \/ d \in dropped \cup landed \/ \E m \in Machines : carries[m] = d
          \/ share[origin[d]].pending = d

\* The local pointer is hidden, and local input swallowed, exactly while the cursor
\* is away, whatever becomes of the links meanwhile; except that a link lost in the
\* middle of picking up a drag hides the pointer after the cursor was recalled.
HiddenWhileAway ==
  /\ hub.swallow = (hub.active # Hub)
  /\ hub.hidden = (hub.active # Hub) \/ spoiled
=============================================================================
