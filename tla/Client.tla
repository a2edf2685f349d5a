------------------------------- MODULE Client -------------------------------
(***************************************************************************)
(* The machines that receive the cursor: crates/smkvm-core/src/client.rs   *)
(* over the Tracked injector of crates/smkvm-input/src/lib.rs, with the    *)
(* part of the client daemon that notices when input stops reaching the    *)
(* screen.  One action per arm of Client::handle, for one machine c.       *)
(*                                                                         *)
(* The record of what is pressed (held) is kept apart from what the        *)
(* machine's system believes is down because of us (down): an injection    *)
(* may be refused, and on the secure desktop it is accepted and goes       *)
(* nowhere.                                                                *)
(***************************************************************************)
EXTENDS Naturals

CONSTANTS
  Clients,  \* the machines
  Points,   \* places a pointer may be put
  Corner,   \* where a pointer that is out of the way is parked
  Keys,     \* keys and mouse buttons
  None,     \* stands for Option::None
  Reasons,  \* what may keep input from the screen
  Endings   \* how a process may end in the middle of a session

\* As SuspendReason names them: a window of higher privilege refuses injected
\* input, and the secure desktop swallows it.
ASSUME ReasonAssumption == Reasons \subseteq {"Elevated", "SecureDesktop"}
ASSUME EndingAssumption == Endings \subseteq {"killed", "stopped"}
ASSUME CornerAssumption == Corner \notin Points
ASSUME NonePointAssumption == None \notin Points \cup {Corner} \cup Reasons

VARIABLES
  session,    \* whether there is a session, hence a Client
  acting,     \* Client::active, for each machine
  suspended,  \* Client::suspended: a reason or None
  refused,    \* whether Client::refused holds an error nobody has asked about
  held,       \* the record Tracked keeps
  down,       \* what the system has down on our account
  at,         \* where the machine's pointer is
  owes,       \* Parked: the position to go back to, or None
  screen      \* "open", or what input is being kept by

vars == <<session, acting, suspended, refused, held, down, at, owes, screen>>

Lands(c)   == screen[c] = "open"       \* an injection takes effect
Refuses(c) == screen[c] = "Elevated"   \* an injection returns an error

-----------------------------------------------------------------------------
(* The injector.                                                           *)

SyncBelieves(c, wanted) ==   \* mutant: recorded before the platform has answered
  /\ held' = [held EXCEPT ![c] = wanted]
  /\ down' = IF Lands(c) THEN [down EXCEPT ![c] = wanted] ELSE down

\* Tracked::sync: releases then presses, each recorded if it was accepted.
Sync(c, wanted) ==
  /\ held' = IF Refuses(c) THEN held ELSE [held EXCEPT ![c] = wanted]
  /\ down' = IF Lands(c)
               THEN [down EXCEPT ![c] = (@ \ (held[c] \ wanted))
                                        \cup (wanted \ held[c])]
               ELSE down

\* Tracked::release_all: the record is cleared whatever the platform answered.
ReleaseHeld(c) ==
  /\ held' = [held EXCEPT ![c] = {}]
  /\ down' = IF Lands(c) THEN [down EXCEPT ![c] = @ \ held[c]] ELSE down

\* Tracked::key and Tracked::button.
Press(c, k, d) ==
  /\ held' = IF Refuses(c) THEN held
             ELSE [held EXCEPT ![c] = IF d THEN @ \cup {k} ELSE @ \ {k}]
  /\ down' = IF ~Lands(c) THEN down
             ELSE [down EXCEPT ![c] = IF d THEN @ \cup {k} ELSE @ \ {k}]

\* Inject::key with nothing recorded, which is how a repeat is typed.
Repress(c, k) ==
  /\ down' = IF Lands(c) THEN [down EXCEPT ![c] = @ \cup {k}] ELSE down
  /\ UNCHANGED held

\* Inject::move_to: settles the debt of a parked pointer if it was accepted.
Place(c, p) ==
  /\ at' = IF Lands(c) THEN [at EXCEPT ![c] = p] ELSE at
  /\ owes' = IF Refuses(c) THEN owes ELSE [owes EXCEPT ![c] = None]

\* Inject::hide_cursor: parks the pointer once, and owes where it was unless
\* the move was refused.
HideCursor(c) ==
  IF owes[c] # None \/ Refuses(c)
    THEN UNCHANGED <<at, owes>>
    ELSE /\ owes' = [owes EXCEPT ![c] = at[c]]
         /\ at' = IF Lands(c) THEN [at EXCEPT ![c] = Corner] ELSE at

ShowForgets(c) ==   \* mutant: the debt is dropped and not paid
  /\ owes' = [owes EXCEPT ![c] = None]
  /\ UNCHANGED at

\* Inject::show_cursor: the debt is gone whether or not the move is accepted.
ShowCursor(c) ==
  /\ at' = IF owes[c] # None /\ Lands(c) THEN [at EXCEPT ![c] = owes[c]] ELSE at
  /\ owes' = [owes EXCEPT ![c] = None]

-----------------------------------------------------------------------------
Init ==
  /\ session = [c \in Clients |-> FALSE]
  /\ acting = [c \in Clients |-> FALSE]
  /\ suspended = [c \in Clients |-> None]
  /\ refused = [c \in Clients |-> FALSE]
  /\ held = [c \in Clients |-> {}]
  /\ down = [c \in Clients |-> {}]
  /\ at \in [Clients -> Points]
  /\ owes = [c \in Clients |-> None]
  /\ screen = [c \in Clients |-> "open"]

\* The loop of a session handles one thing at a time, and asks about a refused
\* injection before it takes the next.
Ready(c) == session[c] /\ ~refused[c]

\* A session begins: a fresh Client, which remembers nothing of the last one.
Begin(c) ==
  /\ ~session[c]
  /\ session' = [session EXCEPT ![c] = TRUE]
  /\ acting' = [acting EXCEPT ![c] = FALSE]
  /\ suspended' = [suspended EXCEPT ![c] = None]
  /\ refused' = [refused EXCEPT ![c] = FALSE]
  /\ held' = [held EXCEPT ![c] = {}]
  /\ owes' = [owes EXCEPT ![c] = None]
  /\ UNCHANGED <<down, at, screen>>

\* ServerControl::Enter: the pointer first, then what is held.
Enter(c, p, ks) ==
  /\ Ready(c)
  /\ acting' = [acting EXCEPT ![c] = TRUE]
  /\ at' = IF Lands(c) THEN [at EXCEPT ![c] = p] ELSE at
  /\ owes' = [owes EXCEPT ![c] = None]
  /\ refused' = [refused EXCEPT ![c] = Refuses(c)]
  /\ Sync(c, ks)
  /\ UNCHANGED <<session, suspended, screen>>

\* ServerControl::Leave.
Leave(c) ==
  /\ Ready(c)
  /\ acting' = [acting EXCEPT ![c] = FALSE]
  /\ ReleaseHeld(c)
  /\ HideCursor(c)
  /\ UNCHANGED <<session, suspended, refused, screen>>

\* Should input actually be put on this screen right now?
Deliverable(c) == acting[c] /\ suspended[c] = None

\* ServerControl::MoveTo.
MoveTo(c, p) ==
  /\ Ready(c)
  /\ IF Deliverable(c)
       THEN Place(c, p) /\ refused' = [refused EXCEPT ![c] = Refuses(c)]
       ELSE UNCHANGED <<at, owes, refused>>
  /\ UNCHANGED <<session, acting, suspended, held, down, screen>>

\* ServerControl::KeyEvent, and ServerControl::Button, which never repeats.
KeyEvent(c, k, d, repeat) ==
  /\ Ready(c)
  /\ IF Deliverable(c)
       THEN /\ IF repeat /\ d THEN Repress(c, k) ELSE Press(c, k, d)
            /\ refused' = [refused EXCEPT ![c] = Refuses(c)]
       ELSE UNCHANGED <<held, down, refused>>
  /\ UNCHANGED <<session, acting, suspended, at, owes, screen>>

\* ServerControl::Wheel: scrolls and leaves nothing behind but a refusal.
Wheel(c) ==
  /\ Ready(c)
  /\ refused' = [refused EXCEPT ![c] = Deliverable(c) /\ Refuses(c)]
  /\ UNCHANGED <<session, acting, suspended, held, down, at, owes, screen>>

\* ServerControl::SyncKeys.
SyncKeys(c, ks) ==
  /\ Ready(c)
  /\ Sync(c, ks)
  /\ UNCHANGED <<session, acting, suspended, refused, at, owes, screen>>

\* ServerControl::ReleaseAll: obeyed active or not, suspended or not.
ReleaseAll(c) ==
  /\ Ready(c)
  /\ ReleaseHeld(c)
  /\ UNCHANGED <<session, acting, suspended, refused, at, owes, screen>>

\* Client::disconnected, where the loop of a session ends by itself: a Goodbye,
\* a link that failed or went silent.
Disconnected(c) ==
  /\ Ready(c)
  /\ session' = [session EXCEPT ![c] = FALSE]
  /\ acting' = [acting EXCEPT ![c] = FALSE]
  /\ ReleaseHeld(c)
  /\ ShowCursor(c)
  /\ UNCHANGED <<suspended, refused, screen>>

\* The process ends in the middle of a session, or the session is dropped
\* where it stands: nothing is released and the record is lost.
CutShort(c) ==
  /\ session[c]
  /\ session' = [session EXCEPT ![c] = FALSE]
  /\ acting' = [acting EXCEPT ![c] = FALSE]
  /\ refused' = [refused EXCEPT ![c] = FALSE]
  /\ held' = [held EXCEPT ![c] = {}]
  /\ owes' = [owes EXCEPT ![c] = None]
  /\ UNCHANGED <<suspended, down, at, screen>>

\* The process is killed.
Crash(c) == "killed" \in Endings /\ CutShort(c)

\* The daemon is asked to stop: run drops the session without disconnected.
Stop(c) == "stopped" \in Endings /\ CutShort(c)

-----------------------------------------------------------------------------
(* look_at_blockage, twice a second and after every refusal.               *)

LooksIfRefused(c) == refused[c]   \* mutant: swallowed input goes unnoticed

\* When it looks for something in the way: while it has the cursor, and when
\* an injection was refused.
Looks(c) == acting[c] \/ refused[c]

\* Input is not reaching the screen: suspend, letting go of everything.
Suspend(c) ==
  /\ session[c]
  /\ suspended[c] = None
  /\ Looks(c)
  /\ screen[c] # "open"
  /\ suspended' = [suspended EXCEPT ![c] = screen[c]]
  /\ acting' = [acting EXCEPT ![c] = FALSE]
  /\ refused' = [refused EXCEPT ![c] = FALSE]
  /\ ReleaseHeld(c)
  /\ UNCHANGED <<session, at, owes, screen>>

ResumeIfActing(c) ==   \* mutant: only the machine with the cursor looks
  /\ session[c] /\ acting[c]
  /\ suspended[c] # None
  /\ screen[c] = "open"
  /\ suspended' = [suspended EXCEPT ![c] = None]
  /\ refused' = [refused EXCEPT ![c] = FALSE]
  /\ UNCHANGED <<session, acting, held, down, at, owes, screen>>

\* Input reaches the screen again.
Resume(c) ==
  /\ session[c]
  /\ suspended[c] # None
  /\ screen[c] = "open"
  /\ suspended' = [suspended EXCEPT ![c] = None]
  /\ refused' = [refused EXCEPT ![c] = FALSE]
  /\ UNCHANGED <<session, acting, held, down, at, owes, screen>>

\* A refusal that leads to neither: the machine is suspended already, or
\* nothing in front explains it any more.
Shrug(c) ==
  /\ session[c] /\ refused[c]
  /\ IF suspended[c] # None THEN screen[c] # "open" ELSE screen[c] = "open"
  /\ refused' = [refused EXCEPT ![c] = FALSE]
  /\ UNCHANGED <<session, acting, suspended, held, down, at, owes, screen>>

\* A prompt or an administrator's window comes up, or goes.
Screen(c, s) ==
  /\ screen[c] # s
  /\ screen' = [screen EXCEPT ![c] = s]
  /\ UNCHANGED <<session, acting, suspended, refused, held, down, at, owes>>

-----------------------------------------------------------------------------
\* Any message at any time: what a client may rely on is only itself.
Next ==
  \E c \in Clients :
    \/ Begin(c) \/ Leave(c) \/ Wheel(c) \/ ReleaseAll(c)
    \/ Disconnected(c) \/ Crash(c) \/ Stop(c)
    \/ Suspend(c) \/ Resume(c) \/ Shrug(c)
    \/ \E p \in Points : MoveTo(c, p) \/ \E ks \in SUBSET Keys : Enter(c, p, ks)
    \/ \E ks \in SUBSET Keys : SyncKeys(c, ks)
    \/ \E k \in Keys, d, repeat \in BOOLEAN : KeyEvent(c, k, d, repeat)
    \/ \E s \in Reasons \cup {"open"} : Screen(c, s)

\* The client looks twice a second.
Fairness == \A c \in Clients : WF_vars(Suspend(c) \/ Resume(c) \/ Shrug(c))

Spec == Init /\ [][Next]_vars /\ Fairness

-----------------------------------------------------------------------------
(* Properties.                                                             *)

\* Every variable holds what the code's types allow.
TypeOK ==
  /\ session \in [Clients -> BOOLEAN]
  /\ acting \in [Clients -> BOOLEAN]
  /\ suspended \in [Clients -> Reasons \cup {None}]
  /\ refused \in [Clients -> BOOLEAN]
  /\ held \in [Clients -> SUBSET Keys]
  /\ down \in [Clients -> SUBSET Keys]
  /\ at \in [Clients -> Points \cup {Corner}]
  /\ owes \in [Clients -> Points \cup {Corner, None}]
  /\ screen \in [Clients -> Reasons \cup {"open"}]

\* What comes to be down and on no record in a step, and what comes to be on
\* record and not down.
Slipping(c) == (down'[c] \ held'[c]) \ (down[c] \ held[c])
Feigned(c)  == (held'[c] \ down'[c]) \ (held[c] \ down[c])

DropsAll(c) == Leave(c) \/ ReleaseAll(c) \/ Disconnected(c) \/ Suspend(c)

\* How k may come to be down and on no record.
MaySlip(c, k) ==
  \/ CutShort(c)                                   \* the record is lost
  \/ k \in held[c] /\ screen[c] = "SecureDesktop"  \* its release is swallowed,
  \/ k \in held[c] /\ Refuses(c) /\ DropsAll(c)    \* or refused to release_all
  \/ KeyEvent(c, k, TRUE, TRUE)                    \* a repeat of what was not recorded

\* The record and the machine part company in four ways and no other, whatever
\* messages come in whatever order and whatever is in front of the screen: a key
\* stays down unrecorded when a session is cut short, when its release goes
\* nowhere, when everything is let go of and the platform refuses, and when a
\* repeat comes of a press that was never recorded; and one is on record without
\* being down only if its press was swallowed.
NothingSlipsTheRecord ==
  [][\A c \in Clients :
       /\ \A k \in Slipping(c) : MaySlip(c, k)
       /\ Feigned(c) # {} => screen[c] = "SecureDesktop"]_vars

\* A pointer in the corner is owed its way back: it is left there for good
\* only while input does not land or when a session is cut short, and then
\* nothing but the person's own mouse brings it out.
CornerIsOwedBack ==
  [][\A c \in Clients :
       /\ screen[c] = "open" /\ ~CutShort(c)
       /\ at'[c] = Corner /\ owes'[c] \in {None, Corner}
       => at[c] = Corner /\ owes[c] \in {None, Corner}]_vars

\* A machine that said it was suspended comes to say that it no longer is,
\* once its screen is open for good: suspending took the cursor from it, so
\* nothing but its own look can find out, and until it does no input lands.
SuspensionEnds ==
  \A c \in Clients :
    (session[c] /\ suspended[c] # None /\ screen[c] = "open")
      ~> (~session[c] \/ suspended[c] = None \/ screen[c] # "open")

=============================================================================
