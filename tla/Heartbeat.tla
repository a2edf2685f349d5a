------------------------------ MODULE Heartbeat ------------------------------
(***************************************************************************)
(* Whether the other end is still there: the heartbeat of the server's     *)
(* daemon (crates/smkvm-cli/src/server.rs) and the loop of a client's      *)
(* session (crates/smkvm-cli/src/client.rs), over one link that may die    *)
(* without telling either end.                                             *)
(*                                                                         *)
(* Time goes in units of the client's look, half a second.  A timer is the *)
(* time since it was last set, and time does not pass a timer that is due. *)
(* Nothing is sent here but pings and their answers: a quiet desk is where *)
(* the heartbeat has to do its work.  A link that is closed, and what then *)
(* becomes of the cursor, is the subject of Switching.                     *)
(***************************************************************************)
EXTENDS Integers

CONSTANTS
  Beat,    \* network.heartbeat_ms, which the code takes to be at least Look
  Look,    \* LOOK_FOR_BLOCKAGE
  Missed,  \* MISSED_HEARTBEATS
  Delay,   \* bound: the longest a message of a live link is on its way
  MaySleep, \* whether the client's machine may sleep
  None     \* stands for no message

ASSUME TimeAssumption ==
  /\ Beat \in Nat /\ Look \in 1 .. Beat /\ Missed \in Nat \ {0, 1}
  /\ Delay \in Nat /\ 2 * Delay < Beat
ASSUME NoneAssumption == None \notin Nat
ASSUME SleepAssumption == MaySleep \in BOOLEAN

VARIABLES
  dead,      \* whether the link carries nothing any more
  attached,  \* whether the daemon has the machine
  beat,      \* since the daemon's last heartbeat
  heard,     \* Attached::last_heard: since anything was heard, up to Limit + 1
  session,   \* whether the client has a session
  look,      \* since the client last looked
  waited,    \* how long the client's timeout has been running
  ping,      \* how long a ping has been on its way, or None
  pong       \* the same for its answer

vars == <<dead, attached, beat, heard, session, look, waited, ping, pong>>

\* How long a silence either end puts up with.
Limit == Missed * Beat

Init ==
  /\ dead = FALSE /\ attached = TRUE /\ session = TRUE
  /\ beat \in 0 .. Beat
  /\ heard = 0 /\ look = 0 /\ waited = 0
  /\ ping = None /\ pong = None

-----------------------------------------------------------------------------
InTime(m) == m # None => m < Delay
Later(m)  == IF m = None THEN None ELSE m + 1

\* A unit of time passes for the daemon.
Older ==
  /\ beat < Beat
  /\ beat' = beat + 1
  /\ heard' = IF heard <= Limit THEN heard + 1 ELSE heard

\* One unit of time.
Advance ==
  /\ Older
  /\ InTime(ping) /\ ping' = Later(ping)
  /\ InTime(pong) /\ pong' = Later(pong)
  /\ IF session
       THEN /\ look < Look /\ look' = look + 1
            /\ waited < Limit /\ waited' = waited + 1
       ELSE UNCHANGED <<look, waited>>
  /\ UNCHANGED <<dead, attached, session>>

\* The same, with the client's machine asleep: when its loop runs again
\* everything is due at once.
Sleep ==
  /\ Older
  /\ MaySleep /\ dead /\ session
  /\ look' = Look /\ waited' = Limit
  /\ UNCHANGED <<dead, attached, session, ping, pong>>

\* The link dies and takes what was on its way with it.
Die ==
  /\ ~dead /\ attached /\ session
  /\ dead' = TRUE /\ ping' = None /\ pong' = None
  /\ UNCHANGED <<attached, beat, heard, session, look, waited>>

BeatCountsAsHeard ==   \* mutant: asking is taken for an answer
  /\ beat = Beat /\ beat' = 0
  /\ heard' = 0
  /\ attached' = (attached /\ heard <= Limit)
  /\ ping' = IF attached' /\ session /\ ~dead THEN 0 ELSE ping
  /\ UNCHANGED <<dead, session, look, waited, pong>>

\* Daemon::heartbeat: a machine not heard from for too long is let go, and
\* whatever is left is asked whether it is there.
ServerBeat ==
  /\ beat = Beat /\ beat' = 0
  /\ attached' = (attached /\ heard <= Limit)
  /\ ping' = IF attached' /\ session /\ ~dead THEN 0 ELSE ping
  /\ UNCHANGED <<dead, heard, session, look, waited, pong>>

\* Whatever happens in the client's loop, the next turn waits anew.
Rearmed == waited' = 0

\* The client answers a ping.
Answer ==
  /\ session /\ ping # None
  /\ ping' = None /\ pong' = 0
  /\ Rearmed
  /\ UNCHANGED <<dead, attached, beat, heard, session, look>>

HearNothing ==   \* mutant: an answer does not count as a sign of life
  /\ attached /\ pong # None
  /\ pong' = None
  /\ UNCHANGED <<dead, attached, beat, heard, session, look, waited, ping>>

\* Daemon::heard, of an answer.
Hear ==
  /\ attached /\ pong # None
  /\ pong' = None
  /\ heard' = 0
  /\ UNCHANGED <<dead, attached, beat, session, look, waited, ping>>

\* The client looks at whether its input lands: another turn of its loop.
LookAround ==
  /\ session /\ look = Look
  /\ look' = 0
  /\ Rearmed
  /\ UNCHANGED <<dead, attached, beat, heard, session, ping, pong>>

\* The client's timeout runs out.
GiveUp ==
  /\ session /\ waited = Limit
  /\ session' = FALSE
  /\ UNCHANGED <<dead, attached, beat, heard, look, waited, ping, pong>>

-----------------------------------------------------------------------------
Next == Advance \/ Sleep \/ Die
        \/ ServerBeat \/ Answer \/ Hear \/ LookAround \/ GiveUp

\* Time passes, and what is due is done.
Fairness ==
  /\ WF_vars(Advance \/ Sleep)
  /\ WF_vars(ServerBeat) /\ WF_vars(Answer) /\ WF_vars(Hear)
  /\ WF_vars(LookAround \/ GiveUp)

Spec == Init /\ [][Next]_vars /\ Fairness

-----------------------------------------------------------------------------
(* Properties.                                                             *)

Times == 0 .. Delay

\* Every variable holds what the code's types allow.
TypeOK ==
  /\ dead \in BOOLEAN /\ attached \in BOOLEAN /\ session \in BOOLEAN
  /\ beat \in 0 .. Beat
  /\ heard \in 0 .. Limit + 1
  /\ look \in 0 .. Look
  /\ waited \in 0 .. Limit
  /\ ping \in Times \cup {None}
  /\ pong \in Times \cup {None}

\* A link that works is given up by neither end, however slow within its
\* bound and wherever in the round a message is (server.rs:645, client.rs:151).
LiveLinkIsKept == ~dead => attached /\ session

\* A machine that has gone silent is let go of, and its cursor comes home
\* with it (server.rs:645).
SilentMachineIsLetGo == dead ~> ~attached

-----------------------------------------------------------------------------
(* What the documentation says and the code does not do.                   *)

\* "How many heartbeats the server may miss before the link is given up on."
\* (smkvm-cli/src/client.rs:23), and "Heartbeats both ways
\* (network.heartbeat_ms, three misses)" (docs/NOTES.md:36)
SilentServerIsGivenUp == dead ~> ~session
=============================================================================
