-------------------------------- MODULE Reach --------------------------------
(***************************************************************************)
(* What the service believes about whether what it injects lands: the      *)
(* refusals of Reach (crates/smkvm-cli/src/secure/reach.rs), which grow    *)
(* into a run and are believed for longer and longer, and the client that  *)
(* hands the cursor back and takes it again on the strength of it          *)
(* (look_at_blockage, crates/smkvm-cli/src/client.rs).  Which worker is    *)
(* where is the matter of module Worker; here there is one, on the desktop *)
(* that has the input, in front of which a wall comes and goes.            *)
(*                                                                         *)
(* A tick is REFUSAL_ARRIVES_WITHIN: a refusal is heard before the next.   *)
(***************************************************************************)
EXTENDS Naturals

CONSTANTS
  StandsFor,  \* REFUSAL_STANDS_FOR, in ticks
  BacksOffTo, \* REFUSAL_BACKS_OFF_TO, in ticks
  MaxStreak,  \* bound: where the count of a run stops
  InFlight,   \* bound: refusals on their way at once
  None

VARIABLES
  refused,    \* refused_at: ticks since, as far as anybody asks
  sent,       \* sent_at, the same way
  later,      \* whether sent_at is after refused_at
  streak,
  suspended,  \* Client::suspended, of a client that has the cursor
  wall,       \* what is injected is turned down
  onTheWay,   \* refusals the service has not heard yet
  landed,     \* something injected since the last refusal was not turned down
  remarked    \* something that is no injection was said since then

believing == <<refused, sent, later, streak>>
vars == <<believing, suspended, wall, onTheWay, landed, remarked>>

Lesser(a, b) == IF a < b THEN a ELSE b

Init ==
  /\ refused = None /\ sent = None /\ later = FALSE /\ streak = 0
  /\ suspended = FALSE /\ wall = FALSE /\ onTheWay = 0
  /\ landed = FALSE /\ remarked = FALSE

\* run_is_over: an injection that no refusal followed in time.
RunIsOver == sent # None /\ refused # None /\ later /\ sent >= 1

BelievedFor == Lesser(BacksOffTo, StandsFor * 2^(IF streak = 0 THEN 0 ELSE streak - 1))

Blocked == refused # None /\ refused < BelievedFor /\ ~RunIsOver

SentAnyway ==   \* mutant: what is sent while it is blocked counts too
  IF sent = None
    THEN sent' = 0 /\ later' = (refused = None \/ refused > 0)
    ELSE UNCHANGED <<sent, later>>

\* sent: the first since the last refusal, while it was believed to land.
Sent ==
  IF ~Blocked /\ sent = None
    THEN sent' = 0 /\ later' = (refused = None \/ refused > 0)
    ELSE UNCHANGED <<sent, later>>

\* The client injects while the cursor is there.
Inject ==
  /\ ~suspended
  /\ Sent
  /\ \/ wall /\ onTheWay < InFlight /\ onTheWay' = onTheWay + 1 /\ UNCHANGED landed
     \/ ~wall /\ landed' = TRUE /\ UNCHANGED onTheWay
  /\ UNCHANGED <<refused, streak, suspended, wall, remarked>>

\* Link::say counts everything it sends, instructions about the clipboard and
\* questions about the displays as well.
Remark ==
  /\ Sent
  /\ remarked' = TRUE
  /\ UNCHANGED <<refused, streak, suspended, wall, onTheWay, landed>>

Refused ==
  /\ onTheWay > 0 /\ onTheWay' = onTheWay - 1
  /\ streak' = Lesser(MaxStreak, (IF RunIsOver THEN 0 ELSE streak) + 1)
  /\ refused' = 0 /\ sent' = None /\ later' = FALSE
  /\ landed' = FALSE /\ remarked' = FALSE
  /\ UNCHANGED <<suspended, wall>>

\* look_at_blockage.  Suspending lets go of what is held, which may be turned
\* down, and shows the pointer, which never is.
Suspend ==
  /\ ~suspended /\ Blocked
  /\ suspended' = TRUE
  /\ Sent
  /\ onTheWay' \in {onTheWay} \cup (IF wall /\ onTheWay < InFlight THEN {onTheWay + 1} ELSE {})
  /\ UNCHANGED <<refused, streak, wall, landed, remarked>>

Resume ==
  /\ suspended /\ ~Blocked
  /\ suspended' = FALSE
  /\ UNCHANGED <<believing, wall, onTheWay, landed, remarked>>

\* attached: a new worker is a new question.
Attached ==
  /\ refused' = None /\ sent' = None /\ later' = FALSE /\ streak' = 0
  /\ onTheWay' = 0 /\ landed' = FALSE /\ remarked' = FALSE
  /\ UNCHANGED <<suspended, wall>>

WallMoves ==
  /\ wall' = ~wall
  /\ UNCHANGED <<believing, suspended, onTheWay, landed, remarked>>

Tick ==
  /\ onTheWay = 0
  /\ refused' = IF refused = None THEN None ELSE Lesser(refused + 1, BacksOffTo)
  /\ sent' = IF sent = None THEN None ELSE 1
  /\ UNCHANGED <<later, streak, suspended, wall, onTheWay, landed, remarked>>

Next ==
  \/ Inject \/ Remark \/ Refused \/ Suspend \/ Resume \/ Attached \/ WallMoves \/ Tick

Spec == Init /\ [][Next]_vars

-----------------------------------------------------------------------------
\* Running into the same wall again and again makes the service wait longer
\* each time, up to the limit: a refusal with nothing landed since the last one
\* never starts the count again, unless something that is no injection was said
\* between the two and taken for one that landed.
BacksOff ==
  [][Refused /\ refused # None /\ ~landed /\ ~remarked
       => streak' > streak \/ streak' = MaxStreak]_vars
=============================================================================
