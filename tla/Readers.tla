------------------------------- MODULE Readers -------------------------------
(***************************************************************************)
(* The process that reads the clipboard as the person at the screen, and   *)
(* the service that keeps one running: mind_readers                        *)
(* (crates/smkvm-cli/src/secure/windows/scm.rs), start, let_go and the     *)
(* threads around a reader (readers.rs) and the worker that is told not to *)
(* watch for copies while a reader does (serving.rs).                      *)
(*                                                                         *)
(* A reader may die at any time, its session may end, and the worker is    *)
(* replaced as often as the input moves.                                   *)
(***************************************************************************)
EXTENDS Naturals

CONSTANTS
  Sessions,    \* the sessions that may be at the screen
  Tries,       \* READER_TRIES
  MaxReaders,  \* bound: readers ever started
  MaxSwitches, \* bound: changes of who is at the screen
  MaxTrouble,  \* bound: deaths, failed starts and worker replacements
  DiesEarly,   \* whether one may die before the service has recorded it
  None

VARIABLES
  session,   \* console_session()
  switches, trouble,
  at,        \* mind_readers: "look", or inside start: "starting", "spawned"
  wanted,    \* the session start is called for
  serving, failures, givenUpOn,
  current,   \* READER, 0 for none
  readers,   \* those ever started: [session, alive, collected], collected: its
             \* collector thread still runs
  watches    \* Clipboard::notice_copies of the worker there is

minding == <<at, wanted, serving, failures, givenUpOn>>
vars == <<session, switches, trouble, minding, current, readers, watches>>

Ids == 1..MaxReaders
Unborn == [session |-> None, alive |-> FALSE, collected |-> FALSE]
Born(r) == readers[r].session # None
Next1 == CHOOSE r \in Ids : ~Born(r) /\ \A q \in Ids : q < r => Born(q)

Init ==
  /\ session \in Sessions \cup {None} /\ switches = 0 /\ trouble = 0
  /\ at = "look" /\ wanted = None /\ serving = None /\ failures = 0 /\ givenUpOn = None
  /\ current = 0 /\ readers = [r \in Ids |-> Unborn] /\ watches = TRUE

Trouble == trouble < MaxTrouble /\ trouble' = trouble + 1

-----------------------------------------------------------------------------
\* Somebody logs off or on, or two people change places.  What runs in a session
\* that ends, ends.
SessionChanges ==
  /\ switches < MaxSwitches /\ switches' = switches + 1
  /\ session' \in (Sessions \cup {None}) \ {session}
  /\ \E ends \in {e \in BOOLEAN : e => DiesEarly \/ at # "spawned"} :
       readers' = [r \in Ids |-> [readers[r] EXCEPT
                     !.alive = @ /\ ~(ends /\ readers[r].session = session)]]
  /\ UNCHANGED <<trouble, minding, current, watches>>

Die ==
  /\ Trouble
  /\ \E r \in Ids :
       /\ readers[r].alive /\ (r = current \/ DiesEarly)
       /\ readers' = [readers EXCEPT ![r].alive = FALSE]
  /\ UNCHANGED <<session, switches, minding, current, watches>>

\* The input moved: the next worker notices copies until it is told not to.
WorkerReplaced ==
  /\ Trouble
  /\ watches' = TRUE
  /\ UNCHANGED <<session, switches, minding, current, readers>>

-----------------------------------------------------------------------------
CollectorLeavesIt(r) == current' = current   \* mutant: the dead one stays on record

\* The collector of r clears READER, if it is still r that is there.
Forget(r) == current' = IF current = r THEN 0 ELSE current

\* The pipe broke: the collector thread ends.
CollectorEnds(r) ==
  /\ readers[r].collected /\ ~readers[r].alive
  /\ readers' = [readers EXCEPT ![r].collected = FALSE]
  /\ Forget(r)
  /\ UNCHANGED <<session, switches, trouble, minding, watches>>

\* let_go: with a reader on record, it is stopped and the worker watches again.
LetGo ==
  IF current = 0 THEN UNCHANGED <<current, readers, watches>>
  ELSE /\ current' = 0 /\ watches' = TRUE
       /\ readers' = [readers EXCEPT ![current].alive = FALSE]

LookAtNobody ==
  /\ at = "look" /\ session = None
  /\ serving' = None /\ givenUpOn' = None /\ failures' = 0
  /\ IF serving = None THEN UNCHANGED <<current, readers, watches>> ELSE LetGo
  /\ UNCHANGED <<session, switches, trouble, at, wanted>>

\* Somebody is there, and nothing is running for them.
LookAtSomebody ==
  /\ at = "look" /\ session # None
  /\ ~(serving = session /\ current # 0)
  /\ LET other == serving # None /\ serving # session
         anew  == givenUpOn \notin {None, session} IN
       /\ IF other THEN LetGo /\ serving' = None
                   ELSE UNCHANGED <<serving, current, readers, watches>>
       /\ givenUpOn' = IF anew THEN None ELSE givenUpOn
       /\ failures' = IF anew THEN 0 ELSE failures
       /\ IF givenUpOn' = session
            THEN UNCHANGED <<at, wanted>>
            ELSE at' = "starting" /\ wanted' = session
  /\ UNCHANGED <<session, switches, trouble>>

\* start: the process is gone at the first look, does not connect, says nothing
\* that is welcome, or finds another session at the screen than it was meant for.
StartFails ==
  /\ at = "starting"
  /\ IF session = wanted THEN Trouble ELSE UNCHANGED trouble
  /\ at' = "look"
  /\ failures' = failures + 1
  /\ givenUpOn' = IF failures' >= Tries THEN wanted ELSE givenUpOn
  /\ UNCHANGED <<session, switches, wanted, serving, current, readers, watches>>

\* start: welcome; its collector runs from here on.
StartSpawns ==
  /\ at = "starting" /\ session = wanted /\ \E r \in Ids : ~Born(r)
  /\ at' = "spawned"
  /\ readers' = [readers EXCEPT ![Next1] = [session |-> wanted, alive |-> TRUE, collected |-> TRUE]]
  /\ UNCHANGED <<session, switches, trouble, wanted, serving, failures, givenUpOn, current, watches>>

\* start, at its end, and mind_readers after it.
StartRecords ==
  /\ at = "spawned" /\ at' = "look"
  /\ current' = CHOOSE r \in Ids : Born(r) /\ \A q \in Ids : Born(q) => q <= r
  /\ watches' = FALSE
  /\ serving' = wanted /\ failures' = 0
  /\ UNCHANGED <<session, switches, trouble, wanted, givenUpOn, readers>>

-----------------------------------------------------------------------------
Minds == LookAtNobody \/ LookAtSomebody \/ StartFails \/ StartSpawns \/ StartRecords

Next ==
  \/ SessionChanges \/ Die \/ WorkerReplaced
  \/ \E r \in Ids : CollectorEnds(r)
  \/ LookAtNobody \/ LookAtSomebody \/ StartFails \/ StartSpawns \/ StartRecords

\* The service's loop goes round, and its threads run.
Fairness == WF_vars(Minds) /\ \A r \in Ids : WF_vars(CollectorEnds(r))

Spec == Init /\ [][Next]_vars /\ Fairness

-----------------------------------------------------------------------------
Heard == current # 0 /\ readers[current].alive /\ readers[current].session = session

\* Whoever stays at the screen is read for in the end, and nobody is when nobody
\* is there, whatever died, failed to start or changed places before; unless a
\* reader failed to start too often for them.
PersonIsHeard ==
  <>[](IF session = None THEN \A r \in Ids : ~readers[r].alive
                         ELSE Heard \/ givenUpOn = session)

-----------------------------------------------------------------------------
(* What the documentation says and the code does not do.                   *)

\* "A wrong answer is better than none once there is nobody better placed:
\* without a reader, nothing else is watching at all."
\* (secure/windows/readers.rs:322)
SomebodyWatches == at = "look" /\ givenUpOn = session /\ current = 0 => watches \/ session = None
=============================================================================
