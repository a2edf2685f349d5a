----------------------------- MODULE MCHeartbeat -----------------------------
(***************************************************************************)
(* What has to happen in the end: a heartbeat every five units and a look  *)
(* every two, with messages that take up to two, which never fall into     *)
(* step; and, by themselves and one at a time, as which says, the client   *)
(* and the readers of the clipboard.                                       *)
(***************************************************************************)
EXTENDS Heartbeat

VARIABLES
  which,  \* the one that moves
  clientSession, acting, suspended, refused, held, down, at, owes, screen,
  readersSession, switches, trouble, readersAt, wanted, serving, failures,
  givenUpOn, current, readers, watches

CL == INSTANCE Client WITH Clients <- {"c"}, Points <- {"p", "q"},
      Corner <- "corner", Keys <- {"k"},
      Reasons <- {"Elevated", "SecureDesktop"},
      Endings <- {"killed", "stopped"}, session <- clientSession
RD == INSTANCE Readers WITH Sessions <- {"s", "t"}, Tries <- 2,
      MaxReaders <- 8, MaxSwitches <- 3, MaxTrouble <- 3, DiesEarly <- FALSE,
      session <- readersSession, at <- readersAt

ofClient == <<clientSession, acting, suspended, refused, held, down, at, owes,
    screen>>
ofReaders == <<readersSession, switches, trouble, readersAt, wanted, serving,
    failures, givenUpOn, current, readers, watches>>

each == <<which, vars, ofClient, ofReaders>>

EachInit ==
  /\ which \in {"heartbeat", "client", "readers"}
  /\ Init
  /\ CL!Init
  /\ RD!Init
  /\ which # "heartbeat" => beat = 0
  /\ which # "client" => at["c"] = "p"
  /\ which # "readers" => readersSession = None

EachNext ==
  \/ /\ which = "heartbeat" /\ Next
     /\ UNCHANGED <<which, ofClient, ofReaders>>
  \/ /\ which = "client" /\ CL!Next
     /\ UNCHANGED <<which, vars, ofReaders>>
  \/ /\ which = "readers" /\ RD!Next
     /\ UNCHANGED <<which, vars, ofClient>>

\* Each one's fairness, while it is the one that moves.
EachFairness ==
  /\ WF_vars(which = "heartbeat" /\ (Advance \/ Sleep))
  /\ WF_vars(which = "heartbeat" /\ ServerBeat)
  /\ WF_vars(which = "heartbeat" /\ Answer)
  /\ WF_vars(which = "heartbeat" /\ Hear)
  /\ WF_vars(which = "heartbeat" /\ (LookAround \/ GiveUp))
  /\ WF_ofClient(which = "client" /\ \E c \in {"c"} : CL!Suspend(c) \/ CL!Resume(c) \/ CL!Shrug(c))
  /\ WF_ofReaders(which = "readers" /\ RD!Minds)
  /\ \A r \in RD!Ids : WF_ofReaders(which = "readers" /\ RD!CollectorEnds(r))

EachSpec == EachInit /\ [][EachNext]_each /\ EachFairness

-----------------------------------------------------------------------------
\* Client: a machine that said it was suspended comes to say that it no longer is
\* (cli/client.rs).
SuspensionEnds == which = "client" => CL!SuspensionEnds

\* Readers: whoever stays at the screen is read for in the end, and nobody is when
\* nobody is there (secure/windows/readers.rs).
ReaderIsThere == which = "readers" => RD!PersonIsHeard
=============================================================================
