------------------------------- MODULE Pairing -------------------------------
(***************************************************************************)
(* How two machines come to know each other and what they later make of    *)
(* it: the handshake two people confirm (crates/smkvm-net/src/pairing.rs)  *)
(* by command (crates/smkvm-cli/src/main.rs) or in the window              *)
(* (crates/smkvm-gui/src/pairing.rs, app.rs), the machines each keeps      *)
(* (identity.rs, trust.rs), and the sessions the daemons open with what    *)
(* they knew when they started (session.rs, hello.rs).                     *)
(*                                                                         *)
(* A key is a number that changes when a machine is set up from nothing.   *)
(* The handshakes themselves are taken at their word: both ends come out   *)
(* with the other's key, or neither does.                                  *)
(***************************************************************************)
EXTENDS Naturals, FiniteSets

CONSTANTS
  Server, Client,
  MaxKey,   \* bound: how often machines are set up again
  MaxDeeds, \* bound: handshakes, and machines forgotten
  None

Machines == {Server, Client}
Other(m) == IF m = Server THEN Client ELSE Server

VARIABLES
  key,    \* Identity
  peers,  \* the keys in peers.toml
  window, \* Store::trust of the open window, or None
  read,   \* what `smkvm pair` read when it began
  tool,   \* "window" or "command": which of the two is pairing
  step,   \* Step
  met,    \* Pairing::peer_key
  sent,   \* the answer this end sent
  gone,   \* this end has dropped the handshake
  daemon, \* what it knew when it started, or None
  link,   \* how far the connection between the daemons is
  yes,    \* the pairs of keys each person has said yes to
  deeds

ends    == <<tool, step, met, sent, gone, read>>
daemons == <<daemon, link>>
vars    == <<key, peers, window, ends, daemons, yes, deeds>>

Init ==
  /\ key = [m \in Machines |-> 0]
  /\ peers = [m \in Machines |-> {}]
  /\ window = [m \in Machines |-> None]
  /\ read = [m \in Machines |-> {}]
  /\ tool = [m \in Machines |-> "command"]
  /\ step = [m \in Machines |-> "idle"]
  /\ met = [m \in Machines |-> None]
  /\ sent = [m \in Machines |-> None]
  /\ gone = [m \in Machines |-> FALSE]
  /\ daemon = [m \in Machines |-> None]
  /\ link = "none"
  /\ yes = [m \in Machines |-> {}]
  /\ deeds = 0

-----------------------------------------------------------------------------
(* Pairing.                                                                *)

OpenWindow(m) ==
  /\ window[m] = None
  /\ window' = [window EXCEPT ![m] = peers[m]]
  /\ UNCHANGED <<key, peers, ends, daemons, yes, deeds>>

\* What an end knew of the handshake goes with it.
Over(m) ==
  /\ step' = [step EXCEPT ![m] = "idle"]
  /\ tool' = [tool EXCEPT ![m] = "command"]
  /\ met' = [met EXCEPT ![m] = None]
  /\ read' = [read EXCEPT ![m] = {}]

\* An end that stops: the handshake is dropped, whatever had been said.
Drop(m) ==
  /\ Over(m)
  /\ gone' = [gone EXCEPT ![m] = step[Other(m)] # "idle"]
  /\ UNCHANGED sent

\* cancel, an interrupted command, a link that fails: even between having
\* agreed and having written it down.
Withdraw(m) ==
  /\ step[m] # "idle"
  /\ Drop(m)
  /\ UNCHANGED <<key, peers, window, daemons, yes, deeds>>

CloseWindow(m) ==
  /\ window[m] # None
  /\ window' = [window EXCEPT ![m] = None]
  /\ IF tool[m] = "window" /\ step[m] # "idle" THEN Drop(m) ELSE UNCHANGED ends
  /\ UNCHANGED <<key, peers, daemons, yes, deeds>>

\* One end listens, where no server of its own has the port, and one reaches out.
Begin(m, with, how) ==
  /\ step[m] = "idle"
  /\ with = "window" => window[m] # None
  /\ how = "listening" => ~(m = Server /\ daemon[m] # None)
  /\ tool' = [tool EXCEPT ![m] = with]
  /\ step' = [step EXCEPT ![m] = how]
  /\ read' = [read EXCEPT ![m] = IF with = "command" THEN peers[m] ELSE {}]
  /\ UNCHANGED <<key, peers, window, met, sent, gone, daemons, yes, deeds>>

\* initiate and accept: three messages, and each has the other's key and both
\* have the same code.
Meet ==
  /\ deeds < MaxDeeds /\ deeds' = deeds + 1
  /\ {step[m] : m \in Machines} = {"listening", "reaching"}
  /\ met' = [m \in Machines |-> key[Other(m)]]
  /\ step' = [m \in Machines |-> "compare"]
  /\ sent' = [m \in Machines |-> None]
  /\ gone' = [m \in Machines |-> FALSE]
  /\ UNCHANGED <<key, peers, window, tool, read, daemons, yes>>

Accept(m) ==
  /\ step[m] = "compare"
  /\ step' = [step EXCEPT ![m] = "said"]
  /\ sent' = [sent EXCEPT ![m] = "accept"]
  /\ yes' = [yes EXCEPT ![m] = @ \cup {<<key[m], met[m]>>}]
  /\ UNCHANGED <<key, peers, window, tool, met, gone, read, daemons, deeds>>

Reject(m) ==
  /\ step[m] = "compare"
  /\ Over(m)
  /\ sent' = [sent EXCEPT ![m] = "reject"]
  /\ UNCHANGED <<key, peers, window, gone, daemons, yes, deeds>>

AcceptedUnheard(m) == TRUE   \* mutant: confirm does not look at the reply

\* confirm: what makes of a reply a peer.
Accepted(m) == sent[Other(m)] = "accept"

\* confirm: the reply, or the end of the connection without one.
Conclude(m) ==
  /\ step[m] = "said"
  /\ sent[Other(m)] # None \/ gone[Other(m)]
  /\ IF Accepted(m)
       THEN step' = [step EXCEPT ![m] = "paired"] /\ UNCHANGED <<tool, met, read>>
       ELSE Over(m)
  /\ UNCHANGED <<key, peers, window, sent, gone, daemons, yes, deeds>>

\* It is written down: the command adds to what it read when it began, and the
\* window to what it has had in memory since it was opened.
Save(m) ==
  /\ step[m] = "paired"
  /\ Over(m)
  /\ IF tool[m] = "command"
       THEN /\ peers' = [peers EXCEPT ![m] = read[m] \cup {met[m]}]
            /\ UNCHANGED window
       ELSE /\ window' = [window EXCEPT ![m] = @ \cup {met[m]}]
            /\ peers' = [peers EXCEPT ![m] = window'[m]]
  /\ UNCHANGED <<key, sent, gone, daemons, yes, deeds>>

ForgetByCommand(m, k) ==
  /\ deeds < MaxDeeds /\ deeds' = deeds + 1
  /\ k \in peers[m]
  /\ peers' = [peers EXCEPT ![m] = @ \ {k}]
  /\ UNCHANGED <<key, window, ends, daemons, yes>>

ForgetInWindow(m, k) ==
  /\ deeds < MaxDeeds /\ deeds' = deeds + 1
  /\ window[m] # None /\ k \in window[m]
  /\ window' = [window EXCEPT ![m] = @ \ {k}]
  /\ peers' = [peers EXCEPT ![m] = window'[m]]
  /\ UNCHANGED <<key, ends, daemons, yes>>

\* A machine set up from nothing: load_or_create makes another key.
SetUpAgain(m) ==
  /\ key[Server] + key[Client] < MaxKey
  /\ step[m] = "idle" /\ window[m] = None /\ daemon[m] = None
  /\ key' = [key EXCEPT ![m] = @ + 1]
  /\ peers' = [peers EXCEPT ![m] = {}]
  /\ UNCHANGED <<window, ends, daemons, yes, deeds>>

-----------------------------------------------------------------------------
(* Sessions.                                                               *)

\* serve, connect: each looks at peers.toml once.  A client settles on one of
\* those it finds there.
Start(m) ==
  /\ daemon[m] = None /\ peers[m] # {}
  /\ \E known \in IF m = Server THEN {peers[m]} ELSE {{k} : k \in peers[m]} :
        daemon' = [daemon EXCEPT ![m] = known]
  /\ UNCHANGED <<key, peers, window, ends, link, yes, deeds>>

Stop(m) ==
  /\ daemon[m] # None
  /\ daemon' = [daemon EXCEPT ![m] = None]
  /\ link' = "none"
  /\ UNCHANGED <<key, peers, window, ends, yes, deeds>>

\* Session::accept: a key that is not known gets no reply.
Admitted(k) == k \in daemon[Server]

\* Session::start and accept: the client's first message can be read only with
\* the key it expects of the server, and carries its own.
Connect ==
  /\ link = "none" /\ daemon[Server] # None /\ daemon[Client] # None
  /\ key[Server] \in daemon[Client]
  /\ Admitted(key[Client])
  /\ link' = "secured"
  /\ UNCHANGED <<key, peers, window, ends, daemon, yes, deeds>>

\* hello: builds that speak different versions part, and so do ends of which
\* one does not introduce itself in time.
Introduce ==
  /\ link = "secured"
  /\ link' \in {"session", "none"}
  /\ UNCHANGED <<key, peers, window, ends, daemon, yes, deeds>>

Lost ==
  /\ link # "none" /\ link' = "none"
  /\ UNCHANGED <<key, peers, window, ends, daemon, yes, deeds>>

Next ==
  \/ \E m \in Machines :
       \/ OpenWindow(m) \/ CloseWindow(m) \/ Withdraw(m)
       \/ \E with \in {"window", "command"}, how \in {"listening", "reaching"} :
             Begin(m, with, how)
       \/ Accept(m) \/ Reject(m) \/ Conclude(m) \/ Save(m)
       \/ \E k \in 0..MaxKey : ForgetByCommand(m, k) \/ ForgetInWindow(m, k)
       \/ SetUpAgain(m) \/ Start(m) \/ Stop(m)
  \/ Meet \/ Connect \/ Introduce \/ Lost

Spec == Init /\ [][Next]_vars

-----------------------------------------------------------------------------
\* What both people said yes to, with the keys the machines had then.
Agreed(m, k) ==
  /\ <<key[m], k>> \in yes[m]
  /\ <<k, key[m]>> \in yes[Other(m)]

\* A machine is written down, in the file or in an open window, only when the
\* people at both ends accepted the code of one handshake between the keys the
\* two have: not when one of them refused, left, or never answered, and not
\* when what was agreed was with a machine since set up anew.  Nor do two
\* daemons ever get as far as a session without that.
PairedByBoth ==
  /\ \A m \in Machines : \A k \in peers[m] : Agreed(m, k)
  /\ \A m \in Machines : window[m] # None => \A k \in window[m] : Agreed(m, k)
  /\ link = "session" => Agreed(Server, key[Client])

-----------------------------------------------------------------------------
(* What the documentation says and the code does not do.                   *)

\* main.rs: "forgot {} ({}). It must be paired again to connect."  The daemon
\* of a server goes by what it read when it started.
ForgottenStaysOut ==
  [][link = "none" /\ link' = "secured" => key[Client] \in peers[Server]]_vars
=============================================================================
