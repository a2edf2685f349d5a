--------------------------- MODULE Together_proof ---------------------------
(***************************************************************************)
(* Proofs about the machines of Together, for every bound there is on any. *)
(*                                                                         *)
(* Pairing: whom a machine has written down, and whom its daemon opens a   *)
(* session with, is one that both people said yes to, under the keys the   *)
(* two machines had when they did. What makes it hold is that nobody holds *)
(* a yes by himself for long. The two ends of one handshake have met each  *)
(* other's key (SameHandshake), and an answer that was sent stands for a   *)
(* yes that was said, even where the end that sent it has left, and its    *)
(* machine has another key by the time the answer is heard (Meant). And    *)
(* there are three copies of peers.toml that outlive it, the command's,    *)
(* the window's and the daemon's: each can be written back, or acted on,   *)
(* long after the file was changed (ReadWell, PairedByBoth, DaemonsKnow).  *)
(*                                                                         *)
(* Installing: the task and the service are never both registered, nor     *)
(* their daemons both alive, where PowerShell answered and no command      *)
(* overtook another. A command registers the one only behind the step that *)
(* takes off the other, if that was there, and so each of them that runs   *)
(* (OtherGoesFirst); a service is stopped in the same step it is deleted   *)
(* in (ServiceIsRegistered), and a task in the next one (StopsNext), until *)
(* when its daemon outlives it with nothing registered, or is spared       *)
(* (Outlives).                                                             *)
(*                                                                         *)
(* Reach: a byte put into the wall is on its way until it is heard of, and *)
(* no time has passed since (StillOut), so that it is not taken for one    *)
(* that landed.                                                            *)
(*                                                                         *)
(* Notice: where what was noticed last is on the clipboard still, each     *)
(* look that came to nothing found the clipboard in somebody's hands, and  *)
(* nobody turns the watching off (UnderObservation).                       *)
(*                                                                         *)
(* Capture: what waits for the other machine leaves the key there as the   *)
(* server has it (WillHold), and what waits for the server leaves it there *)
(* as the hand has it (WillHave).                                          *)
(*                                                                         *)
(* Paste: whatever is fetched for the paste that waits, and whatever was   *)
(* kept, is as new as what is offered (FetchedForIt, KeptIsNew), and a     *)
(* clipboard that holds no promise has a message under way that makes it   *)
(* one (Renewed).                                                          *)
(*                                                                         *)
(* Noticing: a copy that is announced is reported, or in the hands of the  *)
(* watch that claimed it (ClaimedOrReported).                              *)
(*                                                                         *)
(* Selection: each that pastes is sent one thing at a time, and has got of *)
(* it what was sent (Served); what is offered later has the greater        *)
(* number, wherever it waits (OffersAscend).                               *)
(*                                                                         *)
(* Landing: what is in a folder is there with it (Rooted), nothing stood   *)
(* where the plan puts its names (PlacedAnew), and what is half written is *)
(* a file (Arriving), so that neither making a path nor taking it away     *)
(* touches what was there.                                                 *)
(***************************************************************************)
EXTENDS Together, Sequences, SequenceTheorems, WellFoundedInduction, TLAPS

\* The keys there ever are.
Numbers == 0 .. MaxKey

\* An end with a handshake: it has the other's key.
Shaken == {"compare", "said", "paired"}

PairingTyped ==
  /\ key \in [PA!Machines -> Numbers]
  /\ peers \in [PA!Machines -> SUBSET Numbers]
  /\ window \in [PA!Machines -> (SUBSET Numbers) \cup {Nothing}]
  /\ read \in [PA!Machines -> SUBSET Numbers]
  /\ tool \in [PA!Machines -> {"window", "command"}]
  /\ step \in [PA!Machines -> {"idle", "listening", "reaching"} \cup Shaken]
  /\ met \in [PA!Machines -> Numbers \cup {Nothing}]
  /\ sent \in [PA!Machines -> {"accept", "reject", Nothing}]
  /\ daemon \in [PA!Machines -> (SUBSET Numbers) \cup {Nothing}]
  /\ link \in {"none", "secured", "session"}
  /\ yes \in [PA!Machines -> SUBSET (Numbers \X Numbers)]

\* Two ends that both have a handshake have the same one.
SameHandshake ==
  \A m \in PA!Machines : step[m] \in Shaken =>
    /\ met[m] \in Numbers
    /\ step[PA!Other(m)] \in Shaken => met[m] = key[PA!Other(m)]

\* An answer that was sent was meant: by this end, and by the other one for the
\* key this end has met, whatever key that machine has now.
Meant ==
  \A m \in PA!Machines :
    /\ step[m] \in {"said", "paired"} => <<key[m], met[m]>> \in yes[m]
    /\ step[m] \in Shaken /\ sent[PA!Other(m)] = "accept" => <<met[m], key[m]>> \in yes[PA!Other(m)]
    /\ step[m] = "paired" => PA!Agreed(m, met[m])

\* What the command read when it began is as good as the file was, and whoever
\* pairs in a window has one.
ReadWell ==
  \A m \in PA!Machines :
    /\ \A k \in read[m] : PA!Agreed(m, k)
    /\ step[m] = "idle" => read[m] = {}
    /\ step[m] # "idle" /\ tool[m] = "window" => window[m] # Nothing

\* So is what a daemon read when it started.
DaemonsKnow ==
  /\ \A m \in PA!Machines : daemon[m] # Nothing => \A k \in daemon[m] : PA!Agreed(m, k)
  /\ link # "none" => /\ daemon[PairServer] # Nothing /\ daemon[PairClient] # Nothing
                      /\ PA!Agreed(PairServer, key[PairClient])

Paired == PairingTyped /\ SameHandshake /\ Meant /\ ReadWell /\ DaemonsKnow /\ PA!PairedByBoth

-----------------------------------------------------------------------------
(* The two machines, and what stands when nothing it rests on moves.       *)

\* The book of a machine that has one.
LEMMA NoBook == ASSUME NEW book \in SUBSET Numbers PROVE book # Nothing
BY NothingAssumption DEF Numbers

\* There are two machines, each the other one's other.
LEMMA TwoMachines ==
  ASSUME NEW m \in PA!Machines
  PROVE  /\ PA!Other(m) \in PA!Machines /\ PA!Other(m) # m /\ PA!Other(PA!Other(m)) = m
         /\ PA!Machines = {m, PA!Other(m)}
BY PairAssumption DEF PA!Machines, PA!Other

\* What was agreed stays agreed while the machine keeps its key: nobody takes a
\* yes back, and the other machine's new key is another one.
LEMMA AgreedStays ==
  ASSUME NEW m \in PA!Machines, NEW k, PA!Agreed(m, k),
         key'[m] = key[m], yes[m] \subseteq yes'[m], yes[PA!Other(m)] \subseteq yes'[PA!Other(m)]
  PROVE  PA!Agreed(m, k)'
BY DEF PA!Agreed

\* A step that is none of a handshake's.
LEMMA HandshakeStays ==
  ASSUME SameHandshake, Meant, UNCHANGED <<key, step, met, sent, yes>>
  PROVE  SameHandshake' /\ Meant'
BY DEF SameHandshake, Meant, PA!Agreed

\* A step of an end that leaves the command's copy alone.
LEMMA ReadStays ==
  ASSUME ReadWell, UNCHANGED <<key, step, tool, read, window, yes>>
  PROVE  ReadWell'
BY DEF ReadWell, PA!Agreed

\* A step that no daemon takes.
LEMMA DaemonsStay ==
  ASSUME DaemonsKnow, UNCHANGED <<key, PA!daemons, yes>>
  PROVE  DaemonsKnow'
BY DEF DaemonsKnow, PA!daemons, PA!Agreed

\* A step that writes nobody down.
LEMMA BooksStay ==
  ASSUME PA!PairedByBoth, UNCHANGED <<key, peers, window, link, yes>>
  PROVE  PA!PairedByBoth'
BY DEF PA!PairedByBoth, PA!Agreed

-----------------------------------------------------------------------------
(* The handshake.                                                          *)

\* An end whose handshake is over has nothing left that it could go wrong about.
\* The other end keeps what it has heard.
LEMMA OverKeeps ==
  ASSUME Paired, NEW m \in PA!Machines, PA!Over(m),
         UNCHANGED <<key, yes>>, sent' = sent \/ sent' = [sent EXCEPT ![m] = "reject"],
         UNCHANGED window \/ window' = [window EXCEPT ![m] = Nothing] \/ window'[m] # Nothing,
         \A n \in PA!Machines \ {m} : window'[n] = window[n]
  PROVE  SameHandshake' /\ Meant' /\ ReadWell'
<1>1. /\ step' \in [PA!Machines -> {"idle", "listening", "reaching"} \cup Shaken]
      /\ met' \in [PA!Machines -> Numbers \cup {Nothing}]
      /\ step'[m] = "idle" /\ read'[m] = {}
      /\ \A n \in PA!Machines \ {m} : /\ step'[n] = step[n] /\ met'[n] = met[n]
                                      /\ tool'[n] = tool[n] /\ read'[n] = read[n]
  BY DEF Paired, PairingTyped, PA!Over
<1>2. \A n \in PA!Machines : sent'[n] = "accept" => sent[n] = "accept"
  BY DEF Paired, PairingTyped
<1>3. step'[m] \notin Shaken
  BY <1>1 DEF Shaken
<1>4. SameHandshake'
  BY <1>1, <1>3, TwoMachines DEF Paired, SameHandshake
<1>5. Meant'
  <2> SUFFICES ASSUME NEW n \in PA!Machines
               PROVE  /\ step'[n] \in {"said", "paired"} => <<key[n], met'[n]>> \in yes[n]
                      /\ step'[n] \in Shaken /\ sent'[PA!Other(n)] = "accept"
                           => <<met'[n], key[n]>> \in yes[PA!Other(n)]
                      /\ step'[n] = "paired" => PA!Agreed(n, met'[n])
    BY DEF Meant, PA!Agreed
  <2>1. CASE n = m
    BY <2>1, <1>1, <1>3
  <2>2. CASE n # m
    BY <2>2, <1>1, <1>2, TwoMachines DEF Paired, Meant
  <2> QED
    BY <2>1, <2>2
<1>6. ReadWell'
  BY <1>1 DEF Paired, ReadWell, PA!Agreed
<1> QED
  BY <1>4, <1>5, <1>6

\* The person leaves, or the link does: nothing is written down.
LEMMA WithdrawKeeps ==
  ASSUME Paired, NEW m \in PA!Machines, PA!Withdraw(m)
  PROVE  Paired'
<1>1. PairingTyped'
  BY DEF Paired, PairingTyped, PA!Withdraw, PA!Drop, PA!Over, PA!daemons
<1>2. SameHandshake' /\ Meant' /\ ReadWell'
  BY OverKeeps DEF PA!Withdraw, PA!Drop
<1>3. DaemonsKnow' /\ PA!PairedByBoth'
  BY DaemonsStay, BooksStay DEF Paired, PA!Withdraw, PA!daemons
<1> QED
  BY <1>1, <1>2, <1>3 DEF Paired

\* An end begins: the command reads the file, of which every peer was agreed to.
LEMMA BeginKeeps ==
  ASSUME Paired, NEW m \in PA!Machines, NEW with \in {"window", "command"},
         NEW how \in {"listening", "reaching"}, PA!Begin(m, with, how)
  PROVE  Paired'
<1>1. PairingTyped'
  BY DEF Paired, PairingTyped, PA!Begin, PA!daemons
<1>2. how \notin Shaken /\ \A n \in PA!Machines \ {m} : step'[n] = step[n]
  BY DEF Paired, PairingTyped, PA!Begin, Shaken
<1>3. step'[m] = how
  BY DEF Paired, PairingTyped, PA!Begin
<1>4. SameHandshake' /\ Meant'
  BY <1>2, <1>3 DEF Paired, SameHandshake, Meant, PA!Agreed, PA!Begin, Shaken
<1>5. ReadWell'
  BY DEF Paired, PairingTyped, ReadWell, PA!PairedByBoth, PA!Agreed, PA!Begin
<1>6. DaemonsKnow' /\ PA!PairedByBoth'
  BY DaemonsStay, BooksStay DEF Paired, PA!Begin, PA!daemons
<1> QED
  BY <1>1, <1>4, <1>5, <1>6 DEF Paired

\* The two meet: each has the other's key of now, and nobody has answered.
LEMMA MeetKeeps ==
  ASSUME Paired, PA!Meet
  PROVE  Paired'
<1>1. PairingTyped'
  BY TwoMachines DEF Paired, PairingTyped, PA!Meet, Shaken, PA!daemons
<1>2. SameHandshake' /\ Meant'
  BY TwoMachines, NothingAssumption DEF Paired, PairingTyped, SameHandshake, Meant, PA!Meet
<1>3. \A m \in PA!Machines : step[m] # "idle"
  BY DEF PA!Meet
<1>4. ReadWell'
  BY <1>3 DEF Paired, ReadWell, PA!Agreed, PA!Meet
<1>5. DaemonsKnow' /\ PA!PairedByBoth'
  BY DaemonsStay, BooksStay DEF Paired, PA!Meet, PA!daemons
<1> QED
  BY <1>1, <1>2, <1>4, <1>5 DEF Paired

\* Yes: what is sent is meant for the key the other end has, if it is still
\* there, and that end has met this one's.
LEMMA AcceptKeeps ==
  ASSUME Paired, NEW m \in PA!Machines, PA!Accept(m)
  PROVE  Paired'
<1>1. step[m] = "compare" /\ step[m] \in Shaken /\ met[m] \in Numbers
  BY DEF Paired, SameHandshake, PA!Accept, Shaken
<1>2. PairingTyped'
  BY <1>1 DEF Paired, PairingTyped, PA!Accept, Shaken, PA!daemons
<1>3. /\ key' = key /\ met' = met
      /\ step'[m] = "said" /\ sent'[m] = "accept" /\ <<key[m], met[m]>> \in yes'[m]
      /\ \A n \in PA!Machines : yes[n] \subseteq yes'[n]
      /\ \A n \in PA!Machines \ {m} : step'[n] = step[n] /\ sent'[n] = sent[n]
  BY DEF Paired, PairingTyped, PA!Accept
<1>4. SameHandshake'
  BY <1>1, <1>3, TwoMachines DEF Paired, SameHandshake, Shaken
<1>5. Meant'
  <2> SUFFICES ASSUME NEW n \in PA!Machines
               PROVE  /\ step'[n] \in {"said", "paired"} => <<key[n], met[n]>> \in yes'[n]
                      /\ step'[n] \in Shaken /\ sent'[PA!Other(n)] = "accept"
                           => <<met[n], key[n]>> \in yes'[PA!Other(n)]
                      /\ step'[n] = "paired" => PA!Agreed(n, met[n])'
    BY <1>3 DEF Meant, PA!Agreed
  <2>1. CASE n = m
    BY <2>1, <1>1, <1>3, TwoMachines DEF Paired, Meant
  <2>2. CASE n # m
    <3>1. PA!Other(n) = m /\ PA!Other(m) = n
      BY <2>2, TwoMachines
    <3>2. step[n] \in Shaken => met[m] = key[n] /\ met[n] = key[m]
      BY <3>1, <1>1 DEF Paired, SameHandshake
    <3>3. step'[n] = "paired" => PA!Agreed(n, met[n])'
      BY <2>2, <1>3, AgreedStays, TwoMachines DEF Paired, Meant
    <3> QED
      BY <2>2, <3>1, <3>2, <3>3, <1>3 DEF Paired, Meant
  <2> QED
    BY <2>1, <2>2
<1>6. ReadWell' /\ DaemonsKnow' /\ PA!PairedByBoth'
  BY <1>1, <1>3, AgreedStays, TwoMachines
     DEF Paired, PairingTyped, ReadWell, DaemonsKnow, PA!PairedByBoth, PA!Accept, PA!daemons, PA!Machines
<1> QED
  BY <1>2, <1>4, <1>5, <1>6 DEF Paired

\* No: nothing is left of it here.
LEMMA RejectKeeps ==
  ASSUME Paired, NEW m \in PA!Machines, PA!Reject(m)
  PROVE  Paired'
<1>1. PairingTyped'
  BY DEF Paired, PairingTyped, PA!Reject, PA!Over, PA!daemons
<1>2. SameHandshake' /\ Meant' /\ ReadWell'
  BY OverKeeps DEF PA!Reject
<1>3. DaemonsKnow' /\ PA!PairedByBoth'
  BY DaemonsStay, BooksStay DEF Paired, PA!Reject, PA!daemons
<1> QED
  BY <1>1, <1>2, <1>3 DEF Paired

\* The reply is read: only a yes makes a peer, and there was a yes here too.
LEMMA ConcludeKeeps ==
  ASSUME Paired, NEW m \in PA!Machines, PA!Conclude(m)
  PROVE  Paired'
<1>1. PairingTyped'
  BY DEF Paired, PairingTyped, PA!Conclude, PA!Over, Shaken, PA!daemons
<1>2. SameHandshake' /\ Meant' /\ ReadWell'
  <2>1. CASE PA!Accepted(m)
    <3>1. PA!Agreed(m, met[m])
      BY <2>1 DEF Paired, Meant, PA!Conclude, PA!Accepted, PA!Agreed, Shaken
    <3>2. /\ step'[m] = "paired" /\ step[m] = "said"
          /\ \A n \in PA!Machines \ {m} : step'[n] = step[n]
      BY <2>1 DEF Paired, PairingTyped, PA!Conclude
    <3>3. UNCHANGED <<key, met, sent, yes, tool, read, window>>
      BY <2>1 DEF PA!Conclude
    <3>4. \A n \in PA!Machines : (step'[n] \in Shaken <=> step[n] \in Shaken)
      BY <3>2 DEF Shaken
    <3>5. SameHandshake'
      BY <3>3, <3>4, TwoMachines DEF Paired, SameHandshake
    <3>6. Meant'
      BY <3>1, <3>2, <3>3, <3>4 DEF Paired, Meant, PA!Agreed
    <3>7. ReadWell'
      BY <3>2, <3>3 DEF Paired, ReadWell, PA!Agreed
    <3> QED
      BY <3>5, <3>6, <3>7
  <2>2. CASE ~PA!Accepted(m)
    BY <2>2, OverKeeps DEF PA!Conclude
  <2> QED
    BY <2>1, <2>2
<1>3. DaemonsKnow' /\ PA!PairedByBoth'
  BY DaemonsStay, BooksStay DEF Paired, PA!Conclude, PA!daemons
<1> QED
  BY <1>1, <1>2, <1>3 DEF Paired

-----------------------------------------------------------------------------
(* What is written down.                                                   *)

\* The peer is written down beside whom this end read of, which may be more
\* than the file has by now: all of them were agreed to.
LEMMA SaveKeeps ==
  ASSUME Paired, NEW m \in PA!Machines, PA!Save(m)
  PROVE  Paired'
<1>1. step[m] = "paired" /\ met[m] \in Numbers /\ PA!Agreed(m, met[m])
  BY DEF Paired, SameHandshake, Meant, PA!Save, Shaken
<1>2. tool[m] # "command" => /\ tool[m] = "window" /\ window[m] # Nothing
                             /\ window[m] \in SUBSET Numbers
  BY <1>1 DEF Paired, PairingTyped, ReadWell
<1>3. /\ peers'[m] \in SUBSET Numbers /\ \A k \in peers'[m] : PA!Agreed(m, k)
      /\ window'[m] # Nothing => \A k \in window'[m] : PA!Agreed(m, k)
      /\ window'[m] \in (SUBSET Numbers) \cup {Nothing}
      /\ \A n \in PA!Machines \ {m} : peers'[n] = peers[n] /\ window'[n] = window[n]
      /\ UNCHANGED window \/ window'[m] # Nothing
  <2>1. CASE tool[m] = "command"
    <3>1. peers'[m] = read[m] \cup {met[m]} /\ window' = window
      BY <2>1 DEF Paired, PairingTyped, PA!Save
    <3>2. \A n \in PA!Machines \ {m} : peers'[n] = peers[n]
      BY <2>1 DEF Paired, PairingTyped, PA!Save
    <3> QED
      BY <3>1, <3>2, <1>1 DEF Paired, PairingTyped, ReadWell, PA!PairedByBoth
  <2>2. CASE tool[m] # "command"
    <3>1. window'[m] = window[m] \cup {met[m]} /\ peers'[m] = window'[m]
      BY <2>2 DEF Paired, PairingTyped, PA!Save
    <3>2. \A n \in PA!Machines \ {m} : peers'[n] = peers[n] /\ window'[n] = window[n]
      BY <2>2 DEF Paired, PairingTyped, PA!Save
    <3>3. window'[m] \in SUBSET Numbers
      BY <3>1, <1>1, <1>2, <2>2
    <3> QED
      BY <3>1, <3>2, <3>3, <1>1, <1>2, <2>2, NoBook DEF Paired, PA!PairedByBoth
  <2> QED
    BY <2>1, <2>2
<1>4. /\ peers' \in [PA!Machines -> SUBSET Numbers]
      /\ window' \in [PA!Machines -> (SUBSET Numbers) \cup {Nothing}]
  <2>1. /\ peers' = [n \in PA!Machines |-> peers'[n]]
        /\ window' = [n \in PA!Machines |-> window'[n]]
    BY DEF Paired, PairingTyped, PA!Save
  <2> QED
    BY <2>1, <1>3 DEF Paired, PairingTyped
<1>5. PairingTyped'
  BY <1>4 DEF Paired, PairingTyped, PA!Save, PA!Over, PA!daemons
<1>6. SameHandshake' /\ Meant' /\ ReadWell'
  BY <1>3, OverKeeps DEF PA!Save
<1>7. DaemonsKnow'
  BY DaemonsStay DEF Paired, PA!Save
<1>8. PA!PairedByBoth'
  BY <1>3 DEF Paired, PA!PairedByBoth, PA!Agreed, PA!Save, PA!daemons
<1> QED
  BY <1>5, <1>6, <1>7, <1>8 DEF Paired

\* The window takes the file as it is.
LEMMA OpenWindowKeeps ==
  ASSUME Paired, NEW m \in PA!Machines, PA!OpenWindow(m)
  PROVE  Paired'
<1>1. PairingTyped'
  BY DEF Paired, PairingTyped, PA!OpenWindow, PA!ends, PA!daemons
<1>2. SameHandshake' /\ Meant' /\ DaemonsKnow'
  BY HandshakeStays, DaemonsStay DEF Paired, PA!OpenWindow, PA!ends
<1>3. ReadWell'
  BY NoBook DEF Paired, PairingTyped, ReadWell, PA!Agreed, PA!OpenWindow, PA!ends
<1>4. PA!PairedByBoth'
  BY DEF Paired, PairingTyped, PA!PairedByBoth, PA!Agreed, PA!OpenWindow, PA!daemons
<1> QED
  BY <1>1, <1>2, <1>3, <1>4 DEF Paired

\* The window goes, and what it was pairing with it.
LEMMA CloseWindowKeeps ==
  ASSUME Paired, NEW m \in PA!Machines, PA!CloseWindow(m)
  PROVE  Paired'
<1>1. /\ window' \in [PA!Machines -> (SUBSET Numbers) \cup {Nothing}] /\ window'[m] = Nothing
      /\ \A n \in PA!Machines \ {m} : window'[n] = window[n]
  BY DEF Paired, PairingTyped, PA!CloseWindow
<1>2. PairingTyped' /\ SameHandshake' /\ Meant' /\ ReadWell'
  <2>1. CASE tool[m] = "window" /\ step[m] # "idle"
    <3>1. PA!Over(m) /\ UNCHANGED <<sent, key, yes, peers, daemon, link>>
      BY <2>1 DEF PA!CloseWindow, PA!Drop, PA!daemons
    <3>2. PairingTyped'
      BY <1>1, <3>1 DEF Paired, PairingTyped, PA!Over
    <3>3. window' = [window EXCEPT ![m] = Nothing]
      BY DEF PA!CloseWindow
    <3> QED
      BY <1>1, <3>1, <3>2, <3>3, OverKeeps
  <2>2. CASE ~(tool[m] = "window" /\ step[m] # "idle")
    <3>1. UNCHANGED <<PA!ends, key, yes, peers, daemon, link>>
      BY <2>2 DEF PA!CloseWindow, PA!daemons
    <3>2. PairingTyped'
      BY <1>1, <3>1 DEF Paired, PairingTyped, PA!ends
    <3>3. SameHandshake' /\ Meant'
      BY <3>1, HandshakeStays DEF Paired, PA!ends
    <3>4. ReadWell'
      BY <2>2, <1>1, <3>1 DEF Paired, ReadWell, PA!Agreed, PA!ends
    <3> QED
      BY <3>2, <3>3, <3>4
  <2> QED
    BY <2>1, <2>2
<1>3. DaemonsKnow'
  BY DaemonsStay DEF Paired, PA!CloseWindow
<1>4. PA!PairedByBoth'
  BY <1>1 DEF Paired, PA!PairedByBoth, PA!Agreed, PA!CloseWindow, PA!daemons
<1> QED
  BY <1>2, <1>3, <1>4 DEF Paired

\* A peer is forgotten by command: the copies stay as they are.
LEMMA ForgetByCommandKeeps ==
  ASSUME Paired, NEW m \in PA!Machines, NEW k \in 0..MaxKey, PA!ForgetByCommand(m, k)
  PROVE  Paired'
<1>1. PairingTyped'
  BY DEF Paired, PairingTyped, PA!ForgetByCommand, PA!ends, PA!daemons
<1>2. SameHandshake' /\ Meant' /\ ReadWell' /\ DaemonsKnow'
  BY HandshakeStays, ReadStays, DaemonsStay DEF Paired, PA!ForgetByCommand, PA!ends
<1>3. PA!PairedByBoth'
  BY DEF Paired, PairingTyped, PA!PairedByBoth, PA!Agreed, PA!ForgetByCommand, PA!daemons
<1> QED
  BY <1>1, <1>2, <1>3 DEF Paired

\* A peer is forgotten in the window, which writes back all else it has.
LEMMA ForgetInWindowKeeps ==
  ASSUME Paired, NEW m \in PA!Machines, NEW k \in 0..MaxKey, PA!ForgetInWindow(m, k)
  PROVE  Paired'
<1>1. /\ window[m] # Nothing /\ window[m] \in SUBSET Numbers
      /\ window'[m] = window[m] \ {k} /\ peers'[m] = window[m] \ {k}
      /\ \A n \in PA!Machines \ {m} : window'[n] = window[n] /\ peers'[n] = peers[n]
  BY DEF Paired, PairingTyped, PA!ForgetInWindow
<1>2. window'[m] \in SUBSET Numbers /\ window'[m] # Nothing
  BY <1>1, NoBook
<1>3. /\ peers' \in [PA!Machines -> SUBSET Numbers]
      /\ window' \in [PA!Machines -> (SUBSET Numbers) \cup {Nothing}]
  <2>1. /\ peers' = [n \in PA!Machines |-> peers'[n]]
        /\ window' = [n \in PA!Machines |-> window'[n]]
    BY DEF Paired, PairingTyped, PA!ForgetInWindow
  <2> QED
    BY <2>1, <1>1, <1>2 DEF Paired, PairingTyped
<1>4. PairingTyped'
  BY <1>3 DEF Paired, PairingTyped, PA!ForgetInWindow, PA!ends, PA!daemons
<1>5. SameHandshake' /\ Meant' /\ DaemonsKnow'
  BY HandshakeStays, DaemonsStay DEF Paired, PA!ForgetInWindow, PA!ends
<1>6. ReadWell'
  BY <1>1, <1>2 DEF Paired, ReadWell, PA!Agreed, PA!ForgetInWindow, PA!ends
<1>7. PA!PairedByBoth'
  BY <1>1 DEF Paired, PA!PairedByBoth, PA!Agreed, PA!ForgetInWindow, PA!daemons
<1> QED
  BY <1>4, <1>5, <1>6, <1>7 DEF Paired

\* A machine set up from nothing has a key nobody said yes to, and no peers, no
\* copy of them and no daemon that could go by the old one's.
LEMMA SetUpAgainKeeps ==
  ASSUME Paired, NEW m \in PA!Machines, PA!SetUpAgain(m)
  PROVE  Paired'
<1>1. PairingTyped'
  <2>1. key[m] + 1 \in Numbers
    <3>1. m = PairServer \/ m = PairClient
      BY DEF PA!Machines
    <3>2. key[PairServer] \in Numbers /\ key[PairClient] \in Numbers
      BY DEF Paired, PairingTyped, PA!Machines
    <3> QED
      BY <3>1, <3>2, PairAssumption DEF Numbers, PA!SetUpAgain
  <2>2. key' \in [PA!Machines -> Numbers]
    BY <2>1 DEF Paired, PairingTyped, PA!SetUpAgain
  <2> QED
    BY <2>2 DEF Paired, PairingTyped, PA!SetUpAgain, PA!ends, PA!daemons
<1>2. /\ step[m] = "idle" /\ window[m] = Nothing /\ daemon[m] = Nothing
      /\ peers'[m] = {} /\ read[m] = {}
      /\ \A n \in PA!Machines \ {m} : key'[n] = key[n] /\ peers'[n] = peers[n]
      /\ UNCHANGED <<window, step, met, sent, tool, read, daemon, link, yes>>
  BY DEF Paired, PairingTyped, ReadWell, PA!SetUpAgain, PA!ends, PA!daemons
<1>3. step[m] \notin Shaken
  BY <1>2 DEF Shaken
<1>4. SameHandshake'
  BY <1>2, <1>3, TwoMachines DEF Paired, SameHandshake
<1>5. Meant'
  BY <1>2, <1>3 DEF Paired, Meant, PA!Agreed
<1>6. ReadWell'
  BY <1>2 DEF Paired, ReadWell, PA!Agreed
<1>7. link = "none"
  BY <1>2 DEF Paired, DaemonsKnow, PA!Machines
<1>8. DaemonsKnow' /\ PA!PairedByBoth'
  BY <1>2, <1>7 DEF Paired, DaemonsKnow, PA!PairedByBoth, PA!Agreed
<1> QED
  BY <1>1, <1>4, <1>5, <1>6, <1>8 DEF Paired

-----------------------------------------------------------------------------
(* The daemons.                                                            *)

\* A daemon goes by the file as it finds it.
LEMMA StartKeeps ==
  ASSUME Paired, NEW m \in PA!Machines, PA!Start(m)
  PROVE  Paired'
<1>1. PICK known \in IF m = PairServer THEN {peers[m]} ELSE {{k} : k \in peers[m]} :
        daemon' = [daemon EXCEPT ![m] = known]
  BY DEF PA!Start
<1>2. known \in SUBSET Numbers /\ \A k \in known : PA!Agreed(m, k)
  BY DEF Paired, PairingTyped, PA!PairedByBoth
<1>3. PairingTyped'
  BY <1>1, <1>2 DEF Paired, PairingTyped, PA!Start, PA!ends
<1>4. DaemonsKnow'
  BY <1>1, <1>2 DEF Paired, PairingTyped, DaemonsKnow, PA!Agreed, PA!Start, PA!Machines
<1>5. SameHandshake' /\ Meant' /\ ReadWell' /\ PA!PairedByBoth'
  BY HandshakeStays, ReadStays, BooksStay DEF Paired, PA!Start, PA!ends
<1> QED
  BY <1>3, <1>4, <1>5 DEF Paired

\* A daemon that stops, and a link that does.
LEMMA StopKeeps ==
  ASSUME Paired, NEW m \in PA!Machines, PA!Stop(m)
  PROVE  Paired'
<1>1. daemon' \in [PA!Machines -> (SUBSET Numbers) \cup {Nothing}]
  BY DEF Paired, PairingTyped, PA!Stop
<1>2. PairingTyped'
  BY <1>1 DEF Paired, PairingTyped, PA!Stop, PA!ends
<1>3. DaemonsKnow' /\ PA!PairedByBoth'
  BY DEF Paired, PairingTyped, DaemonsKnow, PA!PairedByBoth, PA!Agreed, PA!Stop
<1>4. SameHandshake' /\ Meant' /\ ReadWell'
  BY HandshakeStays, ReadStays DEF Paired, PA!Stop, PA!ends
<1> QED
  BY <1>2, <1>3, <1>4 DEF Paired

\* The server admits the key of a machine its file had, and a session is only
\* what becomes of a link so secured.
LEMMA LinkKeeps ==
  ASSUME Paired, PA!Connect \/ PA!Introduce \/ PA!Lost
  PROVE  Paired'
<1>1. PairingTyped'
  BY DEF Paired, PairingTyped, PA!Connect, PA!Introduce, PA!Lost, PA!ends
<1>2. DaemonsKnow'
  BY DEF Paired, DaemonsKnow, PA!Admitted, PA!Agreed, PA!Machines, PA!Connect, PA!Introduce, PA!Lost
<1>3. PA!PairedByBoth'
  BY DEF Paired, DaemonsKnow, PA!PairedByBoth, PA!Agreed, PA!Connect, PA!Introduce, PA!Lost
<1>4. SameHandshake' /\ Meant' /\ ReadWell'
  BY HandshakeStays, ReadStays DEF Paired, PA!Connect, PA!Introduce, PA!Lost, PA!ends
<1> QED
  BY <1>1, <1>2, <1>3, <1>4 DEF Paired

-----------------------------------------------------------------------------
\* Every machine begins alone, with nobody paired and nobody asked.
LEMMA PairingInit == ASSUME PA!Init PROVE Paired
<1>1. 0 \in Numbers
  BY PairAssumption DEF Numbers
<1> QED
  BY <1>1 DEF PA!Init, Paired, PairingTyped, SameHandshake, Meant, ReadWell, DaemonsKnow,
     PA!PairedByBoth, Shaken

\* Every step of the commands, of the daemons and of who sits there keeps it.
LEMMA PairingKeeps == ASSUME Paired, [PA!Next]_(PA!vars) PROVE Paired'
<1>1. CASE UNCHANGED PA!vars
  <2>1. PairingTyped'
    BY <1>1 DEF Paired, PairingTyped, PA!vars, PA!ends, PA!daemons
  <2> QED
    BY <1>1, <2>1, HandshakeStays, ReadStays, DaemonsStay, BooksStay
       DEF Paired, PA!vars, PA!ends, PA!daemons
<1>2. ASSUME NEW m \in PA!Machines,
             \/ PA!OpenWindow(m) \/ PA!CloseWindow(m) \/ PA!Withdraw(m)
             \/ PA!Accept(m) \/ PA!Reject(m) \/ PA!Conclude(m) \/ PA!Save(m)
             \/ PA!SetUpAgain(m) \/ PA!Start(m) \/ PA!Stop(m)
      PROVE  Paired'
  BY <1>2, OpenWindowKeeps, CloseWindowKeeps, WithdrawKeeps, AcceptKeeps, RejectKeeps,
     ConcludeKeeps, SaveKeeps, SetUpAgainKeeps, StartKeeps, StopKeeps
<1> QED
  BY <1>1, <1>2, BeginKeeps, ForgetByCommandKeeps, ForgetInWindowKeeps, MeetKeeps, LinkKeeps
     DEF PA!Next

\* A machine is written down, in the file or in an open window, and a session
\* opened, only when the people at both ends said yes to one handshake between the
\* keys the two machines have: however often machines are set up again while an
\* answer is on its way, and whichever of the three copies of peers.toml is old.
THEOREM PairedAlwaysByBoth == PA!Spec => []PairedByBoth
<1>1. PA!Init => Paired
  BY PairingInit
<1>2. Paired /\ [PA!Next]_(PA!vars) => Paired'
  BY PairingKeeps
<1>3. Paired => PairedByBoth
  BY DEF Paired, PairedByBoth
<1> QED
  BY <1>1, <1>2, <1>3, PTL DEF PA!Spec

-----------------------------------------------------------------------------
(* Installing: what the machine is arranged for.                           *)

\* The processes there can be.
Processes == [how : {"task", "service", "hand", Nothing}, place : {"machine", "profile"},
              at : {"begun", "checked", "up", "gone"}]

\* What is registered, what runs, and what the commands still have to do.
InstallingTyped ==
  /\ task \in BOOLEAN /\ service \in BOOLEAN
  /\ process \in [IT!Pids -> Processes]
  /\ unasked \in BOOLEAN /\ overtaken \in BOOLEAN
  /\ command \in [Consoles -> IT!Commanded \cup {Nothing}]

\* A service runs only while it is registered.
ServiceIsRegistered == IT!Running("service") # {} => service

\* In a list, the one thing is never done but after the other, and whoever takes the
\* task off the list stops everyone right after.
Before(todo, first, then) ==
  \A i \in 1 .. Len(todo) : todo[i] = then => \E j \in 1 .. (i - 1) : todo[j] = first
Sound(todo) ==
  \A i \in 1 .. Len(todo) :
    todo[i] = "unregister task" => i + 1 \in 1 .. Len(todo) /\ todo[i + 1] = "stop others"

\* Whoever takes the task off the list stops what runs next.
StopsNext == \A s \in Consoles : command[s] # Nothing => Sound(command[s].todo)

\* Whoever is to register the one, while the other is on the list, takes that off first.
OtherGoesFirst ==
  \A s \in Consoles : command[s] # Nothing =>
    /\ service => ~IT!LeavesService(command[s])
    /\ task => ~IT!LeavesTask(command[s])

\* The task's daemon outlives the task only until it is stopped, or kept from being.
Outlives ==
  ~task /\ ~(IT!Running("task") \subseteq spared) => ~service /\ \E s \in Consoles : IT!YetToStop(s)

\* As long as PowerShell answered what was there, and no command overtook another, the
\* one arrangement is made of the three together: what is registered, what the
\* commands that run will still register, and what is alive although it is not
\* registered any more.
Arranged ==
  /\ InstallingTyped
  /\ ServiceIsRegistered
  /\ StopsNext
  /\ ~unasked /\ ~overtaken => /\ ~(task /\ service)
                               /\ OtherGoesFirst
                               /\ Outlives

\* Whoever is alive of the task is so while the task is registered, or while the
\* service is not, or was spared: either way the service has nobody beside another.
LEMMA ArrangedSuffices == Arranged => IT!NeverBoth /\ IT!OneArrangementRuns
<1> SUFFICES ASSUME Arranged, ~unasked, ~overtaken
             PROVE  /\ ~(task /\ service)
                    /\ \A p, q \in IT!Live : {process[p].how, process[q].how} = {"task", "service"}
                                               => {p, q} \cap spared # {}
  BY DEF IT!NeverBoth, IT!OneArrangementRuns
<1>1. ASSUME NEW p \in IT!Live, NEW q \in IT!Live, process[p].how = "task", process[q].how = "service"
      PROVE  p \in spared
  <2>1. p \in IT!Running("task") /\ q \in IT!Running("service")
    BY <1>1 DEF IT!Live, IT!Running
  <2>2. service /\ ~task
    BY <2>1 DEF Arranged, ServiceIsRegistered
  <2> QED
    BY <2>1, <2>2 DEF Arranged, Outlives
<1>2. ASSUME NEW p \in IT!Live, NEW q \in IT!Live, {process[p].how, process[q].how} = {"task", "service"}
      PROVE  {p, q} \cap spared # {}
  <2>1. \/ process[p].how = "task" /\ process[q].how = "service"
        \/ process[q].how = "task" /\ process[p].how = "service"
    BY <1>2
  <2> QED
    BY <1>1, <2>1
<1> QED
  BY <1>2 DEF Arranged

\* The service is not registered, and nobody runs.
LEMMA ArrangedInit == IT!Init => Arranged
<1> SUFFICES ASSUME IT!Init PROVE Arranged
  OBVIOUS
<1>1. InstallingTyped
  <2>1. IT!NoProcess \in Processes
    BY DEF IT!NoProcess, Processes
  <2>2. process \in [IT!Pids -> Processes]
    BY <2>1 DEF IT!Init
  <2> QED
    BY <2>2 DEF IT!Init, InstallingTyped
<1>2. IT!Running("task") = {} /\ IT!Running("service") = {}
  BY DEF IT!Init, IT!Running, IT!NoProcess
<1>3. \A s \in Consoles : command[s] = Nothing
  BY DEF IT!Init
<1>4. ServiceIsRegistered /\ Outlives /\ ~service
  BY <1>2 DEF IT!Init, ServiceIsRegistered, Outlives
<1>5. StopsNext /\ OtherGoesFirst
  BY <1>3 DEF StopsNext, OtherGoesFirst
<1> QED
  BY <1>1, <1>4, <1>5 DEF Arranged

\* A command that runs has something to do.
LEMMA CommandedHas ==
  ASSUME NEW c \in IT!Commanded
  PROVE  /\ c.todo \in Seq(IT!Steps) /\ c.todo # <<>> /\ Len(c.todo) \in Nat /\ Len(c.todo) # 0
         /\ c.raised \in BOOLEAN /\ c # Nothing
<1>1. c.todo \in Seq(IT!Steps) /\ c.todo # <<>> /\ c.raised \in BOOLEAN
  BY DEF IT!Commanded
<1>2. c # Nothing
  BY NothingAssumption
<1> HIDE DEF IT!Steps
<1>3. PICK t \in Seq(IT!Steps) : t = c.todo
  BY <1>1
<1>4. Len(t) \in Nat /\ (Len(t) = 0 => t = <<>>)
  OBVIOUS
<1> QED
  BY <1>1, <1>2, <1>3, <1>4

\* What is left to do after a step: one thing less, or nothing.
Follows(c, d) ==
  \/ d = Nothing
  \/ /\ d \in IT!Commanded
     /\ d.raised = c.raised
     /\ Len(d.todo) = Len(c.todo) - 1
     /\ \A i \in 1 .. Len(d.todo) : d.todo[i] = c.todo[i + 1]

\* Whatever a command still has to do after a step, this comes of it.
LEMMA RestFollows == ASSUME NEW c \in IT!Commanded PROVE Follows(c, IT!Rest(c))
<1>1. CASE Len(c.todo) = 1
  BY <1>1 DEF Follows, IT!Rest
<1>2. CASE Len(c.todo) # 1
  <2>1. PICK t \in Seq(IT!Steps) : t = c.todo /\ t # <<>>
    BY CommandedHas
  <2> HIDE DEF IT!Steps
  <2>2. Len(t) \in Nat /\ Len(t) # 0 /\ Len(t) # 1
    BY <1>2, <2>1
  <2>3. /\ Tail(t) \in Seq(IT!Steps) /\ Len(Tail(t)) = Len(t) - 1
        /\ \A i \in 1 .. Len(Tail(t)) : Tail(t)[i] = t[i + 1]
    BY <2>1
  <2>4. Len(Tail(t)) # 0
    BY <2>2, <2>3
  <2>5. Tail(t) \in Seq(IT!Steps) \ {<<>>}
    <3>1. Tail(t) # <<>>
      BY <2>3, <2>4, EmptySeq
    <3> QED
      BY <2>3, <3>1
  <2> DEFINE d == IT!Rest(c)
  <2>6. d = [c EXCEPT !.todo = Tail(@)]
    BY <1>2 DEF IT!Rest
  <2>7. d.todo = Tail(t) /\ d.raised = c.raised /\ d \in IT!Commanded
    BY <2>1, <2>5, <2>6 DEF IT!Commanded
  <2> HIDE DEF d
  <2>8. Follows(c, d)
    BY <2>1, <2>3, <2>7 DEF Follows
  <2> QED
    BY <2>8 DEF d
<1> QED
  BY <1>1, <1>2

\* Places in a list, by number.
LEMMA OneBefore ==
  ASSUME NEW i \in Nat, NEW j \in 1 .. ((i + 1) - 1), j # 1
  PROVE  j - 1 \in 1 .. (i - 1) /\ j = (j - 1) + 1
OBVIOUS

LEMMA StillWithin ==
  ASSUME NEW n \in Nat, NEW i \in 1 .. n, NEW k \in 1 .. (i - 1)
  PROVE  k \in 1 .. n
OBVIOUS

LEMMA HasFirst == ASSUME NEW n \in Nat, n # 0 PROVE 1 \in 1 .. n
OBVIOUS

LEMMA HeadIsFirst == ASSUME NEW s PROVE Head(s) = s[1]
OBVIOUS

\* Where there is a second thing to do, it is the first of what is left.
LEMMA AfterTheFirst ==
  ASSUME NEW S, NEW t \in Seq(S), 1 + 1 \in 1 .. Len(t)
  PROVE  /\ Len(t) # 1 /\ Tail(t) \in Seq(S) \ {<<>>}
         /\ Head(Tail(t)) = t[1 + 1]
<1>1. PICK n \in Nat : n = Len(t)
  OBVIOUS
<1>2. n > 1
  BY <1>1
<1>3. Tail(t) \in Seq(S) /\ Len(Tail(t)) = n - 1 /\ \A i \in 1 .. (n - 1) : Tail(t)[i] = t[i + 1]
  BY <1>1, <1>2
<1>4. Tail(t)[1] = t[1 + 1] /\ Len(Tail(t)) # 0
  BY <1>2, <1>3
<1>5. Tail(t) # <<>>
  BY <1>4, EmptySeq
<1>6. Head(Tail(t)) = t[1 + 1]
  BY <1>4, HeadIsFirst
<1> QED
  BY <1>1, <1>2, <1>3, <1>5, <1>6

\* The thing left at i was at i + 1 before.
MovedUp(c, d, i) ==
  /\ i \in Nat /\ i + 1 \in 1 .. Len(c.todo)
  /\ c.todo[i + 1] = d.todo[i]
  /\ d.raised = c.raised
  /\ \A j \in Nat : (j + 1) + 1 \in 1 .. Len(c.todo) => j + 1 \in 1 .. Len(d.todo)

LEMMA Shifted ==
  ASSUME NEW c, NEW d, NEW i, c \in IT!Commanded, Follows(c, d), d # Nothing, i \in 1 .. Len(d.todo)
  PROVE  MovedUp(c, d, i)
<1>1. PICK n \in Nat : n = Len(c.todo)
  BY CommandedHas
<1>2. Len(d.todo) = n - 1 /\ d.todo[i] = c.todo[i + 1] /\ d.raised = c.raised
  BY <1>1 DEF Follows
<1>3. i \in 1 .. (n - 1)
  BY <1>2
<1>4. i \in Nat /\ i + 1 \in 1 .. n /\ \A j \in Nat : (j + 1) + 1 \in 1 .. n => j + 1 \in 1 .. (n - 1)
  BY <1>3
<1> QED
  BY <1>1, <1>2, <1>4 DEF MovedUp

\* A list that stops everyone next does so from its second thing on.
LEMMA SoundFollows ==
  ASSUME NEW c \in IT!Commanded, NEW d, Follows(c, d), d # Nothing, Sound(c.todo)
  PROVE  Sound(d.todo)
<1> SUFFICES ASSUME NEW i \in 1 .. Len(d.todo), d.todo[i] = "unregister task"
             PROVE  i + 1 \in 1 .. Len(d.todo) /\ d.todo[i + 1] = "stop others"
  BY DEF Sound
<1>0. MovedUp(c, d, i)
  BY Shifted
<1>1. i \in Nat /\ i + 1 \in 1 .. Len(c.todo) /\ c.todo[i + 1] = "unregister task"
  BY <1>0 DEF MovedUp
<1>2. (i + 1) + 1 \in 1 .. Len(c.todo) /\ c.todo[(i + 1) + 1] = "stop others"
  BY <1>1 DEF Sound
<1>3. i + 1 \in 1 .. Len(d.todo)
  BY <1>0, <1>1, <1>2 DEF MovedUp
<1>4. MovedUp(c, d, i + 1)
  BY <1>3, Shifted
<1> QED
  BY <1>2, <1>3, <1>4 DEF MovedUp

\* What goes before a thing in what is left went before it in the whole, with the
\* thing just done ahead of it.
NoSooner(todo, i, w) == \A j \in 1 .. (i - 1) : todo[j] # w

LEMMA NoneBefore ==
  ASSUME NEW c, NEW d, NEW i, NEW w, c \in IT!Commanded, Follows(c, d), d # Nothing,
         i \in 1 .. Len(d.todo), Head(c.todo) # w, NoSooner(d.todo, i, w)
  PROVE  NoSooner(c.todo, i + 1, w)
<1>1. i \in Nat
  BY Shifted DEF MovedUp
<1>2. c.todo[1] # w
  BY HeadIsFirst
<1>3. ASSUME NEW j \in 1 .. ((i + 1) - 1), j # 1
      PROVE  c.todo[j] # w
  <2>1. PICK k \in 1 .. (i - 1) : j = k + 1
    BY <1>1, <1>3, OneBefore
  <2>2. PICK n \in Nat : n = Len(d.todo)
    BY CommandedHas DEF Follows
  <2>3. k \in 1 .. n
    BY <2>1, <2>2, StillWithin
  <2>4. MovedUp(c, d, k)
    BY <2>2, <2>3, Shifted
  <2> QED
    BY <2>1, <2>4 DEF MovedUp, NoSooner
<1> QED
  BY <1>1, <1>2, <1>3 DEF NoSooner

\* Whoever leaves the other where it is once a step is done was to before, unless the
\* step was to take it off.
LEMMA LeavesServiceFollows ==
  ASSUME NEW c \in IT!Commanded, NEW d, Follows(c, d), d # Nothing,
         IT!LeavesService(d), Head(c.todo) # "delete service"
  PROVE  IT!LeavesService(c)
<1>1. PICK i \in 1 .. Len(d.todo) :
        d.todo[i] = "register task" /\ NoSooner(d.todo, i, "delete service")
  BY DEF IT!LeavesService, NoSooner
<1>2. NoSooner(c.todo, i + 1, "delete service")
  BY <1>1, NoneBefore
<1>3. MovedUp(c, d, i)
  BY <1>1, Shifted
<1> QED
  BY <1>1, <1>2, <1>3 DEF IT!LeavesService, MovedUp, NoSooner

LEMMA LeavesTaskFollows ==
  ASSUME NEW c \in IT!Commanded, NEW d, Follows(c, d), d # Nothing,
         IT!LeavesTask(d), Head(c.todo) # "unregister task"
  PROVE  IT!LeavesTask(c)
<1>1. PICK i \in 1 .. Len(d.todo) :
        d.todo[i] = "register service" /\ NoSooner(d.todo, i, "unregister task")
  BY DEF IT!LeavesTask, NoSooner
<1>2. NoSooner(c.todo, i + 1, "unregister task")
  BY <1>1, NoneBefore
<1>3. MovedUp(c, d, i)
  BY <1>1, Shifted
<1>4. d.raised
  BY DEF IT!LeavesTask
<1> QED
  BY <1>1, <1>2, <1>3, <1>4 DEF IT!LeavesTask, MovedUp, NoSooner

\* So does whoever registers the one right now.
LEMMA LeavesNow ==
  ASSUME NEW c \in IT!Commanded
  PROVE  /\ Head(c.todo) = "register task" => IT!LeavesService(c)
         /\ Head(c.todo) = "register service" /\ c.raised => IT!LeavesTask(c)
<1>1. 1 .. (1 - 1) = {}
  OBVIOUS
<1>2. 1 \in 1 .. Len(c.todo)
  BY CommandedHas, HasFirst, Zenon
<1>3. Head(c.todo) = c.todo[1]
  BY HeadIsFirst
<1> QED
  BY <1>1, <1>2, <1>3 DEF IT!LeavesService, IT!LeavesTask

\* After the task, everyone else.
LEMMA OthersAfterTheTask ==
  ASSUME NEW c \in IT!Commanded, Sound(c.todo), Head(c.todo) = "unregister task"
  PROVE  /\ IT!Rest(c) # Nothing /\ IT!Rest(c).raised = c.raised
         /\ Head(IT!Rest(c).todo) = "stop others"
<1>1. PICK t \in Seq(IT!Steps) : t = c.todo
  BY CommandedHas
<1>2. c.todo[1] = "unregister task" /\ 1 \in 1 .. Len(c.todo)
  <2>1. c.todo[1] = "unregister task"
    BY HeadIsFirst, Zenon
  <2>2. 1 \in 1 .. Len(c.todo)
    BY CommandedHas, HasFirst, Zenon
  <2> QED
    BY <2>1, <2>2
<1>3. 1 + 1 \in 1 .. Len(t) /\ t[1 + 1] = "stop others"
  BY <1>1, <1>2 DEF Sound
<1>4. Len(t) # 1 /\ Tail(t) \in Seq(IT!Steps) \ {<<>>} /\ Head(Tail(t)) = "stop others"
  BY <1>3, AfterTheFirst
<1> DEFINE d == IT!Rest(c)
<1>5. d = [c EXCEPT !.todo = Tail(@)]
  BY <1>1, <1>4 DEF IT!Rest
<1>6. d.raised = c.raised /\ d.todo = Tail(t) /\ d \in IT!Commanded
  BY <1>1, <1>4, <1>5 DEF IT!Commanded
<1> HIDE DEF d
<1>7. d # Nothing /\ d.raised = c.raised /\ Head(d.todo) = "stop others"
  BY <1>4, <1>6, NothingAssumption
<1> QED
  BY <1>7 DEF d

\* A process that ends leaves the others as they were.
LEMMA EndsOnly ==
  ASSUME process \in [IT!Pids -> Processes], NEW P, process' = IT!Ends(P)
  PROVE  /\ process' \in [IT!Pids -> Processes]
         /\ \A how \in {"task", "service"} : IT!Running(how)' = IT!Running(how) \ P
<1>1. IT!NoProcess \in Processes
  BY DEF IT!NoProcess, Processes
<1>2. process' \in [IT!Pids -> Processes]
  BY <1>1 DEF IT!Ends
<1>3. \A p \in IT!Pids : process'[p] = IF p \in P THEN IT!NoProcess ELSE process[p]
  BY DEF IT!Ends
<1>4. IT!NoProcess.at = "gone"
  BY DEF IT!NoProcess
<1> QED
  BY <1>2, <1>3, <1>4 DEF IT!Running

\* One that begins is the only new one.
LEMMA BeginsOnly ==
  ASSUME process \in [IT!Pids -> Processes], NEW how \in {"task", "service", "hand"}, IT!Begins(how)
  PROVE  /\ process' \in [IT!Pids -> Processes]
         /\ \A h : h # how => IT!Running(h)' \subseteq IT!Running(h)
<1> DEFINE new == [how |-> how, place |-> IF how = "service" THEN "machine" ELSE "profile", at |-> "begun"]
<1>1. PICK p \in IT!Pids : process' = [process EXCEPT ![p] = new]
  BY DEF IT!Begins
<1>2. new \in Processes
  BY DEF Processes
<1>3. process' \in [IT!Pids -> Processes]
  BY <1>1, <1>2
<1>4. process'[p].how = how /\ \A q \in IT!Pids \ {p} : process'[q] = process[q]
  BY <1>1
<1> QED
  BY <1>3, <1>4 DEF IT!Running

\* One that goes on is the same one.
LEMMA MovesOnly ==
  ASSUME process \in [IT!Pids -> Processes], NEW p \in IT!Pids, process[p].at # "gone",
         NEW at1 \in {"checked", "up"}, process' = [process EXCEPT ![p].at = at1]
  PROVE  /\ process' \in [IT!Pids -> Processes]
         /\ \A h : IT!Running(h)' \subseteq IT!Running(h)
<1>1. [process[p] EXCEPT !.at = at1] \in Processes /\ [process[p] EXCEPT !.at = at1].how = process[p].how
  BY DEF Processes
<1>2. process' = [process EXCEPT ![p] = [process[p] EXCEPT !.at = at1]]
  OBVIOUS
<1>3. process' \in [IT!Pids -> Processes] /\ process'[p].how = process[p].how
  BY <1>1, <1>2
<1>4. \A q \in IT!Pids \ {p} : process'[q] = process[q]
  BY <1>2
<1> QED
  BY <1>3, <1>4 DEF IT!Running

\* Where nothing is registered or taken off, and nothing that is registered for
\* nobody starts, the arrangement holds.
LEMMA QuietArranged ==
  ASSUME Arranged, UNCHANGED <<task, service, command, unasked, overtaken, spared>>,
         process' \in [IT!Pids -> Processes],
         IT!Running("service")' # {} => service,
         task \/ IT!Running("task")' \subseteq IT!Running("task")
  PROVE  Arranged'
<1>1. InstallingTyped'
  BY DEF Arranged, InstallingTyped
<1>2. ServiceIsRegistered' /\ StopsNext'
  BY DEF Arranged, ServiceIsRegistered, StopsNext
<1>3. OtherGoesFirst => OtherGoesFirst'
  BY DEF OtherGoesFirst
<1>4. \A s \in Consoles : IT!YetToStop(s)' <=> IT!YetToStop(s)
  BY DEF IT!YetToStop, IT!At
<1>5. Outlives => Outlives'
  BY <1>4 DEF Outlives
<1> QED
  BY <1>1, <1>2, <1>3, <1>5 DEF Arranged

\* Everything but the commands.
Quiet ==
  \/ \E p \in IT!Pids : IT!Check(p) \/ IT!Report(p) \/ IT!Refresh(p) \/ IT!Interrupted(p) \/ IT!Dies(p)
  \/ \E place \in IT!Places : IT!Ages(place)
  \/ IT!ByHand
  \/ \E how \in {"task", "service"} : IT!BySystem(how)

\* Whatever the processes and the system do between two steps of a command.
LEMMA QuietSteps ==
  ASSUME Arranged, Quiet
  PROVE  Arranged'
<1> DEFINE Shrinks == /\ process' \in [IT!Pids -> Processes]
                      /\ \A h \in {"task", "service"} : IT!Running(h)' \subseteq IT!Running(h)
           Still == UNCHANGED <<task, service, command, unasked, overtaken, spared>>
<1>1. process \in [IT!Pids -> Processes] /\ ServiceIsRegistered
  BY DEF Arranged, InstallingTyped
<1>2. ASSUME Shrinks, Still PROVE Arranged'
  BY <1>1, <1>2, QuietArranged DEF ServiceIsRegistered
<1>3. ASSUME NEW p \in IT!Pids, IT!Check(p) PROVE Shrinks /\ Still
  <2>1. process' = [process EXCEPT ![p].at = "checked"] \/ process' = IT!Ends({p})
    BY <1>3 DEF IT!Check
  <2>2. process[p].at # "gone"
    BY <1>3 DEF IT!Check
  <2>3. Shrinks
    BY <1>1, <2>1, <2>2, MovesOnly, EndsOnly
  <2> QED
    BY <1>3, <2>3 DEF IT!Check, IT!registered, IT!history, IT!mixups
<1>4. ASSUME NEW p \in IT!Pids, IT!Report(p) PROVE Shrinks /\ Still
  <2>1. Shrinks
    BY <1>1, <1>4, MovesOnly DEF IT!Report
  <2> QED
    BY <1>4, <2>1 DEF IT!Report, IT!registered, IT!history, IT!mixups
<1>5. ASSUME NEW p \in IT!Pids, IT!Refresh(p) PROVE Shrinks /\ Still
  BY <1>1, <1>5 DEF IT!Refresh, IT!registered, IT!history, IT!mixups, IT!Running
<1>6. ASSUME NEW p \in IT!Pids, IT!Interrupted(p) \/ IT!Dies(p) PROVE Shrinks /\ Still
  <2>1. Shrinks
    BY <1>1, <1>6, EndsOnly DEF IT!Interrupted, IT!Dies, IT!Closes
  <2> QED
    BY <1>6, <2>1 DEF IT!Interrupted, IT!Dies, IT!registered, IT!history, IT!mixups
<1>7. ASSUME NEW place, IT!Ages(place) PROVE Shrinks /\ Still
  BY <1>1, <1>7 DEF IT!Ages, IT!registered, IT!history, IT!mixups, IT!Running
<1>8. ASSUME NEW how \in {"task", "service", "hand"}, IT!Begins(how), Still,
             how # "hand" => how \in IT!Registered
      PROVE  Arranged'
  <2>1. /\ process' \in [IT!Pids -> Processes]
        /\ \A h : h # how => IT!Running(h)' \subseteq IT!Running(h)
    BY <1>1, <1>8, BeginsOnly
  <2>2. IT!Running("service")' # {} => service
    BY <1>1, <1>8, <2>1 DEF ServiceIsRegistered, IT!Registered
  <2>3. task \/ IT!Running("task")' \subseteq IT!Running("task")
    BY <1>8, <2>1 DEF IT!Registered
  <2> QED
    BY <1>8, <2>1, <2>2, <2>3, QuietArranged
<1>9. CASE IT!ByHand
  BY <1>8, <1>9 DEF IT!ByHand, IT!registered, IT!history, IT!mixups
<1>10. ASSUME NEW how \in {"task", "service"}, IT!BySystem(how) PROVE Arranged'
  <2>1. Still
    BY <1>10 DEF IT!BySystem, IT!registered, IT!history, IT!mixups
  <2>2. CASE how \in IT!Registered /\ IT!Begins(how)
    BY <1>8, <2>1, <2>2
  <2>3. CASE UNCHANGED process
    <3>1. Shrinks
      BY <1>1, <2>3 DEF IT!Running
    <3> QED
      BY <1>2, <2>1, <3>1
  <2> QED
    BY <1>10, <2>2, <2>3 DEF IT!BySystem
<1> HIDE DEF Shrinks, Still
<1> QED
  BY <1>2, <1>3, <1>4, <1>5, <1>6, <1>7, <1>9, <1>10 DEF Quiet

\* A machine that starts again runs nothing, and no command goes on.
LEMMA RebootStep == ASSUME Arranged, IT!Reboot PROVE Arranged'
<1>1. /\ \A s \in Consoles : command'[s] = Nothing
      /\ command' \in [Consoles -> IT!Commanded \cup {Nothing}]
      /\ UNCHANGED <<task, service, unasked, overtaken, spared>>
  BY DEF IT!Reboot, IT!registered, IT!history, IT!mixups
<1>2. /\ process' \in [IT!Pids -> Processes]
      /\ IT!Running("task")' = {} /\ IT!Running("service")' = {}
  <2>1. process \in [IT!Pids -> Processes] /\ process' = IT!Ends(IT!Pids)
    BY DEF Arranged, InstallingTyped, IT!Reboot
  <2>2. \A how \in {"task", "service"} : IT!Running(how) \ IT!Pids = {}
    BY DEF IT!Running
  <2> QED
    BY <2>1, <2>2, EndsOnly
<1>3. InstallingTyped'
  BY <1>1, <1>2 DEF Arranged, InstallingTyped
<1>4. ServiceIsRegistered' /\ StopsNext' /\ OtherGoesFirst' /\ Outlives'
  BY <1>1, <1>2 DEF ServiceIsRegistered, StopsNext, OtherGoesFirst, Outlives
<1> QED
  BY <1>1, <1>3, <1>4 DEF Arranged

-----------------------------------------------------------------------------
(* A command that goes on, gives up, or is cut off.                        *)

\* Whoever takes a step of a command has one that begins with it.
LEMMA AtStep ==
  ASSUME Arranged, NEW s \in Consoles, command[s] # Nothing
  PROVE  command[s] \in IT!Commanded
BY DEF Arranged, InstallingTyped

\* Its command goes on or ends, and the others stay as they are.
LEMMA OnlyThis ==
  ASSUME Arranged, NEW s \in Consoles, command[s] # Nothing, IT!GoesOn(s) \/ IT!GivesUp(s)
  PROVE  /\ command' \in [Consoles -> IT!Commanded \cup {Nothing}]
         /\ Follows(command[s], command'[s])
         /\ \A t \in Consoles \ {s} : command'[t] = command[t]
<1>1. command \in [Consoles -> IT!Commanded \cup {Nothing}] /\ command[s] \in IT!Commanded
  BY AtStep DEF Arranged, InstallingTyped
<1>2. PICK d : command' = [command EXCEPT ![s] = d] /\ (d = Nothing \/ d = IT!Rest(command[s]))
  BY DEF IT!GoesOn, IT!GivesUp
<1>3. Follows(command[s], d)
  BY <1>1, <1>2, RestFollows DEF Follows
<1>4. d \in IT!Commanded \cup {Nothing}
  BY <1>3 DEF Follows
<1> QED
  BY <1>1, <1>2, <1>3, <1>4

\* Where nothing is registered, and what is taken off or stopped is what this step of
\* the command is there for.
LEMMA StepArranged ==
  ASSUME Arranged, NEW s \in Consoles, command[s] # Nothing, IT!GoesOn(s) \/ IT!GivesUp(s),
         NEW w, w = Head(command[s].todo),
         task' \in BOOLEAN, service' \in BOOLEAN, process' \in [IT!Pids -> Processes],
         unasked' \in {unasked, TRUE}, overtaken' = overtaken, spared \subseteq spared',
         service' => service,
         task' = task \/ (task' = FALSE /\ w = "unregister task" /\ command[s].raised /\ IT!GoesOn(s)),
         IT!Running("service")' # {} => service',
         task \/ IT!Running("task")' \subseteq IT!Running("task"),
         w = "stop others" /\ command[s].raised => unasked' \/ IT!Running("task")' \subseteq spared',
         w = "delete service" => IT!GivesUp(s) \/ ~service',
         w = "unregister task" => IT!GivesUp(s) \/ ~command[s].raised \/ ~task'
  PROVE  Arranged'
<1> DEFINE c == command[s]
           d == command'[s]
<1>1. /\ c \in IT!Commanded
      /\ command' \in [Consoles -> IT!Commanded \cup {Nothing}]
      /\ Follows(c, d)
      /\ \A t \in Consoles \ {s} : command'[t] = command[t]
  BY AtStep, OnlyThis
<1>2. IT!GivesUp(s) => d = Nothing
  BY DEF IT!GivesUp, Arranged, InstallingTyped
<1>3. InstallingTyped' /\ ServiceIsRegistered'
  BY <1>1 DEF Arranged, InstallingTyped, ServiceIsRegistered
<1>4. StopsNext'
  <2>1. d # Nothing => Sound(d.todo)
    BY <1>1, SoundFollows DEF Arranged, StopsNext
  <2> QED
    BY <1>1, <2>1 DEF Arranged, StopsNext
<1>5. ASSUME ~unasked', ~overtaken'
      PROVE  ~(task' /\ service') /\ OtherGoesFirst' /\ Outlives'
  <2>1. ~(task /\ service) /\ OtherGoesFirst /\ Outlives
    BY <1>5 DEF Arranged, InstallingTyped
  <2>2. (task' => task) /\ ~(task' /\ service')
    BY <2>1
  <2>3. ASSUME d # Nothing, service' PROVE ~IT!LeavesService(d)
    <3>1. ~IT!LeavesService(c) /\ w # "delete service"
      BY <1>2, <2>1, <2>3 DEF OtherGoesFirst
    <3> QED
      BY <1>1, <2>3, <3>1, LeavesServiceFollows
  <2>4. ASSUME d # Nothing, task' PROVE ~IT!LeavesTask(d)
    <3>1. ~IT!LeavesTask(c)
      BY <2>1, <2>2, <2>4 DEF OtherGoesFirst
    <3>2. w = "unregister task" => ~d.raised
      BY <1>1, <1>2, <2>4 DEF Follows
    <3> QED
      BY <1>1, <2>4, <3>1, <3>2, LeavesTaskFollows DEF IT!LeavesTask
  <2>5. OtherGoesFirst'
    <3> SUFFICES ASSUME NEW t \in Consoles, command'[t] # Nothing
                 PROVE  /\ service' => ~IT!LeavesService(command'[t])
                        /\ task' => ~IT!LeavesTask(command'[t])
      BY DEF OtherGoesFirst, IT!LeavesService, IT!LeavesTask
    <3>1. CASE t = s
      BY <2>3, <2>4, <3>1
    <3>2. CASE t # s
      BY <1>1, <2>1, <2>2, <3>2 DEF OtherGoesFirst
    <3> QED
      BY <3>1, <3>2
  <2>6. ASSUME ~task', ~(IT!Running("task")' \subseteq spared')
        PROVE  ~service' /\ \E t \in Consoles : IT!YetToStop(t)'
    <3>1. CASE task
      <4>1. ~service' /\ w = "unregister task" /\ c.raised /\ IT!GoesOn(s)
        BY <2>1, <2>6, <3>1
      <4>2. d = IT!Rest(c)
        BY <4>1 DEF IT!GoesOn, Arranged, InstallingTyped
      <4>3. d # Nothing /\ d.raised /\ Head(d.todo) = "stop others"
        BY <1>1, <4>1, <4>2, OthersAfterTheTask DEF Arranged, StopsNext
      <4> QED
        BY <4>1, <4>3 DEF IT!YetToStop, IT!At
    <3>2. CASE ~task
      <4>1. ~service /\ \E t \in Consoles : IT!YetToStop(t)
        BY <2>1, <2>6, <3>2 DEF Outlives
      <4>2. PICK t \in Consoles : IT!YetToStop(t)
        BY <4>1
      <4>3. t # s
        BY <1>5, <2>6, <4>2 DEF IT!YetToStop, IT!At
      <4>4. IT!YetToStop(t)'
        BY <1>1, <4>2, <4>3 DEF IT!YetToStop, IT!At
      <4> QED
        BY <4>1, <4>4
    <3> QED
      BY <3>1, <3>2
  <2> QED
    BY <2>2, <2>5, <2>6 DEF Outlives
<1> QED
  BY <1>3, <1>4, <1>5 DEF Arranged

\* What neither registers nor stops anything, or what only makes fewer that run.
LEMMA PaperStep ==
  ASSUME Arranged, NEW s \in Consoles, NEW w, IT!At(s, w), w # "stop others",
         IT!GivesUp(s) \/ (IT!GoesOn(s) /\ w # "delete service" /\ (w = "unregister task" => ~command[s].raised)),
         UNCHANGED <<task, service, unasked, overtaken, spared>>,
         process' \in [IT!Pids -> Processes],
         IT!Running("service")' \subseteq IT!Running("service"),
         IT!Running("task")' \subseteq IT!Running("task")
  PROVE  Arranged'
<1>1. command[s] # Nothing /\ w = Head(command[s].todo)
  BY DEF IT!At
<1>2. task' \in BOOLEAN /\ service' \in BOOLEAN /\ (IT!Running("service")' # {} => service')
  BY DEF Arranged, InstallingTyped, ServiceIsRegistered
<1>3. /\ IT!GoesOn(s) \/ IT!GivesUp(s)
      /\ unasked' \in {unasked, TRUE} /\ overtaken' = overtaken /\ spared \subseteq spared'
      /\ task' = task /\ (service' => service)
      /\ w # "stop others"
      /\ w = "delete service" => IT!GivesUp(s)
      /\ w = "unregister task" => IT!GivesUp(s) \/ ~command[s].raised
  OBVIOUS
<1> QED
  BY <1>1, <1>2, <1>3, StepArranged

\* Where nobody starts or ends, nobody else runs.
LEMMA NobodyMoves ==
  ASSUME Arranged, UNCHANGED process
  PROVE  /\ process \in [IT!Pids -> Processes] /\ process' \in [IT!Pids -> Processes]
         /\ IT!Running("service")' = IT!Running("service")
         /\ IT!Running("task")' = IT!Running("task")
BY DEF Arranged, InstallingTyped, IT!Running

\* Stopping whom it may only makes fewer of them.
LEMMA StopStep == ASSUME Arranged, NEW s \in Consoles, IT!Stop(s) PROVE Arranged'
<1>1. /\ process' \in [IT!Pids -> Processes]
      /\ IT!Running("service")' \subseteq IT!Running("service")
      /\ IT!Running("task")' \subseteq IT!Running("task")
  <2>1. PICK P : process' = IT!Ends(P) \/ process' = process
    BY DEF IT!Stop
  <2>2. process \in [IT!Pids -> Processes]
    BY DEF Arranged, InstallingTyped
  <2> QED
    BY <2>1, <2>2, EndsOnly, NobodyMoves
<1>2. IT!At(s, "stop") /\ IT!GoesOn(s) /\ UNCHANGED <<task, service, unasked, overtaken, spared>>
  BY DEF IT!Stop, IT!registered, IT!history, IT!mixups
<1> QED
  BY <1>1, <1>2, PaperStep

\* What is started is registered.
LEMMA StartStep == ASSUME Arranged, NEW s \in Consoles, IT!Start(s) PROVE Arranged'
<1>1. process \in [IT!Pids -> Processes] /\ ServiceIsRegistered /\ task \in BOOLEAN /\ service \in BOOLEAN
  BY DEF Arranged, InstallingTyped
<1>2. /\ process' \in [IT!Pids -> Processes]
      /\ IT!Running("service")' # {} => service
      /\ task \/ IT!Running("task")' \subseteq IT!Running("task")
  <2>1. CASE UNCHANGED process
    BY <1>1, <2>1, NobodyMoves DEF ServiceIsRegistered
  <2>2. CASE service /\ IT!Begins("service")
    BY <1>1, <2>2, BeginsOnly
  <2>3. CASE task /\ ~service /\ IT!Begins("task")
    BY <1>1, <2>3, BeginsOnly DEF ServiceIsRegistered
  <2> QED
    BY <2>1, <2>2, <2>3 DEF IT!Start
<1>3. /\ command[s] # Nothing /\ Head(command[s].todo) = "start" /\ IT!GivesUp(s)
      /\ UNCHANGED <<task, service, unasked, overtaken, spared>>
  BY DEF IT!Start, IT!At, IT!registered, IT!history, IT!mixups
<1> QED
  BY <1>1, <1>2, <1>3, StepArranged

\* An administrator who stops everyone else stops the task's daemon, whatever its
\* report says, unless nobody was listed, or it was spared.
LEMMA StopOthersStep == ASSUME Arranged, NEW s \in Consoles, IT!StopOthers(s) PROVE Arranged'
<1>1. process \in [IT!Pids -> Processes] /\ ServiceIsRegistered /\ task \in BOOLEAN /\ service \in BOOLEAN
      /\ unasked \in BOOLEAN
  BY DEF Arranged, InstallingTyped
<1>2. /\ command[s] # Nothing /\ Head(command[s].todo) = "stop others" /\ IT!GoesOn(s)
      /\ UNCHANGED <<task, service, overtaken>>
  BY DEF IT!StopOthers, IT!At, IT!registered
<1> DEFINE Thinned ==
             /\ process' \in [IT!Pids -> Processes]
             /\ IT!Running("service")' \subseteq IT!Running("service")
             /\ IT!Running("task")' \subseteq IT!Running("task")
             /\ unasked' \in {unasked, TRUE} /\ spared \subseteq spared'
             /\ command[s].raised => unasked' \/ IT!Running("task")' \subseteq spared'
<1>3. Thinned
  <2>1. ASSUME NEW refused \in SUBSET IT!Stoppable(s),
               process' = IT!Ends(IT!Stoppable(s) \ refused),
               spared' = spared \cup (refused \cap IT!Running("task")), UNCHANGED unasked
        PROVE  Thinned
    <3>1. /\ process' \in [IT!Pids -> Processes]
          /\ \A how \in {"task", "service"} :
               IT!Running(how)' = IT!Running(how) \ (IT!Stoppable(s) \ refused)
      BY <1>1, <2>1, EndsOnly
    <3>2. command[s].raised => IT!Running("task") \subseteq IT!Stoppable(s)
      BY DEF IT!Stoppable, IT!Running, IT!Live
    <3>3. command[s].raised => IT!Running("task")' \subseteq spared'
      BY <2>1, <3>1, <3>2
    <3> QED
      BY <2>1, <3>1, <3>3
  <2>2. CASE UNCHANGED <<process, spared>> /\ unasked' = TRUE
    BY <2>2, NobodyMoves
  <2>3. \/ \E refused \in SUBSET IT!Stoppable(s) :
             /\ process' = IT!Ends(IT!Stoppable(s) \ refused)
             /\ spared' = spared \cup (refused \cap IT!Running("task"))
             /\ UNCHANGED unasked
        \/ UNCHANGED <<process, spared>> /\ unasked' = TRUE
    BY DEF IT!StopOthers
  <2> QED
    BY <2>1, <2>2, <2>3
<1> QED
  BY <1>1, <1>2, <1>3, StepArranged DEF ServiceIsRegistered

\* Cut off before it has stopped the daemon of the task it took off, it spares it.
LEMMA CutOffStep == ASSUME Arranged, NEW s \in Consoles, IT!CutOff(s) PROVE Arranged'
<1>1. /\ command[s] # Nothing /\ IT!GivesUp(s)
      /\ spared' = spared \cup (IF IT!YetToStop(s) THEN IT!Running("task") ELSE {})
      /\ UNCHANGED <<task, service, process, unasked, overtaken>>
  BY DEF IT!CutOff, IT!registered
<1>2. /\ process' \in [IT!Pids -> Processes]
      /\ IT!Running("service")' = IT!Running("service")
      /\ IT!Running("task")' = IT!Running("task")
  BY <1>1, NobodyMoves
<1>3. Head(command[s].todo) = "stop others" /\ command[s].raised => IT!Running("task")' \subseteq spared'
  BY <1>1, <1>2 DEF IT!YetToStop, IT!At
<1>4. task' \in BOOLEAN /\ service' \in BOOLEAN /\ (IT!Running("service")' # {} => service')
  BY <1>1, <1>2 DEF Arranged, InstallingTyped, ServiceIsRegistered
<1> QED
  BY <1>1, <1>2, <1>3, <1>4, StepArranged

\* The task comes off the list with its daemon alive: what comes next is to stop
\* everyone, and an administrator can.
LEMMA UnregisterTaskStep == ASSUME Arranged, NEW s \in Consoles, IT!UnregisterTask(s) PROVE Arranged'
<1>1. /\ IT!At(s, "unregister task") /\ UNCHANGED <<service, process, unasked, overtaken, spared>>
      /\ \/ IT!GivesUp(s) /\ UNCHANGED task
         \/ task' = (task /\ ~command[s].raised) /\ IT!GoesOn(s)
  BY DEF IT!UnregisterTask, IT!history, IT!mixups
<1>2. /\ process' \in [IT!Pids -> Processes]
      /\ IT!Running("service")' = IT!Running("service")
      /\ IT!Running("task")' = IT!Running("task")
  BY <1>1, NobodyMoves
<1>3. command[s] # Nothing /\ Head(command[s].todo) = "unregister task" /\ command[s].raised \in BOOLEAN
  BY <1>1, AtStep, CommandedHas DEF IT!At
<1>4. task \in BOOLEAN /\ service \in BOOLEAN /\ (IT!Running("service")' # {} => service')
  BY <1>1, <1>2 DEF Arranged, InstallingTyped, ServiceIsRegistered
<1>5. \/ task' = task /\ (IT!GivesUp(s) \/ ~command[s].raised)
      \/ task' = FALSE /\ command[s].raised /\ IT!GoesOn(s)
  BY <1>1, <1>3, <1>4
<1> QED
  BY <1>1, <1>2, <1>3, <1>4, <1>5, StepArranged

\* The service is stopped as it comes off the list.
LEMMA DeleteServiceStep == ASSUME Arranged, NEW s \in Consoles, IT!DeleteService(s) PROVE Arranged'
<1>1. /\ IT!At(s, "delete service") /\ command[s] # Nothing /\ Head(command[s].todo) = "delete service"
      /\ UNCHANGED <<task, unasked, overtaken, spared>>
  BY DEF IT!DeleteService, IT!At, IT!history, IT!mixups
<1>2. CASE IT!GivesUp(s) /\ UNCHANGED <<process, service>>
  BY <1>1, <1>2, PaperStep, NobodyMoves
<1>3. CASE /\ process' = IT!Ends(IT!Running("service"))
           /\ ((IT!GivesUp(s) /\ UNCHANGED service) \/ (service' = FALSE /\ IT!GoesOn(s)))
  <2>1. process \in [IT!Pids -> Processes] /\ task \in BOOLEAN /\ service \in BOOLEAN
    BY DEF Arranged, InstallingTyped
  <2>2. /\ process' \in [IT!Pids -> Processes]
        /\ IT!Running("service")' = {}
        /\ IT!Running("task")' \subseteq IT!Running("task")
    <3>1. /\ process' \in [IT!Pids -> Processes]
          /\ \A how \in {"task", "service"} : IT!Running(how)' = IT!Running(how) \ IT!Running("service")
      BY <1>3, <2>1, EndsOnly
    <3> QED
      BY <3>1
  <2>3. /\ IT!GoesOn(s) \/ IT!GivesUp(s)
        /\ service' \in BOOLEAN /\ (service' => service)
        /\ IT!GivesUp(s) \/ ~service'
    <3>1. CASE IT!GivesUp(s) /\ service' = service
      BY <2>1, <3>1
    <3>2. CASE IT!GoesOn(s) /\ service' = FALSE
      BY <3>2
    <3> QED
      BY <1>3, <3>1, <3>2
  <2>4. /\ unasked' \in {unasked, TRUE} /\ overtaken' = overtaken /\ spared \subseteq spared'
        /\ task' = task /\ task' \in BOOLEAN
    BY <1>1, <2>1
  <2> QED
    BY <1>1, <2>2, <2>3, <2>4, StepArranged
<1> QED
  BY <1>2, <1>3 DEF IT!DeleteService

\* What the store and the report are to it: nothing.
LEMMA OtherSteps ==
  ASSUME Arranged, NEW s \in Consoles, IT!ForgetReport(s) \/ IT!CarryOver(s)
  PROVE  Arranged'
<1>1. /\ IT!GoesOn(s) \/ IT!GivesUp(s)
      /\ UNCHANGED <<task, service, process, unasked, overtaken, spared>>
  BY DEF IT!ForgetReport, IT!CarryOver, IT!registered, IT!history, IT!mixups
<1>2. PICK w : IT!At(s, w) /\ w \in {"forget report", "carry over"}
  BY DEF IT!ForgetReport, IT!CarryOver
<1> QED
  BY <1>1, <1>2, PaperStep, NobodyMoves

\* It is first on its list by now, so nothing is ahead of it that was to take the task
\* off: the task is off already, and its daemon with it, or it is spared.  Whoever else
\* would leave the service where it is has been overtaken.
LEMMA RegisterServiceStep == ASSUME Arranged, NEW s \in Consoles, IT!RegisterService(s) PROVE Arranged'
<1>1. IT!At(s, "register service") /\ IT!GivesUp(s) /\ UNCHANGED <<task, process, unasked>>
  BY DEF IT!RegisterService
<1>2. CASE UNCHANGED <<service, overtaken, spared>>
  BY <1>1, <1>2, PaperStep, NobodyMoves
<1>3. CASE /\ command[s].raised /\ service' = TRUE
           /\ overtaken' = (overtaken \/ \E t \in Consoles \ {s} : command[t] # Nothing /\ IT!LeavesService(command[t]))
           /\ spared' = spared \cup (IF \E t \in Consoles : IT!YetToStop(t) THEN IT!Running("task") ELSE {})
  <2>1. command[s] \in IT!Commanded /\ command[s] # Nothing /\ Head(command[s].todo) = "register service"
    BY <1>1, AtStep DEF IT!At
  <2>2. /\ command' \in [Consoles -> IT!Commanded \cup {Nothing}]
        /\ \A t \in Consoles \ {s} : command'[t] = command[t]
        /\ command'[s] = Nothing
    BY <1>1, <2>1, OnlyThis DEF IT!GivesUp, Arranged, InstallingTyped
  <2>3. /\ process' \in [IT!Pids -> Processes]
        /\ IT!Running("service")' = IT!Running("service")
        /\ IT!Running("task")' = IT!Running("task")
    BY <1>1, NobodyMoves
  <2>4. InstallingTyped' /\ ServiceIsRegistered' /\ StopsNext'
    <3>1. overtaken' \in BOOLEAN
      BY <1>3 DEF Arranged, InstallingTyped
    <3> QED
      BY <1>1, <1>3, <2>2, <2>3, <3>1 DEF Arranged, InstallingTyped, ServiceIsRegistered, StopsNext
  <2>5. ASSUME ~unasked', ~overtaken' PROVE ~(task' /\ service') /\ OtherGoesFirst' /\ Outlives'
    <3>1. /\ ~overtaken
          /\ \A t \in Consoles \ {s} : command[t] # Nothing => ~IT!LeavesService(command[t])
      BY <1>3, <2>5 DEF Arranged, InstallingTyped
    <3>2. OtherGoesFirst /\ Outlives
      BY <1>1, <2>5, <3>1 DEF Arranged
    <3>3. ~task
      BY <1>3, <2>1, <3>2, LeavesNow DEF OtherGoesFirst
    <3>4. OtherGoesFirst'
      <4> SUFFICES ASSUME NEW t \in Consoles, command'[t] # Nothing
                   PROVE  ~IT!LeavesService(command'[t]) /\ ~task'
        BY DEF OtherGoesFirst, IT!LeavesService, IT!LeavesTask
      <4> QED
        BY <1>1, <2>2, <3>1, <3>3
    <3>5. IT!Running("task")' \subseteq spared'
      BY <1>3, <2>3, <3>2, <3>3 DEF Outlives
    <3> QED
      BY <1>1, <3>3, <3>4, <3>5 DEF Outlives
  <2> QED
    BY <2>4, <2>5 DEF Arranged
<1> QED
  BY <1>2, <1>3 DEF IT!RegisterService, IT!mixups

LEMMA RegisterTaskStep == ASSUME Arranged, NEW s \in Consoles, IT!RegisterTask(s) PROVE Arranged'
<1>1. IT!At(s, "register task") /\ IT!GivesUp(s) /\ UNCHANGED <<service, process, unasked, spared>>
  BY DEF IT!RegisterTask
<1>2. CASE UNCHANGED <<task, overtaken>>
  BY <1>1, <1>2, PaperStep, NobodyMoves
<1>3. CASE /\ task' = TRUE
           /\ overtaken' = (overtaken \/ \E t \in Consoles \ {s} : command[t] # Nothing /\ IT!LeavesTask(command[t]))
  <2>1. command[s] \in IT!Commanded /\ command[s] # Nothing /\ Head(command[s].todo) = "register task"
    BY <1>1, AtStep DEF IT!At
  <2>2. /\ command' \in [Consoles -> IT!Commanded \cup {Nothing}]
        /\ \A t \in Consoles \ {s} : command'[t] = command[t]
        /\ command'[s] = Nothing
    BY <1>1, <2>1, OnlyThis DEF IT!GivesUp, Arranged, InstallingTyped
  <2>3. /\ process' \in [IT!Pids -> Processes]
        /\ IT!Running("service")' = IT!Running("service")
    BY <1>1, NobodyMoves
  <2>4. InstallingTyped' /\ ServiceIsRegistered' /\ StopsNext'
    <3>1. overtaken' \in BOOLEAN
      BY <1>3 DEF Arranged, InstallingTyped
    <3> QED
      BY <1>1, <1>3, <2>2, <2>3, <3>1 DEF Arranged, InstallingTyped, ServiceIsRegistered, StopsNext
  <2>5. ASSUME ~unasked', ~overtaken' PROVE ~(task' /\ service') /\ OtherGoesFirst' /\ Outlives'
    <3>1. /\ ~overtaken
          /\ \A t \in Consoles \ {s} : command[t] # Nothing => ~IT!LeavesTask(command[t])
      BY <1>3, <2>5 DEF Arranged, InstallingTyped
    <3>2. OtherGoesFirst
      BY <1>1, <2>5, <3>1 DEF Arranged
    <3>3. ~service
      BY <2>1, <3>2, LeavesNow DEF OtherGoesFirst
    <3>4. OtherGoesFirst'
      <4> SUFFICES ASSUME NEW t \in Consoles, command'[t] # Nothing
                   PROVE  ~IT!LeavesTask(command'[t]) /\ ~service'
        BY DEF OtherGoesFirst, IT!LeavesService, IT!LeavesTask
      <4> QED
        BY <1>1, <2>2, <3>1, <3>3
    <3> QED
      BY <1>1, <1>3, <3>3, <3>4 DEF Outlives
  <2> QED
    BY <2>4, <2>5 DEF Arranged
<1> QED
  BY <1>2, <1>3 DEF IT!RegisterTask

LEMMA CommandSteps == ASSUME Arranged, NEW s \in Consoles, IT!Commands(s) PROVE Arranged'
BY StopStep, StartStep, UnregisterTaskStep, DeleteServiceStep, StopOthersStep, OtherSteps,
   RegisterServiceStep, RegisterTaskStep, CutOffStep DEF IT!Commands

-----------------------------------------------------------------------------
(* A command that begins.                                                  *)

\* Two lists one behind the other, written out.
LEMMA Joined21 ==
  ASSUME NEW a, NEW b, NEW c
  PROVE  <<a, b>> \o <<c>> = <<a, b, c>>
<1> DEFINE M == {a, b, c}
           x == <<a, b>> \o <<c>>
           y == <<a, b, c>>
<1>1. <<a, b>> \in Seq(M) /\ <<c>> \in Seq(M) /\ y \in Seq(M) /\ Len(y) = 3
  OBVIOUS
<1> HIDE DEF M
<1>2. x \in Seq(M) /\ Len(x) = 3
  BY <1>1
<1>3. \A i \in 1 .. 3 : x[i] = y[i]
  BY <1>1
<1> HIDE DEF x, y
<1>4. x = y
  BY <1>1, <1>2, <1>3, SeqEqual
<1> QED
  BY <1>4 DEF x, y

LEMMA Joined32 ==
  ASSUME NEW a, NEW b, NEW c, NEW d, NEW e
  PROVE  <<a, b, c>> \o <<d, e>> = <<a, b, c, d, e>>
<1> DEFINE M == {a, b, c, d, e}
           x == <<a, b, c>> \o <<d, e>>
           y == <<a, b, c, d, e>>
<1>1. <<a, b, c>> \in Seq(M) /\ <<d, e>> \in Seq(M) /\ y \in Seq(M) /\ Len(y) = 5
  OBVIOUS
<1> HIDE DEF M
<1>2. x \in Seq(M) /\ Len(x) = 5
  BY <1>1
<1>3. \A i \in 1 .. 5 : x[i] = y[i]
  BY <1>1
<1> HIDE DEF x, y
<1>4. x = y
  BY <1>1, <1>2, <1>3, SeqEqual
<1> QED
  BY <1>4 DEF x, y

\* Where in a short list a thing can be.
LEMMA Short ==
  /\ \A i \in 1 .. 1 : i = 1
  /\ \A i \in 1 .. 2 : i = 1 \/ i = 2
  /\ \A i \in 1 .. 3 : i = 1 \/ i = 2 \/ i = 3
  /\ \A i \in 1 .. 5 : i = 1 \/ i = 2 \/ i = 3 \/ i = 4 \/ i = 5
  /\ \A i \in 1 .. 6 : i = 1 \/ i = 2 \/ i = 3 \/ i = 4 \/ i = 5 \/ i = 6
OBVIOUS

\* The lists a command can begin with, one by one.
LEMMA TaskAlone ==
  LET t == <<"register task">>
  IN  /\ t \in Seq(IT!Steps)
      /\ t # <<>>
      /\ Sound(t)
      /\ Before(t, "unregister task", "register service")
<1> DEFINE t == <<"register task">>
<1>1. t \in Seq(IT!Steps) /\ Len(t) = 1
  BY DEF IT!Steps
<1>2. t[1] = "register task"
  OBVIOUS
<1>3. t # <<>>
  BY <1>1
<1> HIDE DEF t
<1>4. \A i \in 1 .. 1 :
        /\ t[i] # "unregister task"
        /\ t[i] = "register task" => i = 1
        /\ t[i] # "register service"
  BY <1>2, Short
<1>5. Sound(t)
  BY <1>1, <1>4 DEF Sound
<1>6. Before(t, "unregister task", "register service")
  BY <1>1, <1>4 DEF Before
<1> QED
  BY <1>1, <1>3, <1>5, <1>6 DEF t

LEMMA TaskAfterService ==
  LET t == <<"delete service", "stop others", "register task">>
  IN  /\ t \in Seq(IT!Steps)
      /\ t # <<>>
      /\ Sound(t)
      /\ Before(t, "delete service", "register task")
      /\ Before(t, "unregister task", "register service")
<1> DEFINE t == <<"delete service", "stop others", "register task">>
<1>1. t \in Seq(IT!Steps) /\ Len(t) = 3
  BY DEF IT!Steps
<1>2. t[1] = "delete service" /\ t[2] = "stop others" /\ t[3] = "register task"
  OBVIOUS
<1>3. t # <<>>
  BY <1>1
<1> HIDE DEF t
<1>4. \A i \in 1 .. 3 :
        /\ t[i] # "unregister task"
        /\ t[i] = "register task" => i = 3
        /\ t[i] # "register service"
  BY <1>2, Short
<1>5. Sound(t)
  BY <1>1, <1>4 DEF Sound
<1>6. 1 \in 1 .. (3 - 1)
  OBVIOUS
<1>7. Before(t, "delete service", "register task")
  BY <1>1, <1>2, <1>4, <1>6 DEF Before
<1>8. Before(t, "unregister task", "register service")
  BY <1>1, <1>4 DEF Before
<1> QED
  BY <1>1, <1>3, <1>5, <1>7, <1>8 DEF t

LEMMA ServiceAlone ==
  LET t == <<"carry over", "register service">>
  IN  /\ t \in Seq(IT!Steps)
      /\ t # <<>>
      /\ Sound(t)
      /\ Before(t, "delete service", "register task")
<1> DEFINE t == <<"carry over", "register service">>
<1>1. t \in Seq(IT!Steps) /\ Len(t) = 2
  BY DEF IT!Steps
<1>2. t[1] = "carry over" /\ t[2] = "register service"
  OBVIOUS
<1>3. t # <<>>
  BY <1>1
<1> HIDE DEF t
<1>4. \A i \in 1 .. 2 :
        /\ t[i] # "unregister task"
        /\ t[i] # "register task"
        /\ t[i] = "register service" => i = 2
  BY <1>2, Short
<1>5. Sound(t)
  BY <1>1, <1>4 DEF Sound
<1>6. Before(t, "delete service", "register task")
  BY <1>1, <1>4 DEF Before
<1> QED
  BY <1>1, <1>3, <1>5, <1>6 DEF t

LEMMA ServiceAfterTask ==
  LET t == <<"stop", "unregister task", "stop others", "carry over", "register service">>
  IN  /\ t \in Seq(IT!Steps)
      /\ t # <<>>
      /\ Sound(t)
      /\ Before(t, "delete service", "register task")
      /\ Before(t, "unregister task", "register service")
<1> DEFINE t == <<"stop", "unregister task", "stop others", "carry over", "register service">>
<1>1. t \in Seq(IT!Steps) /\ Len(t) = 5
  BY DEF IT!Steps
<1>2. t[1] = "stop" /\ t[2] = "unregister task" /\ t[3] = "stop others" /\ t[4] = "carry over" /\ t[5] = "register service"
  OBVIOUS
<1>3. t # <<>>
  BY <1>1
<1> HIDE DEF t
<1>4. \A i \in 1 .. 5 :
        /\ t[i] = "unregister task" => i = 2
        /\ t[i] # "register task"
        /\ t[i] = "register service" => i = 5
  BY <1>2, Short
<1>5. 2 + 1 = 3 /\ 3 \in 1 .. 5
  OBVIOUS
<1>6. Sound(t)
  BY <1>1, <1>2, <1>4, <1>5 DEF Sound
<1>7. Before(t, "delete service", "register task")
  BY <1>1, <1>4 DEF Before
<1>8. 2 \in 1 .. (5 - 1)
  OBVIOUS
<1>9. Before(t, "unregister task", "register service")
  BY <1>1, <1>2, <1>4, <1>8 DEF Before
<1> QED
  BY <1>1, <1>3, <1>6, <1>7, <1>9 DEF t

LEMMA TaskGoes ==
  LET t == <<"stop", "unregister task", "stop others">>
  IN  /\ t \in Seq(IT!Steps)
      /\ t # <<>>
      /\ Sound(t)
      /\ Before(t, "delete service", "register task")
      /\ Before(t, "unregister task", "register service")
<1> DEFINE t == <<"stop", "unregister task", "stop others">>
<1>1. t \in Seq(IT!Steps) /\ Len(t) = 3
  BY DEF IT!Steps
<1>2. t[1] = "stop" /\ t[2] = "unregister task" /\ t[3] = "stop others"
  OBVIOUS
<1>3. t # <<>>
  BY <1>1
<1> HIDE DEF t
<1>4. \A i \in 1 .. 3 :
        /\ t[i] = "unregister task" => i = 2
        /\ t[i] # "register task"
        /\ t[i] # "register service"
  BY <1>2, Short
<1>5. 2 + 1 = 3 /\ 3 \in 1 .. 3
  OBVIOUS
<1>6. Sound(t)
  BY <1>1, <1>2, <1>4, <1>5 DEF Sound
<1>7. Before(t, "delete service", "register task")
  BY <1>1, <1>4 DEF Before
<1>8. Before(t, "unregister task", "register service")
  BY <1>1, <1>4 DEF Before
<1> QED
  BY <1>1, <1>3, <1>6, <1>7, <1>8 DEF t

LEMMA ServiceGoes ==
  LET t == <<"delete service", "stop others", "forget report">>
  IN  /\ t \in Seq(IT!Steps)
      /\ t # <<>>
      /\ Sound(t)
      /\ Before(t, "delete service", "register task")
      /\ Before(t, "unregister task", "register service")
<1> DEFINE t == <<"delete service", "stop others", "forget report">>
<1>1. t \in Seq(IT!Steps) /\ Len(t) = 3
  BY DEF IT!Steps
<1>2. t[1] = "delete service" /\ t[2] = "stop others" /\ t[3] = "forget report"
  OBVIOUS
<1>3. t # <<>>
  BY <1>1
<1> HIDE DEF t
<1>4. \A i \in 1 .. 3 :
        /\ t[i] # "unregister task"
        /\ t[i] # "register task"
        /\ t[i] # "register service"
  BY <1>2, Short
<1>5. Sound(t)
  BY <1>1, <1>4 DEF Sound
<1>6. Before(t, "delete service", "register task")
  BY <1>1, <1>4 DEF Before
<1>7. Before(t, "unregister task", "register service")
  BY <1>1, <1>4 DEF Before
<1> QED
  BY <1>1, <1>3, <1>5, <1>6, <1>7 DEF t

LEMMA BothGo ==
  LET t == <<"stop", "unregister task", "stop others", "delete service", "stop others", "forget report">>
  IN  /\ t \in Seq(IT!Steps)
      /\ t # <<>>
      /\ Sound(t)
      /\ Before(t, "delete service", "register task")
      /\ Before(t, "unregister task", "register service")
<1> DEFINE t == <<"stop", "unregister task", "stop others", "delete service", "stop others", "forget report">>
<1>1. t \in Seq(IT!Steps) /\ Len(t) = 6
  BY DEF IT!Steps
<1>2. t[1] = "stop" /\ t[2] = "unregister task" /\ t[3] = "stop others" /\ t[4] = "delete service" /\ t[5] = "stop others" /\ t[6] = "forget report"
  OBVIOUS
<1>3. t # <<>>
  BY <1>1
<1> HIDE DEF t
<1>4. \A i \in 1 .. 6 :
        /\ t[i] = "unregister task" => i = 2
        /\ t[i] # "register task"
        /\ t[i] # "register service"
  BY <1>2, Short
<1>5. 2 + 1 = 3 /\ 3 \in 1 .. 6
  OBVIOUS
<1>6. Sound(t)
  BY <1>1, <1>2, <1>4, <1>5 DEF Sound
<1>7. Before(t, "delete service", "register task")
  BY <1>1, <1>4 DEF Before
<1>8. Before(t, "unregister task", "register service")
  BY <1>1, <1>4 DEF Before
<1> QED
  BY <1>1, <1>3, <1>6, <1>7, <1>8 DEF t

LEMMA StartOnly ==
  LET t == <<"start">>
  IN  /\ t \in Seq(IT!Steps)
      /\ t # <<>>
      /\ Sound(t)
      /\ Before(t, "delete service", "register task")
      /\ Before(t, "unregister task", "register service")
<1> DEFINE t == <<"start">>
<1>1. t \in Seq(IT!Steps) /\ Len(t) = 1
  BY DEF IT!Steps
<1>2. t[1] = "start"
  OBVIOUS
<1>3. t # <<>>
  BY <1>1
<1> HIDE DEF t
<1>4. \A i \in 1 .. 1 :
        /\ t[i] # "unregister task"
        /\ t[i] # "register task"
        /\ t[i] # "register service"
  BY <1>2, Short
<1>5. Sound(t)
  BY <1>1, <1>4 DEF Sound
<1>6. Before(t, "delete service", "register task")
  BY <1>1, <1>4 DEF Before
<1>7. Before(t, "unregister task", "register service")
  BY <1>1, <1>4 DEF Before
<1> QED
  BY <1>1, <1>3, <1>5, <1>6, <1>7 DEF t

LEMMA StopOnly ==
  LET t == <<"stop">>
  IN  /\ t \in Seq(IT!Steps)
      /\ t # <<>>
      /\ Sound(t)
      /\ Before(t, "delete service", "register task")
      /\ Before(t, "unregister task", "register service")
<1> DEFINE t == <<"stop">>
<1>1. t \in Seq(IT!Steps) /\ Len(t) = 1
  BY DEF IT!Steps
<1>2. t[1] = "stop"
  OBVIOUS
<1>3. t # <<>>
  BY <1>1
<1> HIDE DEF t
<1>4. \A i \in 1 .. 1 :
        /\ t[i] # "unregister task"
        /\ t[i] # "register task"
        /\ t[i] # "register service"
  BY <1>2, Short
<1>5. Sound(t)
  BY <1>1, <1>4 DEF Sound
<1>6. Before(t, "delete service", "register task")
  BY <1>1, <1>4 DEF Before
<1>7. Before(t, "unregister task", "register service")
  BY <1>1, <1>4 DEF Before
<1> QED
  BY <1>1, <1>3, <1>5, <1>6, <1>7 DEF t

LEMMA SixSame ==
  ASSUME NEW x, NEW y, x[1] = y[1], x[2] = y[2], x[3] = y[3],
         x[4] = y[4], x[5] = y[5], x[6] = y[6]
  PROVE  \A i \in 1 .. 6 : x[i] = y[i]
BY Short

\* The longest of them, of which each half is three things.
LEMMA ThreeAndThree ==
  ASSUME NEW S, NEW u \in Seq(S), NEW v \in Seq(S), Len(u) = 3, Len(v) = 3
  PROVE  /\ u \o v \in Seq(S) /\ Len(u \o v) = 6
         /\ (u \o v)[1] = u[1] /\ (u \o v)[2] = u[2] /\ (u \o v)[3] = u[3]
         /\ (u \o v)[4] = v[1] /\ (u \o v)[5] = v[2] /\ (u \o v)[6] = v[3]
<1> DEFINE w == u \o v
<1>1. /\ w \in Seq(S) /\ Len(w) = Len(u) + Len(v)
      /\ \A i \in 1 .. Len(u) + Len(v) : w[i] = IF i <= Len(u) THEN u[i] ELSE v[i - Len(u)]
  BY ConcatProperties, Zenon
<1> HIDE DEF w
<1>2. Len(w) = 6 /\ \A i \in 1 .. 6 : w[i] = IF i <= 3 THEN u[i] ELSE v[i - 3]
  BY <1>1
<1>3. w[1] = u[1] /\ w[2] = u[2] /\ w[3] = u[3]
  BY <1>2
<1>4. w[4] = v[1] /\ w[5] = v[2] /\ w[6] = v[3]
  BY <1>2
<1> QED
  BY <1>1, <1>2, <1>3, <1>4 DEF w

LEMMA BothJoined ==
  <<"stop", "unregister task", "stop others">> \o <<"delete service", "stop others", "forget report">>
    = <<"stop", "unregister task", "stop others", "delete service", "stop others", "forget report">>
<1> DEFINE u == <<"stop", "unregister task", "stop others">>
           v == <<"delete service", "stop others", "forget report">>
           y == <<"stop", "unregister task", "stop others", "delete service", "stop others", "forget report">>
<1>1. /\ u \in Seq(IT!Steps) /\ Len(u) = 3
      /\ u[1] = "stop" /\ u[2] = "unregister task" /\ u[3] = "stop others"
  BY TaskGoes
<1>2. /\ v \in Seq(IT!Steps) /\ Len(v) = 3
      /\ v[1] = "delete service" /\ v[2] = "stop others" /\ v[3] = "forget report"
  BY ServiceGoes
<1>3. /\ y \in Seq(IT!Steps) /\ Len(y) = 6
      /\ y[1] = "stop" /\ y[2] = "unregister task" /\ y[3] = "stop others"
      /\ y[4] = "delete service" /\ y[5] = "stop others" /\ y[6] = "forget report"
  BY BothGo
<1> HIDE DEF u, v, y
<1>a. u \in Seq(IT!Steps)
  BY <1>1
<1>b. Len(u) = 3
  BY <1>1
<1>c. v \in Seq(IT!Steps)
  BY <1>2
<1>d. Len(v) = 3
  BY <1>2
<1>4. /\ u \o v \in Seq(IT!Steps) /\ Len(u \o v) = 6
      /\ (u \o v)[1] = u[1] /\ (u \o v)[2] = u[2] /\ (u \o v)[3] = u[3]
      /\ (u \o v)[4] = v[1] /\ (u \o v)[5] = v[2] /\ (u \o v)[6] = v[3]
  BY <1>a, <1>b, <1>c, <1>d, ThreeAndThree
<1>5. \A i \in 1 .. 6 : (u \o v)[i] = y[i]
  <2>1. (u \o v)[1] = y[1] /\ (u \o v)[2] = y[2] /\ (u \o v)[3] = y[3]
    BY <1>1, <1>3, <1>4
  <2>2. (u \o v)[4] = y[4] /\ (u \o v)[5] = y[5] /\ (u \o v)[6] = y[6]
    BY <1>2, <1>3, <1>4
  <2> QED
    BY <2>1, <2>2, SixSame
<1>6. u \o v = y
  BY <1>3, <1>4, <1>5, SeqEqual
<1> QED
  BY <1>6 DEF u, v, y

\* Whichever is wanted, and whatever is there: the other one is taken off before
\* it, and everyone stopped after that (plan::install).
LEMMA InstallStepsSound ==
  ASSUME NEW w \in {"task", "service"}, NEW there \in SUBSET {"task", "service"}
  PROVE  LET todo == IT!InstallSteps(w, there)
         IN  /\ todo \in Seq(IT!Steps) /\ Sound(todo)
             /\ "service" \in there => Before(todo, "delete service", "register task")
             /\ "task" \in there => Before(todo, "unregister task", "register service")
<1>1. CASE w = "task" /\ "service" \notin there
  <2>1. IT!InstallSteps(w, there) = <<>> \o <<"register task">>
    BY <1>1 DEF IT!InstallSteps
  <2>2. @ = <<"register task">>
    BY TaskAlone, ConcatEmptySeq
  <2> QED
    BY <1>1, <2>1, <2>2, TaskAlone
<1>2. CASE w = "task" /\ "service" \in there
  <2>1. IT!InstallSteps(w, there) = <<"delete service", "stop others">> \o <<"register task">>
    BY <1>2 DEF IT!InstallSteps
  <2>2. @ = <<"delete service", "stop others", "register task">>
    BY Joined21
  <2> QED
    BY <1>2, <2>1, <2>2, TaskAfterService
<1>3. CASE w = "service" /\ "task" \notin there
  <2>1. IT!InstallSteps(w, there) = <<>> \o <<"carry over", "register service">>
    BY <1>3 DEF IT!InstallSteps
  <2>2. @ = <<"carry over", "register service">>
    BY ServiceAlone, ConcatEmptySeq
  <2> QED
    BY <1>3, <2>1, <2>2, ServiceAlone
<1>4. CASE w = "service" /\ "task" \in there
  <2>1. IT!InstallSteps(w, there) = <<"stop", "unregister task", "stop others">> \o <<"carry over", "register service">>
    BY <1>4 DEF IT!InstallSteps
  <2>2. @ = <<"stop", "unregister task", "stop others", "carry over", "register service">>
    BY Joined32
  <2> QED
    BY <1>4, <2>1, <2>2, ServiceAfterTask
<1> QED
  BY <1>1, <1>2, <1>3, <1>4

\* Nothing is registered on the way out.
LEMMA UninstallStepsSound ==
  ASSUME NEW there \in SUBSET {"task", "service"}, IT!UninstallSteps(there) # <<>>
  PROVE  LET todo == IT!UninstallSteps(there)
         IN  /\ todo \in Seq(IT!Steps) /\ Sound(todo)
             /\ Before(todo, "delete service", "register task")
             /\ Before(todo, "unregister task", "register service")
<1>1. CASE "task" \in there /\ "service" \in there
  <2>1. IT!UninstallSteps(there) =
          <<"stop", "unregister task", "stop others">> \o <<"delete service", "stop others", "forget report">>
    BY <1>1 DEF IT!UninstallSteps
  <2> QED
    BY <2>1, BothJoined, BothGo
<1>2. CASE "task" \in there /\ "service" \notin there
  <2>1. IT!UninstallSteps(there) = <<"stop", "unregister task", "stop others">> \o <<>>
    BY <1>2 DEF IT!UninstallSteps
  <2>2. @ = <<"stop", "unregister task", "stop others">>
    BY TaskGoes, ConcatEmptySeq
  <2> QED
    BY <1>2, <2>1, <2>2, TaskGoes
<1>3. CASE "task" \notin there /\ "service" \in there
  <2>1. IT!UninstallSteps(there) = <<>> \o <<"delete service", "stop others", "forget report">>
    BY <1>3 DEF IT!UninstallSteps
  <2>2. @ = <<"delete service", "stop others", "forget report">>
    BY ServiceGoes, ConcatEmptySeq
  <2> QED
    BY <1>3, <2>1, <2>2, ServiceGoes
<1>4. CASE "task" \notin there /\ "service" \notin there
  BY <1>4, EmptySeq, ConcatEmptySeq DEF IT!UninstallSteps
<1> QED
  BY <1>1, <1>2, <1>3, <1>4

\* A command begins with what is there, as it was told, beside whatever other commands
\* still have to do.
LEMMA BeginStep ==
  ASSUME Arranged, NEW s \in Consoles, NEW who \in {"person", "admin"}, NEW raised \in BOOLEAN,
         IT!Begin(s, who, raised)
  PROVE  Arranged'
<1>1. PICK there \in SUBSET {"task", "service"} :
        /\ IT!Asks(there)
        /\ \E todo \in {IT!InstallSteps(w, there) : w \in {"task", "service"}} \cup
                       {IT!UninstallSteps(there), <<"start">>, <<"stop">>} :
             /\ todo # <<>>
             /\ command' = [command EXCEPT ![s] = [who |-> who, raised |-> raised, todo |-> todo]]
  BY DEF IT!Begin
<1>2. PICK todo \in {IT!InstallSteps(w, there) : w \in {"task", "service"}} \cup
                    {IT!UninstallSteps(there), <<"start">>, <<"stop">>} :
        /\ todo # <<>>
        /\ command' = [command EXCEPT ![s] = [who |-> who, raised |-> raised, todo |-> todo]]
  BY <1>1
<1>3. /\ todo \in Seq(IT!Steps) /\ Sound(todo)
      /\ "service" \in there => Before(todo, "delete service", "register task")
      /\ "task" \in there => Before(todo, "unregister task", "register service")
  BY <1>2, InstallStepsSound, UninstallStepsSound, StartOnly, StopOnly
<1>4. /\ UNCHANGED <<task, service, process, overtaken, spared>> /\ command[s] = Nothing
      /\ unasked' = unasked \/ unasked' = TRUE
      /\ ~unasked' => there = IT!Registered /\ ~unasked
  BY <1>1 DEF IT!Begin, IT!Asks, IT!registered, IT!mixups, Arranged, InstallingTyped
<1> DEFINE c == [who |-> who, raised |-> raised, todo |-> todo]
<1>5. c \in IT!Commanded /\ c.todo = todo
  BY <1>2, <1>3 DEF IT!Commanded
<1> HIDE DEF c
<1>6. /\ command' \in [Consoles -> IT!Commanded \cup {Nothing}] /\ command'[s] = c
      /\ \A t \in Consoles \ {s} : command'[t] = command[t]
  BY <1>2, <1>5 DEF Arranged, InstallingTyped, c
<1>7. InstallingTyped'
  BY <1>4, <1>6 DEF Arranged, InstallingTyped
<1>8. ServiceIsRegistered'
  BY <1>4 DEF Arranged, ServiceIsRegistered, IT!Running
<1>9. StopsNext'
  BY <1>3, <1>5, <1>6 DEF Arranged, StopsNext
<1>10. ASSUME ~unasked', ~overtaken' PROVE OtherGoesFirst'
  <2>1. /\ service => Before(c.todo, "delete service", "register task")
        /\ task => Before(c.todo, "unregister task", "register service")
    BY <1>3, <1>4, <1>5, <1>10 DEF IT!Registered
  <2>2. (service => ~IT!LeavesService(c)) /\ (task => ~IT!LeavesTask(c))
    BY <2>1 DEF Before, IT!LeavesService, IT!LeavesTask
  <2>3. OtherGoesFirst
    BY <1>4, <1>10 DEF Arranged
  <2> SUFFICES ASSUME NEW t \in Consoles, command'[t] # Nothing
               PROVE  /\ service' => ~IT!LeavesService(command'[t])
                      /\ task' => ~IT!LeavesTask(command'[t])
    BY DEF OtherGoesFirst, IT!LeavesService, IT!LeavesTask
  <2>4. CASE t = s
    BY <1>4, <1>6, <2>2, <2>4
  <2>5. CASE t # s
    BY <1>4, <1>6, <2>3, <2>5 DEF OtherGoesFirst
  <2> QED
    BY <2>4, <2>5
<1>11. ASSUME ~unasked', ~overtaken' PROVE Outlives'
  <2>1. Outlives
    BY <1>4, <1>11 DEF Arranged
  <2>2. \A t \in Consoles : IT!YetToStop(t) => IT!YetToStop(t)'
    BY <1>4, <1>6 DEF IT!YetToStop, IT!At
  <2>3. IT!Running("task")' = IT!Running("task")
    BY <1>4 DEF IT!Running
  <2> QED
    BY <1>4, <2>1, <2>2, <2>3 DEF Outlives
<1>12. ASSUME ~unasked', ~overtaken' PROVE ~(task' /\ service')
  BY <1>4, <1>12 DEF Arranged
<1> QED
  BY <1>7, <1>8, <1>9, <1>10, <1>11, <1>12 DEF Arranged

\* Every step of the processes, the system and the commands keeps it.
LEMMA ArrangedStep == Arranged /\ [IT!Next]_(IT!vars) => Arranged'
<1> SUFFICES ASSUME Arranged, [IT!Next]_(IT!vars) PROVE Arranged'
  OBVIOUS
<1>1. CASE Quiet
  BY <1>1, QuietSteps
<1>2. CASE \E s \in Consoles, who \in {"person", "admin"}, raised \in BOOLEAN :
             (who = "admin" => raised) /\ IT!Begin(s, who, raised)
  BY <1>2, BeginStep
<1>3. CASE \E s \in Consoles : IT!Commands(s)
  BY <1>3, CommandSteps
<1>4. CASE IT!Reboot
  BY <1>4, RebootStep
<1>5. CASE UNCHANGED IT!vars
  <2>1. UNCHANGED <<task, service, command, unasked, overtaken, spared, process>>
    BY <1>5 DEF IT!vars
  <2> QED
    BY <2>1, NobodyMoves, QuietArranged DEF Arranged, ServiceIsRegistered
<1> QED
  BY <1>1, <1>2, <1>3, <1>4, <1>5 DEF IT!Next, Quiet

\* service.rs, "it is never both": by however many commands side by side, of whichever
\* account, and wherever each of them failed, was cut off, or the machine was started
\* again, the task and the service are not both registered, and their daemons are not
\* both alive.  It says so of a machine where PowerShell answered what was registered
\* and what ran, and where nobody registered the one while another command, told that
\* it was absent, had yet to register the other; and of daemons but those that were not
\* stopped when the task was taken off, the command being cut off or refused, or the
\* service being registered first by another.
THEOREM OneArrangementAlways == IT!Spec => []OneArrangement
<1>1. IT!Spec => []Arranged
  BY ArrangedInit, ArrangedStep, PTL DEF IT!Spec
<1>2. Arranged => OneArrangement
  BY ArrangedSuffices DEF OneArrangement
<1> QED
  BY <1>1, <1>2, PTL

-----------------------------------------------------------------------------
(* Reach.                                                                  *)

ReachTyped ==
  /\ reachRefused \in Nat \cup {Nothing} /\ reachSent \in Nat \cup {Nothing}
  /\ streak \in Nat /\ onTheWay \in Nat

\* What was sent into the wall since the last refusal is still on its way to be
\* heard of, and no time has passed since: so it cannot be taken for something
\* that landed.
StillOut ==
  reachSent # Nothing /\ reachRefused # Nothing /\ ~reachLanded /\ ~remarked
    => reachSent = 0 /\ onTheWay > 0

Believing == ReachTyped /\ StillOut

LEMMA BelievingInit == RE!Init => Believing
BY ReachAssumption DEF RE!Init, Believing, ReachTyped, StillOut

\* The smaller of two numbers.
LEMMA LesserIsOne == \A a, b \in Nat : RE!Lesser(a, b) \in Nat
BY DEF RE!Lesser

\* What is sent is remembered since when, if nothing was.
LEMMA SentSince ==
  /\ RE!Sent => reachSent' = reachSent \/ reachSent' = 0
  /\ RE!Sent /\ RE!Blocked => reachSent' = reachSent
BY DEF RE!Sent

LEMMA BelievingKeeps == ASSUME Believing, [RE!Next]_(RE!vars) PROVE Believing'
<1> USE ReachAssumption
<1> USE DEF Believing, ReachTyped, StillOut
<1>1. CASE RE!Inject
  <2>1. reachSent' = reachSent \/ reachSent' = 0
    BY <1>1, SentSince DEF RE!Inject
  <2>2. \/ onTheWay' = onTheWay + 1 /\ (reachLanded' <=> reachLanded)
        \/ onTheWay' = onTheWay /\ reachLanded'
    BY <1>1 DEF RE!Inject
  <2>3. UNCHANGED <<reachRefused, streak>> /\ (remarked' <=> remarked)
    BY <1>1 DEF RE!Inject
  <2>. QED BY <2>1, <2>2, <2>3
<1>2. CASE RE!Remark
  BY <1>2, SentSince DEF RE!Remark
<1>3. CASE RE!Refused
  <2>1. streak' \in Nat
    <3>1. (IF RE!RunIsOver THEN 0 ELSE streak) + 1 \in Nat
      OBVIOUS
    <3>. QED BY <1>3, <3>1, LesserIsOne DEF RE!Refused
  <2>. QED BY <1>3, <2>1 DEF RE!Refused
<1>4. CASE RE!Suspend
  <2>1. /\ UNCHANGED <<reachRefused, reachSent, streak>>
        /\ (reachLanded' <=> reachLanded) /\ (remarked' <=> remarked)
    BY <1>4, SentSince DEF RE!Suspend
  <2>2. onTheWay' = onTheWay \/ onTheWay' = onTheWay + 1
    BY <1>4 DEF RE!Suspend
  <2>. QED BY <2>1, <2>2
<1>5. CASE RE!Resume
  BY <1>5 DEF RE!Resume, RE!believing
<1>6. CASE RE!Attached
  BY <1>6 DEF RE!Attached
<1>7. CASE RE!WallMoves
  BY <1>7 DEF RE!WallMoves, RE!believing
<1>8. CASE RE!Tick
  <2>1. reachRefused' \in Nat \cup {Nothing} /\ (reachRefused' # Nothing => reachRefused # Nothing)
    <3>1. CASE reachRefused = Nothing
      BY <1>8, <3>1 DEF RE!Tick
    <3>2. CASE reachRefused # Nothing
      <4>1. reachRefused' = RE!Lesser(reachRefused + 1, BacksOffTo)
        BY <1>8, <3>2 DEF RE!Tick
      <4>2. reachRefused + 1 \in Nat
        BY <3>2
      <4>. QED BY <3>2, <4>1, <4>2, LesserIsOne
    <3>. QED BY <3>1, <3>2
  <2>. QED BY <1>8, <2>1 DEF RE!Tick
<1>9. CASE UNCHANGED RE!vars
  BY <1>9 DEF RE!vars, RE!believing
<1>. QED
  BY <1>1, <1>2, <1>3, <1>4, <1>5, <1>6, <1>7, <1>8, <1>9 DEF RE!Next

\* A refusal with nothing landed or remarked since the last one lengthens the run:
\* as nothing sent was believed to have landed, the run is not over.
LEMMA RunGoesOn ==
  ASSUME Believing, RE!Refused, reachRefused # Nothing, ~reachLanded, ~remarked
  PROVE  streak' > streak \/ streak' = MaxStreak
<1>1. ~RE!RunIsOver
  BY ReachAssumption DEF RE!RunIsOver, Believing, StillOut
<1>2. streak' = RE!Lesser(MaxStreak, streak + 1)
  BY <1>1 DEF RE!Refused
<1>. QED BY <1>2, ReachAssumption DEF RE!Lesser, Believing, ReachTyped

\* Running into the same wall again and again makes the service wait longer each
\* time, up to the limit, for whatever times and limits there are (Reach::refused
\* and run_is_over of cli/secure/reach.rs).
THEOREM WallIsBelievedLonger == RE!Spec => BacksOff
<1>1. Believing /\ [RE!Next]_(RE!vars) => Believing'
  BY BelievingKeeps
<1>2. Believing /\ [RE!Next]_(RE!vars)
        => [RE!Refused /\ reachRefused # Nothing /\ ~reachLanded /\ ~remarked
              => streak' > streak \/ streak' = MaxStreak]_(RE!vars)
  BY RunGoesOn
<1>. QED BY BelievingInit, <1>1, <1>2, PTL DEF RE!Spec, BacksOff, RE!BacksOff

-----------------------------------------------------------------------------
(* Notice.                                                                 *)

NoticeTyped ==
  /\ clip \in [seq : Nat, ours : BOOLEAN, shared : BOOLEAN]
  /\ noticeQueue \in Seq({"update", "offer", "watch", "ignore"})
  /\ looks \in Nat /\ busy \in Nat /\ asks \in Nat /\ switches \in Nat
  /\ last \in 0 .. clip.seq

\* Nobody turns watching off where nobody asked for it.
NobodyTurnsItOff ==
  switches = 0 => \A i \in DOMAIN noticeQueue : noticeQueue[i] \notin {"watch", "ignore"}

\* Where the last thing noticed is what is on the clipboard still, and it can be
\* shared, a look that came to nothing found it in somebody else's hands: it is
\* reported, or about to be, unless every look did.
UnderObservation ==
  clip.seq = last /\ clip.shared =>
    /\ looks <= busy
    /\ switches = 0 /\ busy < LookAtMost => timer \/ changes = clip

Observed == NoticeTyped /\ NobodyTurnsItOff /\ UnderObservation

LEMMA ObservedInit == NO!Init => Observed
BY NoticeAssumption DEF NO!Init, Observed, NoticeTyped, NobodyTurnsItOff, UnderObservation

\* A message more, or one less.
LEMMA OneMoreMessage ==
  ASSUME Observed, NEW m \in {"update", "offer"}, noticeQueue' = Append(noticeQueue, m),
         UNCHANGED switches
  PROVE  NobodyTurnsItOff' /\ noticeQueue' \in Seq({"update", "offer", "watch", "ignore"})
BY DEF Observed, NoticeTyped, NobodyTurnsItOff

LEMMA OneMessageLess ==
  ASSUME Observed, noticeQueue # <<>>, noticeQueue' = Tail(noticeQueue), UNCHANGED switches
  PROVE  NobodyTurnsItOff' /\ noticeQueue' \in Seq({"update", "offer", "watch", "ignore"})
BY DEF Observed, NoticeTyped, NobodyTurnsItOff

\* The clipboard changes: nothing of what it becomes was noticed yet.
LEMMA NotNoticedYet ==
  ASSUME Observed, NEW mine \in BOOLEAN, NEW shared \in BOOLEAN, NO!Becomes(mine, shared),
         UNCHANGED <<looks, busy, asks, last>>
  PROVE  /\ clip' \in [seq : Nat, ours : BOOLEAN, shared : BOOLEAN]
         /\ last' \in 0 .. clip'.seq /\ clip'.seq # last'
BY DEF NO!Becomes, Observed, NoticeTyped

LEMMA ObservedKeeps == ASSUME Observed, [NO!Next]_(NO!vars) PROVE Observed'
<1> USE DEF Observed
<1>1. CASE NO!Change
  <2>1. PICK shared \in BOOLEAN : NO!Becomes(FALSE, shared)
    BY <1>1 DEF NO!Change
  <2>2. UNCHANGED <<looks, busy, asks, last, switches>>
    BY <1>1 DEF NO!Change
  <2>3. NobodyTurnsItOff' /\ noticeQueue' \in Seq({"update", "offer", "watch", "ignore"})
    <3>1. CASE listening
      BY <1>1, <3>1, OneMoreMessage DEF NO!Change
    <3>2. CASE ~listening
      BY <1>1, <3>2 DEF NO!Change, NoticeTyped, NobodyTurnsItOff
    <3>. QED BY <3>1, <3>2
  <2>4. /\ clip' \in [seq : Nat, ours : BOOLEAN, shared : BOOLEAN]
        /\ last' \in 0 .. clip'.seq /\ clip'.seq # last'
    BY <2>1, <2>2, NotNoticedYet
  <2>. QED BY <2>2, <2>3, <2>4 DEF NoticeTyped, UnderObservation
<1>2. CASE NO!Offer
  <2>1. UNCHANGED <<clip, timer, looks, asks, changes, busy, last, switches>>
    BY <1>2 DEF NO!Offer
  <2>2. NobodyTurnsItOff' /\ noticeQueue' \in Seq({"update", "offer", "watch", "ignore"})
    BY <1>2, OneMoreMessage DEF NO!Offer
  <2>. QED BY <2>1, <2>2 DEF NoticeTyped, UnderObservation
<1>3. CASE NO!Watch
  <2>1. UNCHANGED <<clip, timer, looks, asks, changes, busy, last>> /\ switches' = switches + 1
    BY <1>3 DEF NO!Watch
  <2>2. noticeQueue' \in Seq({"update", "offer", "watch", "ignore"})
    BY <1>3 DEF NO!Watch, NoticeTyped
  <2>. QED BY <2>1, <2>2 DEF NoticeTyped, NobodyTurnsItOff, UnderObservation
<1>4. CASE NO!TakeOffer
  <2>1. NO!Becomes(TRUE, TRUE) /\ UNCHANGED <<looks, busy, asks, last, switches>>
    BY <1>4 DEF NO!TakeOffer
  <2>2. NobodyTurnsItOff' /\ noticeQueue' \in Seq({"update", "offer", "watch", "ignore"})
    <3>1. noticeQueue # <<>>
      BY <1>4 DEF NO!TakeOffer, NO!Next1
    <3>2. CASE listening
      <4>1. noticeQueue' = Append(Tail(noticeQueue), "update")
        BY <1>4, <3>2 DEF NO!TakeOffer
      <4>. QED BY <2>1, <3>1, <4>1 DEF NoticeTyped, NobodyTurnsItOff
    <3>3. CASE ~listening
      BY <1>4, <3>1, <3>3, OneMessageLess DEF NO!TakeOffer
    <3>. QED BY <3>2, <3>3
  <2>3. /\ clip' \in [seq : Nat, ours : BOOLEAN, shared : BOOLEAN]
        /\ last' \in 0 .. clip'.seq /\ clip'.seq # last'
    BY <2>1, NotNoticedYet
  <2>. QED BY <2>1, <2>2, <2>3 DEF NoticeTyped, UnderObservation
<1>5. CASE NO!Update
  <2>1. UNCHANGED <<clip, asks, changes, switches>>
    BY <1>5 DEF NO!Update
  <2>2. NobodyTurnsItOff' /\ noticeQueue' \in Seq({"update", "offer", "watch", "ignore"})
    BY <1>5, OneMessageLess DEF NO!Update, NO!Next1
  <2>3. CASE clip.ours
    BY <1>5, <2>1, <2>2, <2>3 DEF NO!Update, NoticeTyped, UnderObservation
  <2>4. CASE ~clip.ours
    <3>1. looks' = 0 /\ busy' = 0 /\ last' = clip.seq /\ timer'
      BY <1>5, <2>4 DEF NO!Update, NO!FreshLook
    <3>. QED BY <2>1, <2>2, <3>1 DEF NoticeTyped, UnderObservation
  <2>. QED BY <2>3, <2>4
<1>6. CASE NO!SetWatching
  <2>1. UNCHANGED <<clip, looks, asks, changes, busy, last, switches>>
    BY <1>6 DEF NO!SetWatching
  <2>2. NobodyTurnsItOff' /\ noticeQueue' \in Seq({"update", "offer", "watch", "ignore"})
    BY <1>6, OneMessageLess DEF NO!SetWatching
  <2>3. switches # 0
    BY <1>6 DEF NO!SetWatching, NobodyTurnsItOff, NoticeTyped
  <2>. QED BY <2>1, <2>2, <2>3 DEF NoticeTyped, UnderObservation
<1>7. CASE NO!SettleBusy
  <2>1. /\ looks' = looks + 1 /\ busy' = busy + 1
        /\ timer' = (looks + 1 < LookAtMost)
        /\ UNCHANGED <<clip, noticeQueue, asks, changes, last, switches>>
    BY <1>7 DEF NO!SettleBusy
  <2>2. looks <= busy => (busy' < LookAtMost => timer')
    <3>1. looks <= busy /\ busy + 1 < LookAtMost => looks + 1 < LookAtMost
      BY NoticeAssumption DEF NoticeTyped
    <3>. QED BY <2>1, <3>1
  <2>. QED BY <2>1, <2>2 DEF NoticeTyped, NobodyTurnsItOff, UnderObservation
<1>8. CASE NO!SettleEmpty
  <2>1. /\ looks' = looks + 1 /\ ~clip.shared
        /\ UNCHANGED <<clip, noticeQueue, busy, last, switches>>
    BY <1>8 DEF NO!SettleEmpty
  <2>2. asks' \in Nat
    BY <1>8 DEF NO!SettleEmpty, NoticeTyped
  <2>. QED BY <2>1, <2>2 DEF NoticeTyped, NobodyTurnsItOff, UnderObservation
<1>9. CASE NO!SettleFound
  <2>1. /\ looks' = 0 /\ changes' = clip
        /\ UNCHANGED <<clip, noticeQueue, asks, busy, last, switches>>
    BY <1>9 DEF NO!SettleFound
  <2>. QED BY <2>1 DEF NoticeTyped, NobodyTurnsItOff, UnderObservation
<1>10. CASE NO!LookAgain
  <2>1. /\ UNCHANGED <<clip, noticeQueue, timer, looks, busy, last, switches>>
        /\ asks' = asks - 1 /\ asks > 0
        /\ changes' = IF clip.shared THEN clip ELSE changes
    BY <1>10 DEF NO!LookAgain
  <2>. QED BY <2>1 DEF NoticeTyped, NobodyTurnsItOff, UnderObservation
<1>11. CASE UNCHANGED NO!vars
  BY <1>11 DEF NO!vars, NoticeTyped, NobodyTurnsItOff, UnderObservation
<1>. QED
  BY <1>1, <1>2, <1>3, <1>4, <1>5, <1>6, <1>7, <1>8, <1>9, <1>10, <1>11 DEF NO!Next

\* What somebody copied last is what was reported once everything has settled, in
\* whatever order notices, offers and looks came, however often it is looked at
\* (window_proc and look_with_an_apartment of platform/windows.rs).
THEOREM LastCopyIsReported == NO!Spec => []ReportedAsLeft
<1>1. Observed /\ [NO!Next]_(NO!vars) => Observed'
  BY ObservedKeeps
<1>2. Observed => ReportedAsLeft
  BY DEF Observed, UnderObservation, ReportedAsLeft, NO!ReportedAsLeft, NO!Settled
<1>. QED BY ObservedInit, <1>1, <1>2, PTL DEF NO!Spec

-----------------------------------------------------------------------------
(* Capture.                                                                *)

\* What the hooks see, and what the other machine is told.
Sights == {"down", "up", "move"}
Words == {"down", "up", "enter", "enterHolding", "leave", "goodbye"}

CaptureTyped ==
  /\ hand \in BOOLEAN /\ captureHeld \in BOOLEAN /\ remote \in BOOLEAN
  /\ away \in BOOLEAN /\ running \in BOOLEAN /\ captureMissed \in BOOLEAN
  /\ seen \in Seq(Sights) /\ captureEvents \in Seq(Sights) /\ wire \in Seq(Words)

\* The i-th is the last in a queue of sights that is of the key.
LastHeard(sights, i) ==
  /\ i \in DOMAIN sights /\ sights[i] # "move"
  /\ \A j \in DOMAIN sights : j > i => sights[j] = "move"

\* The other machine will hold the key once it has heard everything, exactly if the
\* server has it as held, and the cursor there.
WillHold ==
  LET should == running /\ away /\ captureHeld IN
    /\ wire = <<>> => remote = should
    /\ wire # <<>> => (wire[Len(wire)] \in {"down", "enterHolding"}) = should

\* The server will have it as held exactly if the hand should it: the last that was
\* heard of the key, wherever on the way to the server it is by now, is what the
\* hand did last.
WillHave ==
  running /\ ~captureMissed =>
    /\ \A i \in DOMAIN seen : LastHeard(seen, i) => hand = (seen[i] = "down")
    /\ ~CA!Heard(seen) => \A i \in DOMAIN captureEvents :
         LastHeard(captureEvents, i) => hand = (captureEvents[i] = "down")
    /\ ~CA!Heard(seen) /\ ~CA!Heard(captureEvents) => hand = captureHeld

Followed == CaptureTyped /\ WillHold /\ WillHave

LEMMA FollowedInit == CA!Init => Followed
<1>. SUFFICES ASSUME CA!Init PROVE Followed
  OBVIOUS
<1>1. CaptureTyped
  <2>1. <<>> \in Seq(Sights) /\ <<>> \in Seq(Words)
    OBVIOUS
  <2>. QED BY <2>1, Zenon DEF CA!Init, CaptureTyped
<1>2. WillHold
  BY DEF CA!Init, WillHold
<1>3. WillHave
  <2>1. /\ seen = <<>> /\ captureEvents = <<>>
        /\ hand = FALSE /\ captureHeld = FALSE
    BY Zenon DEF CA!Init
  <2>2. ~(\E i : i \in DOMAIN seen) /\ ~(\E i : i \in DOMAIN captureEvents)
    BY <2>1
  <2>. QED BY <2>1, <2>2, Zenon DEF WillHave
<1>. QED BY <1>1, <1>2, <1>3 DEF Followed

\* A sight more: of the key, it is the last; of the pointer, what was the last is.
LEMMA LastOfMore ==
  ASSUME NEW sights \in Seq(Sights), NEW m \in Sights
  PROVE  /\ Append(sights, m) \in Seq(Sights)
         /\ m # "move" => /\ CA!Heard(Append(sights, m))
                          /\ \A i : LastHeard(Append(sights, m), i) => Append(sights, m)[i] = m
         /\ m = "move" => /\ CA!Heard(Append(sights, m)) <=> CA!Heard(sights)
                          /\ \A i : LastHeard(Append(sights, m), i)
                               => LastHeard(sights, i) /\ Append(sights, m)[i] = sights[i]
<1> DEFINE more == Append(sights, m)
<1>1. /\ Len(more) = Len(sights) + 1 /\ more[Len(sights) + 1] = m
      /\ \A i \in 1 .. Len(sights) : more[i] = sights[i]
      /\ more \in Seq(Sights) /\ DOMAIN more = 1 .. Len(sights) + 1 /\ DOMAIN sights = 1 .. Len(sights)
  OBVIOUS
<1>2. Len(sights) \in Nat
  OBVIOUS
<1>. HIDE DEF more
<1>3. ASSUME m # "move"
      PROVE CA!Heard(more) /\ \A i : LastHeard(more, i) => more[i] = m
  <2>1. CA!Heard(more)
    BY <1>1, <1>2, <1>3 DEF CA!Heard
  <2>2. ASSUME NEW i, LastHeard(more, i) PROVE more[i] = m
    <3>1. i \in 1 .. Len(sights) + 1 /\ ~(Len(sights) + 1 > i)
      BY <1>1, <1>2, <1>3, <2>2 DEF LastHeard
    <3>. QED BY <3>1, <1>1, <1>2
  <2>. QED BY <2>1, <2>2
<1>4. ASSUME m = "move"
      PROVE /\ CA!Heard(more) <=> CA!Heard(sights)
            /\ \A i : LastHeard(more, i) => LastHeard(sights, i) /\ more[i] = sights[i]
  <2>1. CA!Heard(more) <=> CA!Heard(sights)
    BY <1>1, <1>2, <1>4 DEF CA!Heard
  <2>2. ASSUME NEW i, LastHeard(more, i) PROVE LastHeard(sights, i) /\ more[i] = sights[i]
    <3>1. i \in 1 .. Len(sights)
      BY <1>1, <1>2, <1>4, <2>2 DEF LastHeard
    <3>. QED BY <3>1, <1>1, <1>2, <2>2 DEF LastHeard
  <2>. QED BY <2>1, <2>2
<1>. QED BY <1>1, <1>3, <1>4 DEF more

\* One less: what is the last of the rest was so before.
LEMMA LastOfRest ==
  ASSUME NEW sights \in Seq(Sights), sights # <<>>
  PROVE  /\ Head(sights) \in Sights /\ Tail(sights) \in Seq(Sights)
         /\ \A i : LastHeard(Tail(sights), i) => LastHeard(sights, i + 1) /\ Tail(sights)[i] = sights[i + 1]
         /\ CA!Heard(Tail(sights)) => CA!Heard(sights)
         /\ ~CA!Heard(Tail(sights)) /\ Head(sights) # "move" => LastHeard(sights, 1)
         /\ ~CA!Heard(Tail(sights)) /\ Head(sights) = "move" => ~CA!Heard(sights)
<1> DEFINE rest == Tail(sights)
<1>1. /\ Head(sights) = sights[1] /\ Len(sights) \in Nat \ {0}
      /\ rest \in Seq(Sights) /\ DOMAIN rest = 1 .. Len(sights) - 1 /\ DOMAIN sights = 1 .. Len(sights)
      /\ \A i \in 1 .. Len(sights) - 1 : rest[i] = sights[i + 1]
      /\ Head(sights) \in Sights
  OBVIOUS
<1>2. \A j \in 1 .. Len(sights) : j = 1 \/ (j - 1 \in 1 .. Len(sights) - 1 /\ sights[j] = rest[j - 1])
  BY <1>1
<1>. HIDE DEF rest
<1>3. ASSUME NEW i, LastHeard(rest, i) PROVE LastHeard(sights, i + 1) /\ rest[i] = sights[i + 1]
  <2>1. i \in 1 .. Len(sights) - 1 /\ rest[i] # "move"
    BY <1>1, <1>3 DEF LastHeard
  <2>2. ASSUME NEW j \in 1 .. Len(sights), j > i + 1 PROVE sights[j] = "move"
    <3>1. j - 1 \in 1 .. Len(sights) - 1 /\ j - 1 > i /\ sights[j] = rest[j - 1]
      BY <1>1, <1>2, <2>1, <2>2
    <3>2. rest[j - 1] = "move"
      BY <1>1, <1>3, <3>1 DEF LastHeard
    <3>. QED BY <3>1, <3>2
  <2>3. i + 1 \in 1 .. Len(sights) /\ rest[i] = sights[i + 1]
    BY <1>1, <2>1
  <2>. QED BY <1>1, <2>1, <2>2, <2>3 DEF LastHeard
<1>4. CA!Heard(rest) => CA!Heard(sights)
  <2>. SUFFICES ASSUME NEW i \in 1 .. Len(sights) - 1, rest[i] # "move" PROVE CA!Heard(sights)
    BY <1>1 DEF CA!Heard
  <2>1. i + 1 \in 1 .. Len(sights) /\ sights[i + 1] # "move"
    BY <1>1
  <2>. QED BY <1>1, <2>1 DEF CA!Heard
<1>5. ASSUME ~CA!Heard(rest) PROVE \A j \in 1 .. Len(sights) : j > 1 => sights[j] = "move"
  BY <1>1, <1>2, <1>5 DEF CA!Heard
<1>6. ~CA!Heard(rest) /\ Head(sights) # "move" => LastHeard(sights, 1)
  BY <1>1, <1>5 DEF LastHeard
<1>7. ~CA!Heard(rest) /\ Head(sights) = "move" => ~CA!Heard(sights)
  BY <1>1, <1>5 DEF CA!Heard
<1>. QED BY <1>1, <1>3, <1>4, <1>6, <1>7 DEF rest

\* What is told more, and what has arrived.
LEMMA SaidHolds ==
  ASSUME CaptureTyped, NEW what \in Words, wire' = Append(wire, what)
  PROVE  wire' \in Seq(Words) /\ wire' # <<>> /\ wire'[Len(wire')] = what
BY DEF CaptureTyped

LEMMA ArriveKeeps == ASSUME Followed, CA!Arrive PROVE Followed'
<1>1. /\ hand' = hand /\ captureHeld' = captureHeld /\ away' = away /\ running' = running
      /\ captureMissed' = captureMissed /\ seen' = seen /\ captureEvents' = captureEvents
  BY DEF CA!Arrive, CA!machine, CA!way
<1>2. wire # <<>> /\ wire' = Tail(wire) /\ remote' = (Head(wire) \in {"down", "enterHolding"})
  BY Zenon DEF CA!Arrive
<1>3. wire \in Seq(Words)
  BY DEF Followed, CaptureTyped
<1>4. wire' \in Seq(Words)
  BY <1>2, <1>3
<1>5. wire' = <<>> => Head(wire) = wire[Len(wire)]
  <2>1. Len(wire) \in Nat \ {0} /\ Head(wire) = wire[1] /\ Len(Tail(wire)) = Len(wire) - 1
    BY <1>2, <1>3
  <2>2. Tail(wire) = <<>> => Len(wire) = 1
    BY <2>1
  <2>. QED BY <1>2, <2>1, <2>2
<1>6. wire' # <<>> => wire'[Len(wire')] = wire[Len(wire)]
  BY <1>2, <1>3
<1>7. CaptureTyped'
  <2>1. remote' \in BOOLEAN
    BY <1>2
  <2>. QED BY <1>1, <1>4, <2>1, Zenon DEF Followed, CaptureTyped
<1>8. WillHold'
  BY <1>1, <1>2, <1>5, <1>6, Zenon DEF Followed, WillHold
<1>9. WillHave'
  BY <1>1, Zenon DEF Followed, WillHave, CA!Heard, LastHeard
<1>. QED BY <1>7, <1>8, <1>9 DEF Followed

-----------------------------------------------------------------------------
(* The hand, and what it did on its way to the server.                     *)

\* A step that tells the other machine nothing, and leaves the record alone.
LEMMA SaysNothing ==
  ASSUME Followed, wire' = wire, remote' = remote, running' = running, away' = away,
         captureHeld' = captureHeld
  PROVE  WillHold'
BY Zenon DEF Followed, WillHold

LEMMA PressKeeps == ASSUME Followed, CA!Press PROVE Followed'
<1>1. /\ captureHeld' = captureHeld /\ away' = away /\ running' = running
      /\ wire' = wire /\ remote' = remote /\ captureEvents' = captureEvents
  BY DEF CA!Press, CA!server
<1>2. hand' \in BOOLEAN
  BY Zenon DEF CA!Press
<1>3. WillHold'
  BY <1>1, SaysNothing
<1>4. CASE blind \/ ~running
  <2>1. captureMissed' = TRUE /\ seen' = seen
    BY <1>4, Zenon DEF CA!Press
  <2>2. CaptureTyped'
    BY <1>1, <1>2, <2>1, Zenon DEF Followed, CaptureTyped
  <2>. QED BY <1>3, <2>1, <2>2, Zenon DEF Followed, WillHave
<1>5. CASE ~(blind \/ ~running)
  <2> DEFINE m == IF hand' THEN "down" ELSE "up"
  <2>1. seen' = Append(seen, m) /\ captureMissed' = FALSE
    BY <1>5, Zenon DEF CA!Press, CA!Hook, CA!IsOurs
  <2>2. m \in Sights /\ m # "move" /\ hand' = (m = "down")
    BY <1>2 DEF Sights
  <2>3. seen \in Seq(Sights)
    BY DEF Followed, CaptureTyped
  <2>. HIDE DEF m
  <2>4. seen' \in Seq(Sights) /\ CA!Heard(seen') /\ \A i : LastHeard(seen', i) => seen'[i] = m
    BY <2>1, <2>2, <2>3, LastOfMore
  <2>5. CaptureTyped'
    BY <1>1, <1>2, <2>1, <2>4, Zenon DEF Followed, CaptureTyped
  <2>6. WillHave'
    BY <2>2, <2>4, Zenon DEF WillHave, CA!Heard
  <2>. QED BY <1>3, <2>5, <2>6 DEF Followed
<1>. QED BY <1>4, <1>5

LEMMA MoveKeeps == ASSUME Followed, CA!Move PROVE Followed'
<1>1. /\ hand' = hand /\ captureHeld' = captureHeld /\ away' = away /\ running' = running
      /\ wire' = wire /\ remote' = remote /\ captureEvents' = captureEvents
      /\ captureMissed' = captureMissed /\ seen' = Append(seen, "move")
  BY DEF CA!Move, CA!server, CA!machine
<1>2. seen \in Seq(Sights) /\ "move" \in Sights
  BY DEF Followed, CaptureTyped, Sights
<1>3. /\ seen' \in Seq(Sights) /\ (CA!Heard(seen') <=> CA!Heard(seen))
      /\ \A i : LastHeard(seen', i) => LastHeard(seen, i) /\ seen'[i] = seen[i]
  BY <1>1, <1>2, LastOfMore
<1>4. CaptureTyped'
  BY <1>1, <1>3, Zenon DEF Followed, CaptureTyped
<1>5. WillHave'
  <2>1. \A i : LastHeard(seen, i) => i \in DOMAIN seen
    BY DEF LastHeard
  <2>. QED BY <1>1, <1>3, <2>1, Zenon DEF Followed, WillHave, CA!Heard
<1>. QED BY <1>1, <1>4, <1>5, SaysNothing DEF Followed

LEMMA PumpKeeps == ASSUME Followed, CA!Pump PROVE Followed'
<1>1. /\ hand' = hand /\ captureHeld' = captureHeld /\ away' = away /\ running' = running
      /\ wire' = wire /\ remote' = remote
      /\ seen # <<>> /\ seen' = Tail(seen)
  BY DEF CA!Pump, CA!server, CA!machine
<1>2. seen \in Seq(Sights) /\ captureEvents \in Seq(Sights)
  BY DEF Followed, CaptureTyped
<1>3. /\ Head(seen) \in Sights /\ seen' \in Seq(Sights)
      /\ \A i : LastHeard(seen', i) => LastHeard(seen, i + 1) /\ seen'[i] = seen[i + 1]
      /\ CA!Heard(seen') => CA!Heard(seen)
      /\ ~CA!Heard(seen') /\ Head(seen) # "move" => LastHeard(seen, 1)
      /\ ~CA!Heard(seen') /\ Head(seen) = "move" => ~CA!Heard(seen)
  BY <1>1, <1>2, LastOfRest
<1>4. \A i : LastHeard(seen, i) => i \in DOMAIN seen /\ CA!Heard(seen)
  BY DEF LastHeard, CA!Heard
<1>5. running /\ ~captureMissed => \A i : LastHeard(seen', i) => hand = (seen'[i] = "down")
  <2>1. ASSUME running, ~captureMissed, NEW i, LastHeard(seen', i)
        PROVE  hand = (seen'[i] = "down")
    <3>1. LastHeard(seen, i + 1) /\ seen'[i] = seen[i + 1]
      BY <1>3, <2>1, Zenon
    <3>2. hand = (seen[i + 1] = "down")
      BY <1>4, <2>1, <3>1, Zenon DEF Followed, WillHave
    <3>. QED BY <3>1, <3>2, Zenon
  <2>. QED BY <2>1, Zenon
<1>6. seen[1] = Head(seen)
  BY <1>1, <1>2
<1>7. CASE Len(captureEvents) < Room
  <2>1. captureEvents' = Append(captureEvents, Head(seen)) /\ captureMissed' = captureMissed
    BY <1>7, Zenon DEF CA!Pump
  <2> DEFINE m == Head(seen)
  <2>2. /\ Append(captureEvents, m) \in Seq(Sights)
        /\ m # "move" => /\ CA!Heard(Append(captureEvents, m))
                         /\ \A i : LastHeard(Append(captureEvents, m), i)
                              => Append(captureEvents, m)[i] = m
        /\ m = "move" => /\ CA!Heard(Append(captureEvents, m)) <=> CA!Heard(captureEvents)
                         /\ \A i : LastHeard(Append(captureEvents, m), i)
                              => /\ LastHeard(captureEvents, i)
                                 /\ Append(captureEvents, m)[i] = captureEvents[i]
    BY <1>2, <1>3, LastOfMore, Zenon
  <2>3. CaptureTyped'
    BY <1>1, <1>3, <2>1, <2>2, Zenon DEF Followed, CaptureTyped
  <2>4. ASSUME running, ~captureMissed, ~CA!Heard(seen')
        PROVE  /\ \A i : LastHeard(captureEvents', i) => hand = (captureEvents'[i] = "down")
               /\ ~CA!Heard(captureEvents') => hand = captureHeld
    <3>1. CASE m # "move"
      <4>1. hand = (m = "down")
        BY <1>3, <1>4, <1>6, <2>4, <3>1, Zenon DEF Followed, WillHave
      <4>. QED BY <2>1, <2>2, <3>1, <4>1, Zenon
    <3>2. CASE m = "move"
      <4>1. ~CA!Heard(seen)
        BY <1>3, <2>4, <3>2
      <4>2. \A i : LastHeard(captureEvents, i) => i \in DOMAIN captureEvents
        BY DEF LastHeard
      <4>. QED BY <2>1, <2>2, <2>4, <3>2, <4>1, <4>2, Zenon DEF Followed, WillHave
    <3>. QED BY <3>1, <3>2
  <2>5. WillHave'
    BY <1>1, <1>5, <2>1, <2>4, Zenon DEF WillHave, CA!Heard
  <2>. QED BY <1>1, <2>3, <2>5, SaysNothing DEF Followed
<1>8. CASE ~(Len(captureEvents) < Room)
  <2>1. /\ captureEvents' = captureEvents
        /\ captureMissed' = (captureMissed \/ (Head(seen) # "move" /\ ~CA!Heard(Tail(seen))))
    BY <1>8, Zenon DEF CA!Pump
  <2>2. captureMissed' \in BOOLEAN
    BY <2>1
  <2>3. CaptureTyped'
    BY <1>1, <1>3, <2>1, <2>2, Zenon DEF Followed, CaptureTyped
  <2>4. ~captureMissed' /\ ~CA!Heard(seen') => ~captureMissed /\ ~CA!Heard(seen)
    BY <1>1, <1>3, <2>1, Zenon
  <2>5. ~captureMissed' => ~captureMissed
    BY <2>1, Zenon
  <2>6. WillHave'
    BY <1>1, <1>5, <2>1, <2>4, <2>5, Zenon DEF Followed, WillHave, CA!Heard, LastHeard
  <2>. QED BY <1>1, <2>3, <2>6, SaysNothing DEF Followed
<1>. QED BY <1>7, <1>8

-----------------------------------------------------------------------------
(* The server.                                                             *)

\* What a step of the server takes from its queue is the first, and what follows
\* is what was to follow.
LEMMA Heeded ==
  ASSUME Followed, captureEvents # <<>>, captureEvents' = Tail(captureEvents),
         hand' = hand, running' = running, captureMissed' = captureMissed, seen' = seen,
         Head(captureEvents) # "move" => captureHeld' = (Head(captureEvents) = "down"),
         Head(captureEvents) = "move" => captureHeld' = captureHeld
  PROVE  captureEvents' \in Seq(Sights) /\ WillHave'
<1>1. captureEvents \in Seq(Sights)
  BY DEF Followed, CaptureTyped
<1>2. /\ Head(captureEvents) \in Sights /\ captureEvents' \in Seq(Sights)
      /\ \A i : LastHeard(captureEvents', i)
           => LastHeard(captureEvents, i + 1) /\ captureEvents'[i] = captureEvents[i + 1]
      /\ CA!Heard(captureEvents') => CA!Heard(captureEvents)
      /\ ~CA!Heard(captureEvents') /\ Head(captureEvents) # "move" => LastHeard(captureEvents, 1)
      /\ ~CA!Heard(captureEvents') /\ Head(captureEvents) = "move" => ~CA!Heard(captureEvents)
  BY <1>1, LastOfRest
<1>3. \A i : LastHeard(captureEvents, i) => i \in DOMAIN captureEvents
  BY DEF LastHeard
<1>4. captureEvents[1] = Head(captureEvents)
  BY <1>1
<1>5. ASSUME running, ~captureMissed, ~CA!Heard(seen), ~CA!Heard(captureEvents')
      PROVE  hand = captureHeld'
  <2>1. CASE Head(captureEvents) # "move"
    BY <1>2, <1>3, <1>4, <1>5, <2>1, Zenon DEF Followed, WillHave
  <2>2. CASE Head(captureEvents) = "move"
    BY <1>2, <1>5, <2>2, Zenon DEF Followed, WillHave
  <2>. QED BY <2>1, <2>2
<1>6. ASSUME running, ~captureMissed, ~CA!Heard(seen)
      PROVE  \A i : LastHeard(captureEvents', i) => hand = (captureEvents'[i] = "down")
  <2>1. ASSUME NEW i, LastHeard(captureEvents', i) PROVE hand = (captureEvents'[i] = "down")
    <3>1. LastHeard(captureEvents, i + 1) /\ captureEvents'[i] = captureEvents[i + 1]
      BY <1>2, <2>1, Zenon
    <3>2. hand = (captureEvents[i + 1] = "down")
      BY <1>3, <1>6, <3>1, Zenon DEF Followed, WillHave
    <3>. QED BY <3>1, <3>2, Zenon
  <2>. QED BY <2>1, Zenon
<1>7. running /\ ~captureMissed => \A i \in DOMAIN seen : LastHeard(seen, i) => hand = (seen[i] = "down")
  BY Zenon DEF Followed, WillHave
<1>8. WillHave'
  BY <1>5, <1>6, <1>7, Zenon DEF WillHave, CA!Heard, LastHeard
<1>. QED BY <1>2, <1>8

LEMMA KeyKeeps == ASSUME Followed, CA!Key PROVE Followed'
<1>1. /\ hand' = hand /\ away' = away /\ running' = running /\ remote' = remote
      /\ captureMissed' = captureMissed /\ seen' = seen
      /\ captureEvents # <<>> /\ captureEvents' = Tail(captureEvents)
      /\ Head(captureEvents) # "move" /\ running
      /\ CA!Said(Head(captureEvents))
  BY DEF CA!Key, CA!machine
<1>2. captureHeld' = (Head(captureEvents) = "down")
  BY Zenon DEF CA!Key
<1>3. captureEvents' \in Seq(Sights) /\ WillHave'
  BY <1>1, <1>2, Heeded, Zenon
<1>4. captureHeld' \in BOOLEAN
  BY <1>2
<1>5. Head(captureEvents) \in {"down", "up"} /\ {"down", "up"} \subseteq Words
  BY <1>1 DEF Followed, CaptureTyped, Sights, Words
<1>6. wire' \in Seq(Words) /\ WillHold'
  <2>1. CASE away
    <3>1. wire' = Append(wire, Head(captureEvents))
      BY <1>1, <2>1, Zenon DEF CA!Said
    <3>2. wire' \in Seq(Words) /\ wire' # <<>> /\ wire'[Len(wire')] = Head(captureEvents)
      BY <1>5, <3>1, SaidHolds, Zenon DEF Followed
    <3>3. (Head(captureEvents) \in {"down", "enterHolding"}) = captureHeld'
      BY <1>2, <1>5
    <3>4. (running' /\ away' /\ captureHeld') = captureHeld'
      BY <1>1, <1>4, <2>1
    <3>. QED BY <3>2, <3>3, <3>4, Zenon DEF WillHold
  <2>2. CASE ~away
    <3>1. wire' = wire
      BY <1>1, <2>2, Zenon DEF CA!Said
    <3>. QED BY <1>1, <2>2, <3>1, Zenon DEF Followed, CaptureTyped, WillHold
  <2>. QED BY <2>1, <2>2
<1>7. CaptureTyped'
  BY <1>1, <1>3, <1>4, <1>6, Zenon DEF Followed, CaptureTyped
<1>. QED BY <1>3, <1>6, <1>7 DEF Followed

LEMMA CrossOutKeeps == ASSUME Followed, CA!CrossOut PROVE Followed'
<1>1. /\ hand' = hand /\ captureHeld' = captureHeld /\ running' = running /\ remote' = remote
      /\ captureMissed' = captureMissed
      /\ captureEvents # <<>> /\ captureEvents' = Tail(captureEvents)
      /\ Head(captureEvents) = "move" /\ running /\ away' = TRUE
      /\ wire' = Append(wire, IF captureHeld THEN "enterHolding" ELSE "enter")
  BY DEF CA!CrossOut
<1>2. seen' = seen
  BY Zenon DEF CA!CrossOut, CA!Hook, CA!IsOurs
<1>3. captureEvents' \in Seq(Sights) /\ WillHave'
  BY <1>1, <1>2, Heeded, Zenon
<1>4. wire' \in Seq(Words) /\ WillHold'
  <2> DEFINE what == IF captureHeld THEN "enterHolding" ELSE "enter"
  <2>1. what \in Words /\ (what \in {"down", "enterHolding"}) = captureHeld
    BY DEF Words, Followed, CaptureTyped
  <2>. HIDE DEF what
  <2>2. wire' = Append(wire, what)
    BY <1>1, Zenon DEF what
  <2>3. wire' \in Seq(Words) /\ wire' # <<>> /\ wire'[Len(wire')] = what
    BY <2>1, <2>2, SaidHolds, Zenon DEF Followed
  <2>. QED BY <1>1, <2>1, <2>3 DEF WillHold, Followed, CaptureTyped
<1>5. away' \in BOOLEAN
  BY <1>1
<1>6. CaptureTyped'
  BY <1>1, <1>2, <1>3, <1>4, <1>5, Zenon DEF Followed, CaptureTyped
<1>. QED BY <1>3, <1>4, <1>6 DEF Followed

LEMMA CrossHomeKeeps == ASSUME Followed, CA!CrossHome PROVE Followed'
<1>1. /\ hand' = hand /\ captureHeld' = captureHeld /\ running' = running /\ remote' = remote
      /\ captureMissed' = captureMissed /\ seen' = seen
      /\ captureEvents # <<>> /\ captureEvents' = Tail(captureEvents)
      /\ Head(captureEvents) = "move" /\ running /\ away' = FALSE /\ away
      /\ CA!Said("leave")
  BY DEF CA!CrossHome
<1>2. captureEvents' \in Seq(Sights) /\ WillHave'
  BY <1>1, Heeded, Zenon
<1>3. wire' = Append(wire, "leave") /\ "leave" \in Words
  BY <1>1 DEF CA!Said, Words
<1>4. wire' \in Seq(Words) /\ wire' # <<>> /\ wire'[Len(wire')] = "leave"
  BY <1>3, SaidHolds, Zenon DEF Followed
<1>5. WillHold' /\ away' \in BOOLEAN
  <2>1. ("leave" \in {"down", "enterHolding"}) = FALSE /\ FALSE \in BOOLEAN
    OBVIOUS
  <2>. QED BY <1>1, <1>4, <2>1, Zenon DEF WillHold
<1>6. CaptureTyped'
  BY <1>1, <1>2, <1>4, <1>5, Zenon DEF Followed, CaptureTyped
<1>. QED BY <1>2, <1>5, <1>6 DEF Followed

LEMMA StopKeepsHeld == ASSUME Followed, CA!Stop PROVE Followed'
<1>1. /\ hand' = hand /\ captureHeld' = captureHeld /\ away' = away /\ remote' = remote
      /\ captureMissed' = captureMissed /\ seen' = <<>> /\ captureEvents' = <<>>
      /\ running' = FALSE /\ running /\ CA!Said("goodbye")
  BY DEF CA!Stop
<1>2. wire' \in Seq(Words) /\ WillHold'
  <2>1. CASE away
    <3>1. wire' = Append(wire, "goodbye") /\ "goodbye" \in Words
      BY <1>1, <2>1 DEF CA!Said, Words
    <3>2. wire' \in Seq(Words) /\ wire' # <<>> /\ wire'[Len(wire')] = "goodbye"
      BY <3>1, SaidHolds, Zenon DEF Followed
    <3>. QED BY <1>1, <3>2 DEF WillHold
  <2>2. CASE ~away
    <3>1. wire' = wire
      BY <1>1, <2>2, Zenon DEF CA!Said
    <3>. QED BY <1>1, <2>2, <3>1, Zenon DEF Followed, CaptureTyped, WillHold
  <2>. QED BY <2>1, <2>2
<1>3. <<>> \in Seq(Sights) /\ FALSE \in BOOLEAN
  OBVIOUS
<1>4. CaptureTyped'
  BY <1>1, <1>2, <1>3, Zenon DEF Followed, CaptureTyped
<1>5. WillHave'
  BY <1>1, Zenon DEF WillHave
<1>. QED BY <1>2, <1>4, <1>5 DEF Followed

-----------------------------------------------------------------------------
(* Desktops.                                                               *)

\* A step that none of the key's way sees.
LEMMA UnseenKeeps ==
  ASSUME Followed,
         hand' = hand, captureHeld' = captureHeld, away' = away, running' = running,
         wire' = wire, remote' = remote, captureEvents' = captureEvents, seen' = seen,
         captureMissed' = captureMissed
  PROVE  Followed'
<1>1. CaptureTyped' /\ WillHold'
  BY SaysNothing, Zenon DEF Followed, CaptureTyped
<1>2. WillHave'
  BY Zenon DEF Followed, WillHave, CA!Heard, LastHeard
<1>. QED BY <1>1, <1>2 DEF Followed

LEMMA WorkerEndsKeeps == ASSUME Followed, CA!WorkerEnds PROVE Followed'
<1>1. /\ hand' = hand /\ captureHeld' = captureHeld /\ away' = away /\ running' = running
      /\ wire' = wire /\ remote' = remote /\ captureEvents' = captureEvents /\ seen' = <<>>
  BY DEF CA!WorkerEnds, CA!server
<1>2. captureMissed' = (captureMissed \/ CA!Heard(seen))
  BY Zenon DEF CA!WorkerEnds
<1>3. captureMissed' \in BOOLEAN /\ (~captureMissed' => ~captureMissed /\ ~CA!Heard(seen))
  BY <1>2
<1>4. <<>> \in Seq(Sights) /\ ~\E i : i \in DOMAIN <<>>
  OBVIOUS
<1>5. CaptureTyped'
  BY <1>1, <1>3, <1>4, Zenon DEF Followed, CaptureTyped
<1>6. WillHave'
  BY <1>1, <1>3, <1>4, Zenon DEF Followed, WillHave, CA!Heard, LastHeard
<1>. QED BY <1>1, <1>5, <1>6, SaysNothing DEF Followed

LEMMA FollowedKeeps == ASSUME Followed, [CA!Next]_(CA!vars) PROVE Followed'
<1>1. CASE CA!Obey \/ CA!InputMoves \/ CA!WorkerAttaches \/ UNCHANGED CA!vars
  <2>1. /\ hand' = hand /\ captureHeld' = captureHeld /\ away' = away /\ running' = running
        /\ wire' = wire /\ remote' = remote /\ captureEvents' = captureEvents /\ seen' = seen
        /\ captureMissed' = captureMissed
    BY <1>1 DEF CA!Obey, CA!InputMoves, CA!WorkerAttaches, CA!vars, CA!machine, CA!way,
                CA!server, CA!bounds
  <2>. QED BY <2>1, UnseenKeeps
<1>. QED
  BY <1>1, PressKeeps, MoveKeeps, PumpKeeps, KeyKeeps, CrossOutKeeps, CrossHomeKeeps, ArriveKeeps,
     StopKeepsHeld, WorkerEndsKeeps, Zenon DEF CA!Next

\* Once everything has been acted on, the machine the cursor is on should the key
\* exactly when the hand does, and the one that was left does not, however small the
\* sights and whatever desktops and workers came and went (platform/windows/capture.rs
\* and secure/windows/link.rs).
THEOREM HandIsFollowed == CA!Spec => []FollowsTheHand
<1>1. Followed /\ [CA!Next]_(CA!vars) => Followed'
  BY FollowedKeeps
<1>2. Followed => FollowsTheHand
  <2>. SUFFICES ASSUME Followed, CA!Settled
                PROVE (remote => away /\ running) /\ (away /\ running /\ ~captureMissed => remote = hand)
    BY Zenon DEF FollowsTheHand, CA!FollowsTheHand
  <2>1. remote = (running /\ away /\ captureHeld)
    BY Zenon DEF Followed, WillHold, CA!Settled
  <2>2. ~CA!Heard(seen) /\ ~CA!Heard(captureEvents)
    BY DEF CA!Settled, CA!Heard
  <2>3. running /\ ~captureMissed => hand = captureHeld
    BY <2>2, Zenon DEF Followed, WillHave
  <2>. QED BY <2>1, <2>3 DEF Followed, CaptureTyped
<1>. QED BY FollowedInit, <1>1, <1>2, PTL DEF CA!Spec

-----------------------------------------------------------------------------
(* Paste.                                                                  *)

\* Questions are numbered from one on, and none is the number of no question.
Questions == Nat \ {0}

\* What is told to the worker, and what its window's thread finds in its queue.
Messages ==
  [type : {"offer"}, copy : Nat] \cup [type : {"pasted"}, id : Questions, bytes : Nat]
    \cup [type : {"release", "renew", "update"}]

Among(messages) == {messages[i] : i \in DOMAIN messages}

PasteTyped ==
  /\ copies \in Nat /\ standing \in {0, copies}
  /\ fetching \subseteq [id : Questions, copy : Nat]
  /\ toWorker \in Seq(Messages) /\ queue \in Seq(Messages) /\ toService \in Seq(Questions)
  /\ nextId \in Questions /\ rendering \in Nat
  /\ ready \in Nat /\ cache \in Nat
  /\ offer \in [copy : Nat, failures : Nat] /\ pasted \in [bytes : Nat, copy : Nat]

\* Nobody holds an offer that was not announced, ...
WasAnnounced ==
  /\ offer.copy <= copies
  /\ \A m \in Among(queue) \cup Among(toWorker) : m.type = "offer" => m.copy <= copies

\* ... or the answer to a question that was not asked.
WasAsked ==
  /\ \A i \in DOMAIN toService : toService[i] < nextId
  /\ \A f \in fetching : f.id < nextId
  /\ \A m \in Among(toWorker) : m.type = "pasted" => m.id < nextId

\* Whatever is fetched for the render that waits, and whatever the answer to it
\* brings, was announced no earlier than what the window offers: the question was
\* put when that was on offer, and offers are taken in turn by no window that waits.
FetchedForIt ==
  rendering # 0 =>
    /\ \A f \in fetching : f.id = rendering => f.copy >= offer.copy
    /\ \A m \in Among(toWorker) : m.type = "pasted" /\ m.id = rendering /\ m.bytes # 0
         => m.bytes >= offer.copy

\* What was kept is as new as what is offered, and as what is about to be.
KeptIsNew ==
  ~stale =>
    /\ cache # 0 => cache >= offer.copy
    /\ ready # 0 => /\ ready >= offer.copy
                    /\ \A m \in Among(queue) : m.type = "offer" => m.copy <= ready
    /\ pasted.bytes >= pasted.copy

\* The window is about to take the clipboard again, or to let it go.
AboutTo == \E m \in Among(queue) : m.type \in {"renew", "release", "offer"}

Renewed ==
  clipboard.owner = "us" /\ clipboard.holds = "nothing" /\ offer.copy # 0 /\ ~untaken => AboutTo

Promised ==
  /\ PasteTyped /\ WasAnnounced /\ WasAsked /\ FetchedForIt /\ KeptIsNew
  /\ clipboard \in [owner : {"us", "other"}, holds : {"theirs", "promise", "contents", "nothing"}]
  /\ Renewed

LEMMA PromisedInit == PS!Init => Promised
<1>. SUFFICES ASSUME PS!Init PROVE Promised
  OBVIOUS
<1>1. Among(queue) = {} /\ Among(toWorker) = {}
  BY DEF PS!Init, Among
<1>2. PasteTyped /\ WasAnnounced /\ WasAsked /\ FetchedForIt
  BY <1>1 DEF PS!Init, PS!NoOffer, PasteTyped, Questions, WasAnnounced, WasAsked, FetchedForIt
<1>3. KeptIsNew
  BY <1>1 DEF PS!Init, PS!NoOffer, KeptIsNew
<1>4. /\ clipboard \in [owner : {"us", "other"}, holds : {"theirs", "promise", "contents", "nothing"}]
      /\ Renewed
  BY DEF PS!Init, Renewed
<1>. QED BY <1>2, <1>3, <1>4 DEF Promised

-----------------------------------------------------------------------------
(* Messages.                                                               *)

\* One more, and one less.
LEMMA AmongMore ==
  ASSUME NEW messages \in Seq(Messages), NEW m \in Messages
  PROVE  Append(messages, m) \in Seq(Messages) /\ Among(Append(messages, m)) = Among(messages) \cup {m}
<1> DEFINE more == Append(messages, m)
<1>1. /\ DOMAIN messages = 1 .. Len(messages) /\ DOMAIN more = 1 .. Len(messages) + 1
      /\ \A i \in 1 .. Len(messages) : more[i] = messages[i]
      /\ more[Len(messages) + 1] = m
      /\ \A i \in 1 .. Len(messages) + 1 : i \in 1 .. Len(messages) \/ i = Len(messages) + 1
      /\ 1 .. Len(messages) \subseteq 1 .. Len(messages) + 1
      /\ Len(messages) + 1 \in 1 .. Len(messages) + 1
  OBVIOUS
<1>2. more \in Seq(Messages)
  OBVIOUS
<1>. HIDE DEF more
<1>3. Among(more) = Among(messages) \cup {m}
  BY <1>1, Zenon DEF Among
<1>. QED BY <1>2, <1>3 DEF more

LEMMA AmongLess ==
  ASSUME NEW messages \in Seq(Messages), messages # <<>>
  PROVE  /\ Head(messages) \in Messages /\ Tail(messages) \in Seq(Messages)
         /\ Among(messages) = Among(Tail(messages)) \cup {Head(messages)}
<1> DEFINE rest == Tail(messages)
<1>1. /\ DOMAIN messages = 1 .. Len(messages) /\ DOMAIN rest = 1 .. Len(messages) - 1
      /\ \A i \in 1 .. Len(messages) - 1 : i + 1 \in 1 .. Len(messages) /\ rest[i] = messages[i + 1]
      /\ \A i \in 1 .. Len(messages) : i = 1 \/ (i - 1 \in 1 .. Len(messages) - 1 /\ messages[i] = rest[i - 1])
      /\ 1 \in 1 .. Len(messages) /\ Head(messages) = messages[1]
  OBVIOUS
<1>2. Head(messages) \in Messages /\ rest \in Seq(Messages)
  OBVIOUS
<1>. HIDE DEF rest
<1>3. ASSUME NEW i \in DOMAIN messages PROVE messages[i] \in Among(rest) \cup {Head(messages)}
  <2>1. CASE i = 1
    BY <1>1, <2>1
  <2>2. CASE i # 1
    <3>1. i - 1 \in DOMAIN rest /\ messages[i] = rest[i - 1]
      BY <1>1, <2>2
    <3>. QED BY <3>1, Zenon DEF Among
  <2>. QED BY <2>1, <2>2
<1>4. ASSUME NEW i \in DOMAIN rest PROVE rest[i] \in Among(messages)
  <2>1. i + 1 \in DOMAIN messages /\ rest[i] = messages[i + 1]
    BY <1>1
  <2>. QED BY <2>1, Zenon DEF Among
<1>5. Head(messages) \in Among(messages)
  BY <1>1, Zenon DEF Among
<1>6. Among(messages) = Among(rest) \cup {Head(messages)}
  <2>1. Among(messages) \subseteq Among(rest) \cup {Head(messages)}
    BY <1>3, Zenon DEF Among
  <2>2. Among(rest) \subseteq Among(messages)
    BY <1>4, Zenon DEF Among
  <2>. QED BY <1>5, <2>1, <2>2
<1>. QED BY <1>2, <1>6 DEF rest

\* What a message has, and is.
LEMMA MessageHas ==
  /\ \A m \in Messages : m.type = "offer" => m.copy \in Nat
  /\ \A m \in Messages : m.type = "pasted" => m.id \in Questions /\ m.bytes \in Nat
BY DEF Messages, Questions

LEMMA AmongAreMessages ==
  ASSUME NEW messages \in Seq(Messages) PROVE Among(messages) \subseteq Messages
BY DEF Among

\* What the window holds is as it was, with at most a message or two more that
\* offer nothing.
WindowHolds ==
  /\ offer' \in [copy : Nat, failures : Nat] /\ offer'.copy = offer.copy
  /\ queue' \in Seq(Messages)
  /\ \A m \in Among(queue') : m.type = "offer" => m \in Among(queue)
  /\ clipboard' \in [owner : {"us", "other"}, holds : {"theirs", "promise", "contents", "nothing"}]

\* A render that kept nothing, and one that was handed the contents.
LEMMA UnkeptHolds == ASSUME Promised, PS!Unkept PROVE WindowHolds /\ Renewed' /\ pasted' = pasted
<1> DEFINE m == IF offer'.failures > Renewals THEN [type |-> "release"] ELSE [type |-> "renew"]
<1>1. /\ offer' = [offer EXCEPT !.failures = @ + 1] /\ queue' = Append(queue, m)
      /\ clipboard' = [clipboard EXCEPT !.holds = IF clipboard.owner = "us" THEN "nothing" ELSE @]
      /\ pasted' = pasted
  BY Zenon DEF PS!Unkept
<1>2. m \in Messages /\ m.type \in {"release", "renew"}
  BY DEF Messages
<1>. HIDE DEF m
<1>3. queue' \in Seq(Messages) /\ Among(queue') = Among(queue) \cup {m}
  BY <1>1, <1>2, AmongMore, Zenon DEF Promised, PasteTyped
<1>4. \A n \in Among(queue') : n.type = "offer" => n \in Among(queue)
  BY <1>2, <1>3
<1>5. offer' \in [copy : Nat, failures : Nat] /\ offer'.copy = offer.copy
  <2>1. offer' = [offer EXCEPT !.failures = offer.failures + 1]
    BY <1>1, Zenon
  <2>2. offer \in [copy : Nat, failures : Nat] /\ offer.failures + 1 \in Nat
    BY DEF Promised, PasteTyped
  <2>. QED BY <2>1, <2>2
<1>6. clipboard' \in [owner : {"us", "other"}, holds : {"theirs", "promise", "contents", "nothing"}]
  BY <1>1 DEF Promised
<1>7. Renewed'
  BY <1>2, <1>3 DEF Renewed, AboutTo
<1>. QED BY <1>1, <1>3, <1>4, <1>5, <1>6, <1>7 DEF WindowHolds

LEMMA HandOverHolds ==
  ASSUME Promised, NEW bytes, PS!HandOver(bytes)
  PROVE  /\ WindowHolds /\ Renewed' /\ cache' = bytes
         /\ pasted' = pasted \/ pasted' = [bytes |-> bytes, copy |-> offer.copy]
<1>1. cache' = bytes
  BY Zenon DEF PS!HandOver
<1>2. CASE PS!Unkept
  BY <1>1, <1>2, UnkeptHolds
<1>3. CASE /\ offer' = [offer EXCEPT !.failures = 0]
           /\ clipboard' = [clipboard EXCEPT !.holds = IF clipboard.owner = "us" THEN "contents" ELSE @]
           /\ pasted' = [bytes |-> bytes, copy |-> offer.copy]
           /\ UNCHANGED <<queue, pasteTrouble, untaken>>
  <2>1. offer' \in [copy : Nat, failures : Nat] /\ offer'.copy = offer.copy
    <3>1. offer' = [offer EXCEPT !.failures = 0]
      BY <1>3
    <3>. QED BY <3>1 DEF Promised, PasteTyped
  <2>2. /\ clipboard' \in [owner : {"us", "other"}, holds : {"theirs", "promise", "contents", "nothing"}]
        /\ clipboard'.owner = "us" => clipboard'.holds = "contents"
    BY <1>3 DEF Promised
  <2>3. queue' = queue /\ queue \in Seq(Messages)
    BY <1>3 DEF Promised, PasteTyped
  <2>. QED BY <1>1, <1>3, <2>1, <2>2, <2>3 DEF WindowHolds, Renewed, Among
<1>. QED BY <1>2, <1>3, Zenon DEF PS!HandOver

\* What is said to the worker, or put to the service, and how the rest stands then.
LEMMA WindowSame ==
  ASSUME Promised, UNCHANGED <<PS!serving, PS!window, clipboard, pasted>>
  PROVE  KeptIsNew' /\ Renewed' /\ WindowHolds
<1>1. /\ pending' = pending /\ asked' = asked /\ ready' = ready /\ nextId' = nextId /\ stale' = stale
      /\ queue' = queue /\ offer' = offer /\ cache' = cache /\ rendering' = rendering
      /\ untaken' = untaken /\ clipboard' = clipboard /\ pasted' = pasted
  BY DEF PS!serving, PS!window
<1>2. KeptIsNew'
  BY <1>1, Zenon DEF Promised, KeptIsNew, Among
<1>3. Renewed'
  BY <1>1, Zenon DEF Promised, Renewed, AboutTo, Among
<1>4. WindowHolds
  BY <1>1, Zenon DEF Promised, PasteTyped, WindowHolds, Among
<1>. QED BY <1>2, <1>3, <1>4

LEMMA AnnounceKeepsWord == ASSUME Promised, PS!Announce PROVE Promised'
<1> DEFINE m == [type |-> "offer", copy |-> copies + 1]
<1>1. /\ copies' = copies + 1 /\ standing' = copies + 1 /\ toWorker' = Append(toWorker, m)
      /\ UNCHANGED <<fetching, toService, PS!serving, PS!window, clipboard, pasted>>
  BY DEF PS!Announce
<1>2. m \in Messages /\ m.type = "offer" /\ m.copy = copies + 1
  BY DEF Messages, Promised, PasteTyped
<1>. HIDE DEF m
<1>3. toWorker' \in Seq(Messages) /\ Among(toWorker') = Among(toWorker) \cup {m}
  BY <1>1, <1>2, AmongMore, Zenon DEF Promised, PasteTyped
<1>4. KeptIsNew' /\ Renewed' /\ WindowHolds
  BY <1>1, WindowSame
<1>5. /\ fetching' = fetching /\ toService' = toService /\ ready' = ready /\ nextId' = nextId
      /\ queue' = queue /\ offer' = offer /\ cache' = cache /\ rendering' = rendering
      /\ clipboard' = clipboard /\ pasted' = pasted
  BY <1>1 DEF PS!serving, PS!window
<1>6. PasteTyped'
  BY <1>1, <1>3, <1>5 DEF Promised, PasteTyped
<1>7. WasAnnounced'
  <2>1. \A n \in Messages : n.type = "offer" => n.copy \in Nat
    BY MessageHas
  <2>2. Among(queue) \subseteq Messages /\ Among(toWorker) \subseteq Messages
    BY AmongAreMessages DEF Promised, PasteTyped
  <2>3. Among(queue') = Among(queue)
    BY <1>5
  <2>4. \A n \in Among(queue) \cup Among(toWorker) : n.type = "offer" => n.copy <= copies + 1
    BY <2>1, <2>2 DEF Promised, PasteTyped, WasAnnounced
  <2>5. offer.copy <= copies + 1
    BY DEF Promised, PasteTyped, WasAnnounced
  <2>6. m.copy <= copies + 1
    BY <1>2 DEF Promised, PasteTyped
  <2>. QED BY <1>1, <1>3, <1>5, <2>3, <2>4, <2>5, <2>6, Zenon DEF WasAnnounced
<1>8. WasAsked' /\ FetchedForIt'
  BY <1>2, <1>3, <1>5 DEF Promised, WasAsked, FetchedForIt
<1>. QED BY <1>4, <1>6, <1>7, <1>8 DEF Promised, WindowHolds

LEMMA WithdrawKeepsWord == ASSUME Promised, PS!Withdraw PROVE Promised'
<1> DEFINE m == [type |-> "release"]
<1>1. /\ copies' = copies /\ standing' = 0 /\ toWorker' = Append(toWorker, m)
      /\ UNCHANGED <<fetching, toService, PS!serving, PS!window, clipboard, pasted>>
  BY DEF PS!Withdraw
<1>2. m \in Messages /\ m.type = "release"
  BY DEF Messages
<1>. HIDE DEF m
<1>3. toWorker' \in Seq(Messages) /\ Among(toWorker') = Among(toWorker) \cup {m}
  BY <1>1, <1>2, AmongMore, Zenon DEF Promised, PasteTyped
<1>4. KeptIsNew' /\ Renewed' /\ WindowHolds
  BY <1>1, WindowSame
<1>5. /\ fetching' = fetching /\ toService' = toService /\ ready' = ready /\ nextId' = nextId
      /\ queue' = queue /\ offer' = offer /\ cache' = cache /\ rendering' = rendering
      /\ clipboard' = clipboard /\ pasted' = pasted
  BY <1>1 DEF PS!serving, PS!window
<1>6. PasteTyped'
  BY <1>1, <1>3, <1>5 DEF Promised, PasteTyped
<1>7. WasAnnounced' /\ WasAsked' /\ FetchedForIt'
  BY <1>1, <1>2, <1>3, <1>5 DEF Promised, WasAnnounced, WasAsked, FetchedForIt
<1>. QED BY <1>4, <1>6, <1>7 DEF Promised, WindowHolds

\* An answer to a question, of something that is new enough for it or of nothing.
LEMMA AnswerKeepsWord ==
  ASSUME Promised, NEW id \in Questions, NEW bytes \in Nat, id < nextId,
         rendering = id /\ bytes # 0 => bytes >= offer.copy \/ rendering = 0,
         toWorker' = Append(toWorker, PS!Answer(id, bytes)), fetching' \subseteq fetching,
         copies' = copies, standing' = standing,
         toService' \in Seq(Questions), \A i \in DOMAIN toService' : toService'[i] < nextId,
         UNCHANGED <<PS!serving, PS!window, clipboard, pasted>>
  PROVE  Promised'
<1> DEFINE m == PS!Answer(id, bytes)
<1>2. m \in Messages /\ m.type = "pasted" /\ m.id = id /\ m.bytes = bytes
  BY DEF Messages, PS!Answer
<1>. HIDE DEF m
<1>3. toWorker' \in Seq(Messages) /\ Among(toWorker') = Among(toWorker) \cup {m}
  <2>1. toWorker' = Append(toWorker, m)
    BY DEF m
  <2>2. toWorker \in Seq(Messages)
    BY DEF Promised, PasteTyped
  <2>. QED BY <1>2, <2>1, <2>2, AmongMore, Zenon
<1>4. KeptIsNew' /\ Renewed' /\ WindowHolds
  BY WindowSame
<1>5. /\ ready' = ready /\ nextId' = nextId
      /\ queue' = queue /\ offer' = offer /\ cache' = cache /\ rendering' = rendering
      /\ clipboard' = clipboard /\ pasted' = pasted
  BY DEF PS!serving, PS!window
<1>6. PasteTyped'
  BY <1>3, <1>5 DEF Promised, PasteTyped
<1>7. WasAnnounced' /\ WasAsked'
  BY <1>2, <1>3, <1>5 DEF Promised, WasAnnounced, WasAsked
<1>8. FetchedForIt'
  BY <1>2, <1>3, <1>5 DEF Promised, FetchedForIt
<1>. QED BY <1>4, <1>6, <1>7, <1>8 DEF Promised, WindowHolds

LEMMA HearQuestionKeepsWord == ASSUME Promised, PS!HearQuestion PROVE Promised'
<1> DEFINE id == Head(toService)
<1>1. /\ toService # <<>> /\ toService' = Tail(toService)
      /\ standing' = standing /\ copies' = copies
      /\ UNCHANGED <<PS!serving, PS!window, clipboard, pasted>>
  BY DEF PS!HearQuestion
<1>2. /\ id \in Questions /\ id < nextId /\ toService' \in Seq(Questions)
      /\ \A i \in DOMAIN toService' : toService'[i] < nextId
  <2>1. toService \in Seq(Questions) /\ \A i \in DOMAIN toService : toService[i] < nextId
    BY DEF Promised, PasteTyped, WasAsked
  <2>. QED BY <1>1, <2>1
<1>. HIDE DEF id
<1>3. CASE toWorker' = Append(toWorker, PS!Answer(id, 0)) /\ fetching' = fetching
  BY <1>1, <1>2, <1>3, AnswerKeepsWord
<1>4. CASE /\ standing # 0 /\ fetching' = fetching \cup {[id |-> id, copy |-> standing]}
           /\ toWorker' = toWorker
  <2>1. /\ ready' = ready /\ nextId' = nextId
        /\ queue' = queue /\ offer' = offer /\ cache' = cache /\ rendering' = rendering
        /\ clipboard' = clipboard /\ pasted' = pasted
    BY <1>1 DEF PS!serving, PS!window
  <2>2. KeptIsNew' /\ Renewed' /\ WindowHolds
    BY <1>1, WindowSame
  <2>3. standing \in Nat /\ standing >= offer.copy
    BY <1>4 DEF Promised, PasteTyped, WasAnnounced
  <2>4. PasteTyped'
    BY <1>1, <1>2, <1>4, <2>1, <2>3 DEF Promised, PasteTyped
  <2>5. WasAnnounced'
    BY <1>1, <1>4, <2>1 DEF Promised, WasAnnounced
  <2>6. WasAsked'
    BY <1>2, <1>4, <2>1 DEF Promised, WasAsked
  <2>7. FetchedForIt'
    BY <1>4, <2>1, <2>3 DEF Promised, FetchedForIt
  <2>. QED BY <2>2, <2>4, <2>5, <2>6, <2>7 DEF Promised, WindowHolds
<1>. QED BY <1>3, <1>4, Zenon DEF PS!HearQuestion, id

LEMMA FetchEndsKeepsWord == ASSUME Promised, PS!FetchEnds PROVE Promised'
<1>1. PICK f \in fetching, ok \in BOOLEAN :
        /\ fetching' = fetching \ {f}
        /\ toWorker' = Append(toWorker, PS!Answer(f.id, IF ok THEN f.copy ELSE 0))
        /\ UNCHANGED <<standing, copies, toService, PS!serving, PS!window, clipboard, pasted>>
  BY Zenon DEF PS!FetchEnds
<1> DEFINE bytes == IF ok THEN f.copy ELSE 0
<1>2. f.id \in Questions /\ f.copy \in Nat /\ f.id < nextId /\ bytes \in Nat
  BY DEF Promised, PasteTyped, WasAsked
<1>3. rendering = f.id /\ bytes # 0 => bytes >= offer.copy \/ rendering = 0
  BY DEF Promised, FetchedForIt
<1>4. toWorker' = Append(toWorker, PS!Answer(f.id, bytes))
  BY <1>1, Zenon
<1>. HIDE DEF bytes
<1>5. /\ toService' \in Seq(Questions) /\ \A i \in DOMAIN toService' : toService'[i] < nextId
      /\ copies' = copies /\ standing' = standing /\ fetching' \subseteq fetching
      /\ UNCHANGED <<PS!serving, PS!window, clipboard, pasted>>
  BY <1>1 DEF Promised, PasteTyped, WasAsked
<1>. QED BY <1>2, <1>3, <1>4, <1>5, AnswerKeepsWord

-----------------------------------------------------------------------------
(* The window.                                                             *)

\* A step of the window that leaves the offer and the question it waits on be, or
\* waits no more.
LEMMA WindowStep ==
  ASSUME Promised, WindowHolds, Renewed', KeptIsNew',
         cache' \in Nat, ready' \in Nat, pasted' \in [bytes : Nat, copy : Nat],
         copies' = copies, standing' = standing, fetching' = fetching,
         toWorker' \in Seq(Messages), Among(toWorker') \subseteq Among(toWorker),
         toService' = toService, nextId' = nextId,
         rendering' = rendering \/ rendering' = 0
  PROVE  Promised'
<1>1. PasteTyped'
  BY DEF Promised, PasteTyped, WindowHolds
<1>2. WasAnnounced' /\ WasAsked'
  BY DEF Promised, WasAnnounced, WasAsked, WindowHolds
<1>3. FetchedForIt'
  BY DEF Promised, FetchedForIt, WindowHolds
<1>. QED BY <1>1, <1>2, <1>3 DEF Promised, WindowHolds

\* The window is handed what is as new as its offer, wherever it comes from.
LEMMA HandedOver ==
  ASSUME Promised, NEW bytes \in Nat, PS!HandOver(bytes), ~stale => bytes >= offer.copy,
         stale' = stale, ready' = ready \/ ready' = 0, ready' \in Nat,
         copies' = copies, standing' = standing, fetching' = fetching,
         toWorker' \in Seq(Messages), Among(toWorker') \subseteq Among(toWorker),
         toService' = toService, nextId' = nextId,
         rendering' = rendering \/ rendering' = 0
  PROVE  Promised'
<1>1. /\ WindowHolds /\ Renewed' /\ cache' = bytes
      /\ pasted' = pasted \/ pasted' = [bytes |-> bytes, copy |-> offer.copy]
  BY HandOverHolds
<1>2. pasted' \in [bytes : Nat, copy : Nat]
  BY <1>1 DEF Promised, PasteTyped
<1>3. KeptIsNew'
  <2>1. ~stale => pasted'.bytes >= pasted'.copy
    BY <1>1 DEF Promised, PasteTyped, KeptIsNew
  <2>2. ~stale /\ ready' # 0 => /\ ready' >= offer.copy
                               /\ \A m \in Among(queue') : m.type = "offer" => m.copy <= ready'
    BY <1>1 DEF Promised, KeptIsNew, WindowHolds
  <2>. QED BY <1>1, <2>1, <2>2 DEF KeptIsNew, WindowHolds
<1>. QED BY <1>1, <1>2, <1>3, WindowStep

LEMMA RenderKeepsWord == ASSUME Promised, PS!Render PROVE Promised'
<1>. USE DEF Questions
<1>1. /\ copies' = copies /\ standing' = standing /\ fetching' = fetching /\ toWorker' = toWorker
      /\ rendering = 0 /\ clipboard = [owner |-> "us", holds |-> "promise"]
  BY DEF PS!Render, PS!service, PS!Free
<1>2. toWorker' \in Seq(Messages) /\ Among(toWorker') \subseteq Among(toWorker)
  BY <1>1 DEF Promised, PasteTyped
<1>3. CASE /\ offer.copy = 0
           /\ clipboard' = [clipboard EXCEPT !.holds = "nothing"]
           /\ UNCHANGED <<PS!serving, toService, PS!window, pasteTrouble, pasted>>
  <2>1. /\ ready' = ready /\ nextId' = nextId /\ stale' = stale /\ toService' = toService
        /\ queue' = queue /\ offer' = offer /\ cache' = cache /\ rendering' = rendering
        /\ pasted' = pasted
    BY <1>3 DEF PS!serving, PS!window
  <2>2. clipboard' \in [owner : {"us", "other"}, holds : {"theirs", "promise", "contents", "nothing"}]
    BY <1>1, <1>3
  <2>3. WindowHolds
    BY <2>1, <2>2 DEF WindowHolds, Promised, PasteTyped
  <2>4. Renewed'
    BY <1>3, <2>1 DEF Renewed
  <2>5. KeptIsNew'
    BY <2>1, Zenon DEF Promised, KeptIsNew, Among
  <2>6. cache' \in Nat /\ ready' \in Nat /\ pasted' \in [bytes : Nat, copy : Nat]
    BY <2>1 DEF Promised, PasteTyped
  <2>. QED BY <1>1, <1>2, <2>1, <2>3, <2>4, <2>5, <2>6, WindowStep
<1>4. CASE cache # 0 /\ PS!HandOver(cache) /\ UNCHANGED <<PS!serving, toService, rendering>>
  <2>1. /\ ready' = ready /\ nextId' = nextId /\ stale' = stale /\ toService' = toService
        /\ rendering' = rendering
    BY <1>4 DEF PS!serving
  <2>2. cache \in Nat /\ ready' \in Nat /\ (~stale => cache >= offer.copy)
    BY <1>4, <2>1 DEF Promised, PasteTyped, KeptIsNew
  <2>. QED BY <1>1, <1>2, <1>4, <2>1, <2>2, HandedOver
<1>5. CASE /\ ready # 0 /\ ready' = 0 /\ PS!HandOver(ready)
           /\ UNCHANGED <<pending, asked, nextId, stale, toService, rendering>>
  <2>1. ready \in Nat /\ ready' \in Nat /\ (~stale => ready >= offer.copy)
    BY <1>5 DEF Promised, PasteTyped, KeptIsNew
  <2>. QED BY <1>1, <1>2, <1>5, <2>1, HandedOver
<1>6. CASE /\ nextId' = nextId + 1 /\ rendering' = nextId /\ toService' = Append(toService, nextId)
           /\ UNCHANGED <<queue, offer, clipboard, pasted, untaken, ready, cache, stale>>
  <2>1. nextId \in Questions /\ toService \in Seq(Questions)
    BY DEF Promised, PasteTyped
  <2>2. /\ toService' \in Seq(Questions)
        /\ \A i \in DOMAIN toService' : toService'[i] < nextId + 1
    <3>1. \A i \in DOMAIN toService : toService[i] < nextId
      BY DEF Promised, WasAsked
    <3>. QED BY <1>6, <2>1, <3>1
  <2>3. \A f \in fetching : f.id \in Nat /\ f.id < nextId
    BY DEF Promised, PasteTyped, WasAsked
  <2>4. \A m \in Among(toWorker) : m.type = "pasted" => m.id \in Nat /\ m.id < nextId
    BY AmongAreMessages, MessageHas DEF Promised, PasteTyped, WasAsked
  <2>5. PasteTyped'
    BY <1>1, <1>6, <2>1, <2>2 DEF Promised, PasteTyped
  <2>6. WasAnnounced'
    BY <1>1, <1>6 DEF Promised, WasAnnounced
  <2>7. WasAsked'
    BY <1>1, <1>6, <2>1, <2>2, <2>3, <2>4 DEF WasAsked
  <2>8. FetchedForIt'
    BY <1>1, <1>6, <2>1, <2>3, <2>4 DEF FetchedForIt
  <2>9. KeptIsNew' /\ Renewed'
    BY <1>6, Zenon DEF Promised, KeptIsNew, Renewed, AboutTo, Among
  <2>10. clipboard' = clipboard
    BY <1>6
  <2>. QED BY <2>5, <2>6, <2>7, <2>8, <2>9, <2>10 DEF Promised
<1>7. CASE /\ nextId' = nextId + 1 /\ PS!Unkept
           /\ UNCHANGED <<toService, rendering, ready, cache, stale>>
  <2>1. WindowHolds /\ Renewed' /\ pasted' = pasted
    BY <1>7, UnkeptHolds
  <2>2. KeptIsNew'
    BY <1>7, <2>1 DEF Promised, KeptIsNew, WindowHolds
  <2>3. PasteTyped'
    BY <1>1, <1>7, <2>1 DEF Promised, PasteTyped, WindowHolds
  <2>4. WasAnnounced'
    BY <1>1, <2>1 DEF Promised, WasAnnounced, WindowHolds
  <2>5. WasAsked'
    <3>1. /\ nextId \in Nat /\ \A i \in DOMAIN toService : toService[i] \in Nat
          /\ \A f \in fetching : f.id \in Nat
          /\ \A m \in Among(toWorker) : m.type = "pasted" => m.id \in Nat
      BY AmongAreMessages, MessageHas DEF Promised, PasteTyped
    <3>. QED BY <1>1, <1>7, <3>1 DEF Promised, WasAsked
  <2>6. FetchedForIt'
    BY <1>1, <1>7 DEF FetchedForIt
  <2>. QED BY <2>1, <2>2, <2>3, <2>4, <2>5, <2>6 DEF Promised, WindowHolds
<1>. QED BY <1>3, <1>4, <1>5, <1>6, <1>7, Zenon DEF PS!Render

LEMMA GiveUpKeepsWord == ASSUME Promised, PS!GiveUpWaiting PROVE Promised'
<1>1. /\ PS!Unkept /\ rendering' = 0 /\ cache' = cache
      /\ UNCHANGED <<PS!service, PS!pipes, PS!serving>>
  BY DEF PS!GiveUpWaiting
<1>2. /\ copies' = copies /\ standing' = standing /\ fetching' = fetching /\ toWorker' = toWorker
      /\ toService' = toService /\ ready' = ready /\ nextId' = nextId /\ stale' = stale
  BY <1>1 DEF PS!service, PS!pipes, PS!serving
<1>3. WindowHolds /\ Renewed' /\ pasted' = pasted
  BY <1>1, UnkeptHolds
<1>4. KeptIsNew'
  BY <1>1, <1>2, <1>3 DEF Promised, KeptIsNew, WindowHolds
<1>5. /\ cache' \in Nat /\ ready' \in Nat /\ pasted' \in [bytes : Nat, copy : Nat]
      /\ toWorker' \in Seq(Messages) /\ Among(toWorker') \subseteq Among(toWorker)
  BY <1>1, <1>2, <1>3 DEF Promised, PasteTyped
<1>. QED BY <1>1, <1>2, <1>3, <1>4, <1>5, WindowStep

\* Somebody copies something here: the clipboard is not ours any more.
LEMMA CopyHereKeepsWord == ASSUME Promised, PS!CopyHere PROVE Promised'
<1> DEFINE m == [type |-> "update"]
<1>1. /\ copies' = copies /\ standing' = standing /\ fetching' = fetching /\ toWorker' = toWorker
      /\ toService' = toService /\ ready' = ready /\ nextId' = nextId /\ stale' = stale
      /\ offer' = offer /\ cache' = cache /\ rendering' = rendering /\ pasted' = pasted
      /\ queue' = Append(queue, m) /\ clipboard' = [owner |-> "other", holds |-> "theirs"]
  BY DEF PS!CopyHere, PS!service, PS!pipes, PS!serving
<1>2. m \in Messages /\ m.type = "update"
  BY DEF Messages
<1>. HIDE DEF m
<1>3. queue' \in Seq(Messages) /\ Among(queue') = Among(queue) \cup {m}
  BY <1>1, <1>2, AmongMore, Zenon DEF Promised, PasteTyped
<1>4. clipboard' \in [owner : {"us", "other"}, holds : {"theirs", "promise", "contents", "nothing"}]
  BY <1>1
<1>5. WindowHolds
  BY <1>1, <1>2, <1>3, <1>4 DEF Promised, PasteTyped, WindowHolds
<1>6. Renewed'
  BY <1>1 DEF Renewed
<1>7. KeptIsNew'
  BY <1>1, <1>2, <1>3 DEF Promised, KeptIsNew
<1>8. /\ cache' \in Nat /\ ready' \in Nat /\ pasted' \in [bytes : Nat, copy : Nat]
      /\ toWorker' \in Seq(Messages) /\ Among(toWorker') \subseteq Among(toWorker)
  BY <1>1 DEF Promised, PasteTyped
<1>. QED BY <1>1, <1>5, <1>6, <1>7, <1>8, WindowStep

\* The window takes the clipboard for what it offers now, if it can be had.
LEMMA TakenOrNot ==
  ASSUME Promised, PS!TakeClipboard
  PROVE  /\ clipboard' \in [owner : {"us", "other"}, holds : {"theirs", "promise", "contents", "nothing"}]
         /\ offer'.copy # 0 /\ ~untaken' => clipboard'.holds = "promise"
<1>1. CASE offer'.copy = 0
  <2>1. clipboard' = clipboard
    BY <1>1, Zenon DEF PS!TakeClipboard
  <2>. QED BY <1>1, <2>1 DEF Promised
<1>2. CASE offer'.copy # 0
  <2>1. CASE clipboard' = [owner |-> "us", holds |-> "promise"]
    BY <2>1
  <2>2. CASE untaken' = TRUE /\ clipboard' = clipboard
    BY <2>2 DEF Promised
  <2>. QED BY <1>2, <2>1, <2>2, Zenon DEF PS!TakeClipboard
<1>. QED BY <1>1, <1>2

LEMMA TurnKeepsWord == ASSUME Promised, PS!Turn PROVE Promised'
<1> DEFINE m == Head(queue)
<1>1. /\ copies' = copies /\ standing' = standing /\ fetching' = fetching /\ toWorker' = toWorker
      /\ toService' = toService /\ ready' = ready /\ nextId' = nextId /\ stale' = stale
      /\ rendering' = rendering /\ pasted' = pasted /\ rendering = 0
      /\ queue # <<>> /\ queue' = Tail(queue)
  BY DEF PS!Turn, PS!service, PS!pipes, PS!serving, PS!Free
<1>2. /\ m \in Messages /\ queue' \in Seq(Messages) /\ Among(queue) = Among(queue') \cup {m}
  BY <1>1, AmongLess DEF Promised, PasteTyped
<1>3. m.type = "offer" => m.copy \in Nat /\ m.copy <= copies
  BY <1>2, MessageHas DEF Promised, WasAnnounced
\* What has to hold of the offer and the clipboard then.
<1>4. ASSUME offer' \in [copy : Nat, failures : Nat], cache' = cache \/ cache' = 0,
             \/ offer'.copy = offer.copy
             \/ offer'.copy = 0 /\ cache' = 0
             \/ m.type = "offer" /\ offer'.copy = m.copy /\ cache' = 0,
             clipboard' \in [owner : {"us", "other"}, holds : {"theirs", "promise", "contents", "nothing"}],
             Renewed'
      PROVE  Promised'
  <2>1. PasteTyped'
    BY <1>1, <1>2, <1>4 DEF Promised, PasteTyped
  <2>2. WasAnnounced'
    <3>1. offer'.copy <= copies
      BY <1>3, <1>4 DEF Promised, PasteTyped, WasAnnounced
    <3>. QED BY <1>1, <1>2, <3>1 DEF Promised, WasAnnounced
  <2>3. WasAsked' /\ FetchedForIt'
    BY <1>1, Zenon DEF Promised, WasAsked, FetchedForIt, Among
  <2>4. KeptIsNew'
    <3>1. ASSUME ~stale, cache' # 0 PROVE cache' >= offer'.copy
      BY <1>4, <3>1 DEF Promised, KeptIsNew
    <3>2. ASSUME ~stale, ready # 0
          PROVE  ready >= offer'.copy /\ \A n \in Among(queue') : n.type = "offer" => n.copy <= ready
      BY <1>2, <1>3, <1>4, <3>2 DEF Promised, PasteTyped, KeptIsNew
    <3>. QED BY <1>1, <3>1, <3>2 DEF Promised, KeptIsNew
  <2>. QED BY <1>4, <2>1, <2>2, <2>3, <2>4 DEF Promised
<1>5. CASE m.type = "offer" /\ PS!NewOffer(m.copy) /\ PS!TakeClipboard
  <2>1. offer' = [copy |-> m.copy, failures |-> 0] /\ cache' = 0
    BY <1>5, Zenon DEF PS!NewOffer
  <2>2. offer' \in [copy : Nat, failures : Nat] /\ offer'.copy = m.copy
    BY <1>3, <1>5, <2>1
  <2>3. Renewed'
    BY <1>5, TakenOrNot DEF Renewed
  <2>. QED BY <1>4, <1>5, <2>1, <2>2, <2>3, TakenOrNot
<1>6. CASE m.type = "renew" /\ UNCHANGED <<offer, cache>> /\ PS!TakeClipboard
  <2>1. offer' = offer /\ cache' = cache
    BY <1>6
  <2>2. Renewed'
    BY <1>6, TakenOrNot DEF Renewed
  <2>. QED BY <1>4, <1>6, <2>1, <2>2, TakenOrNot DEF Promised, PasteTyped
<1>7. CASE offer' = PS!NoOffer /\ cache' = 0 /\ clipboard' = clipboard
  <2>1. offer' \in [copy : Nat, failures : Nat] /\ offer'.copy = 0
    BY <1>7 DEF PS!NoOffer
  <2>2. Renewed'
    BY <2>1 DEF Renewed
  <2>. QED BY <1>4, <1>7, <2>1, <2>2 DEF Promised
<1>8. CASE /\ m.type = "update" /\ clipboard.owner = "us"
           /\ UNCHANGED <<offer, cache, clipboard, untaken>>
  <2>1. offer' = offer /\ cache' = cache /\ clipboard' = clipboard /\ (untaken' <=> untaken)
    BY <1>8
  <2>2. Renewed'
    <3>1. AboutTo => AboutTo'
      BY <1>2, <1>8 DEF AboutTo
    <3>. QED BY <2>1, <3>1 DEF Promised, Renewed
  <2>. QED BY <1>4, <2>1, <2>2 DEF Promised, PasteTyped
<1>. QED
  <2>1. \/ m.type = "offer" /\ PS!NewOffer(m.copy) /\ PS!TakeClipboard
        \/ m.type = "renew" /\ UNCHANGED <<offer, cache>> /\ PS!TakeClipboard
        \/ offer' = PS!NoOffer /\ cache' = 0 /\ clipboard' = clipboard
        \/ /\ m.type = "update" /\ clipboard.owner = "us"
           /\ UNCHANGED <<offer, cache, clipboard, untaken>>
    BY DEF PS!Turn
  <2>. QED BY <1>5, <1>6, <1>7, <1>8, <2>1

-----------------------------------------------------------------------------
(* The worker's main loop.                                                 *)

\* What it is told goes from the pipe, and to the window if the window is meant.
LEMMA ToldTakes ==
  ASSUME Promised, NEW type, PS!Told(type)
  PROVE  /\ Head(toWorker) \in Messages /\ Head(toWorker).type = type
         /\ Head(toWorker) \in Among(toWorker)
         /\ toWorker' \in Seq(Messages) /\ Among(toWorker') \subseteq Among(toWorker)
<1>1. toWorker # <<>> /\ Head(toWorker).type = type /\ toWorker' = Tail(toWorker)
  BY DEF PS!Told
<1>2. /\ Head(toWorker) \in Messages /\ toWorker' \in Seq(Messages)
      /\ Among(toWorker) = Among(toWorker') \cup {Head(toWorker)}
  BY <1>1, AmongLess DEF Promised, PasteTyped
<1>. QED BY <1>1, <1>2

\* An offer comes with everything kept for the last one thrown away.
LEMMA ToldOfferKeepsWord == ASSUME Promised, PS!ToldOffer PROVE Promised'
<1> DEFINE m == Head(toWorker)
<1>1. /\ copies' = copies /\ standing' = standing /\ fetching' = fetching /\ toService' = toService
      /\ ready' = 0 /\ nextId' = nextId /\ stale' = stale /\ offer' = offer /\ cache' = cache
      /\ rendering' = rendering /\ pasted' = pasted /\ clipboard' = clipboard
      /\ queue' = Append(queue, m) /\ PS!Told("offer")
  BY DEF PS!ToldOffer, PS!service
<1>2. /\ m \in Messages /\ m.type = "offer" /\ m \in Among(toWorker)
      /\ toWorker' \in Seq(Messages) /\ Among(toWorker') \subseteq Among(toWorker)
  BY <1>1, ToldTakes
<1>3. queue' \in Seq(Messages) /\ Among(queue') = Among(queue) \cup {m}
  BY <1>1, <1>2, AmongMore, Zenon DEF Promised, PasteTyped
<1>. HIDE DEF m
<1>4. PasteTyped'
  BY <1>1, <1>2, <1>3 DEF Promised, PasteTyped
<1>5. WasAnnounced' /\ WasAsked' /\ FetchedForIt'
  BY <1>1, <1>2, <1>3 DEF Promised, WasAnnounced, WasAsked, FetchedForIt
<1>6. KeptIsNew'
  BY <1>1 DEF Promised, KeptIsNew
<1>7. Renewed'
  <2>1. AboutTo'
    BY <1>2, <1>3 DEF AboutTo
  <2>. QED BY <2>1 DEF Renewed
<1>. QED BY <1>1, <1>4, <1>5, <1>6, <1>7 DEF Promised

LEMMA ToldReleaseKeepsWord == ASSUME Promised, PS!ToldRelease PROVE Promised'
<1> DEFINE m == Head(toWorker)
<1>1. /\ copies' = copies /\ standing' = standing /\ fetching' = fetching /\ toService' = toService
      /\ ready' = ready /\ nextId' = nextId /\ stale' = stale /\ offer' = offer /\ cache' = cache
      /\ rendering' = rendering /\ pasted' = pasted /\ clipboard' = clipboard
      /\ queue' = Append(queue, m) /\ PS!Told("release")
  BY DEF PS!ToldRelease, PS!service, PS!serving
<1>2. /\ m \in Messages /\ m.type = "release"
      /\ toWorker' \in Seq(Messages) /\ Among(toWorker') \subseteq Among(toWorker)
  BY <1>1, ToldTakes
<1>3. queue' \in Seq(Messages) /\ Among(queue') = Among(queue) \cup {m}
  BY <1>1, <1>2, AmongMore, Zenon DEF Promised, PasteTyped
<1>. HIDE DEF m
<1>4. WindowHolds
  BY <1>1, <1>2, <1>3 DEF Promised, PasteTyped, WindowHolds
<1>5. KeptIsNew'
  BY <1>1, <1>2, <1>3 DEF Promised, KeptIsNew
<1>6. Renewed'
  <2>1. AboutTo'
    BY <1>2, <1>3 DEF AboutTo
  <2>. QED BY <2>1 DEF Renewed
<1>7. cache' \in Nat /\ ready' \in Nat /\ pasted' \in [bytes : Nat, copy : Nat]
  BY <1>1 DEF Promised, PasteTyped
<1>. QED BY <1>1, <1>2, <1>4, <1>5, <1>6, <1>7, WindowStep

LEMMA ToldPastedKeepsWord == ASSUME Promised, PS!ToldPasted PROVE Promised'
<1> DEFINE a == Head(toWorker)
<1>1. /\ copies' = copies /\ standing' = standing /\ fetching' = fetching /\ toService' = toService
      /\ nextId' = nextId /\ PS!Told("pasted")
  BY DEF PS!ToldPasted, PS!service
<1>2. /\ a \in Messages /\ a.type = "pasted" /\ a \in Among(toWorker)
      /\ toWorker' \in Seq(Messages) /\ Among(toWorker') \subseteq Among(toWorker)
  BY <1>1, ToldTakes
<1>3. a.id \in Questions /\ a.bytes \in Nat
  BY <1>2, MessageHas
<1>4. CASE /\ rendering = a.id /\ rendering' = 0
           /\ IF a.bytes = 0 THEN PS!Unkept /\ UNCHANGED <<cache, pasteTrouble>> ELSE PS!HandOver(a.bytes)
           /\ UNCHANGED <<ready, stale>>
  <2>1. ready' = ready /\ stale' = stale /\ rendering' = 0
    BY <1>4
  <2>2. CASE a.bytes = 0
    <3>1. PS!Unkept /\ cache' = cache
      BY <1>4, <2>2
    <3>2. WindowHolds /\ Renewed' /\ pasted' = pasted
      BY <3>1, UnkeptHolds
    <3>3. KeptIsNew'
      BY <2>1, <3>1, <3>2 DEF Promised, KeptIsNew, WindowHolds
    <3>4. cache' \in Nat /\ ready' \in Nat /\ pasted' \in [bytes : Nat, copy : Nat]
      BY <2>1, <3>1, <3>2 DEF Promised, PasteTyped
    <3>. QED BY <1>1, <1>2, <2>1, <3>2, <3>3, <3>4, WindowStep
  <2>3. CASE a.bytes # 0
    <3>1. PS!HandOver(a.bytes)
      BY <1>4, <2>3
    <3>2. a.bytes >= offer.copy
      <4>1. rendering # 0
        BY <1>3, <1>4 DEF Questions
      <4>. QED BY <1>2, <1>4, <2>3, <4>1 DEF Promised, FetchedForIt
    <3>3. ready' \in Nat
      BY <2>1 DEF Promised, PasteTyped
    <3>. QED BY <1>1, <1>2, <1>3, <2>1, <3>1, <3>2, <3>3, HandedOver
  <2>. QED BY <2>2, <2>3
<1>5. CASE /\ IF a.bytes # 0 /\ a.id \in asked
                THEN /\ ready' = a.bytes
                     /\ stale' = (stale \/ a.bytes < offer.copy \/ \E i \in DOMAIN queue :
                                     queue[i].type = "offer" /\ a.bytes < queue[i].copy)
                ELSE UNCHANGED <<ready, stale>>
           /\ UNCHANGED <<PS!window, clipboard, pasteTrouble, pasted>>
  <2>1. /\ queue' = queue /\ offer' = offer /\ cache' = cache /\ rendering' = rendering
        /\ (untaken' <=> untaken) /\ clipboard' = clipboard /\ pasted' = pasted
    BY <1>5 DEF PS!window
  <2>2. WindowHolds /\ Renewed'
    BY <2>1 DEF Promised, PasteTyped, WindowHolds, Renewed, AboutTo, Among
  <2>3. ready' \in Nat /\ KeptIsNew'
    <3>1. CASE a.bytes # 0 /\ a.id \in asked
      <4>1. /\ ready' = a.bytes
            /\ ~stale' => /\ ~stale /\ ~(a.bytes < offer.copy)
                          /\ \A m \in Among(queue) : m.type = "offer" => ~(a.bytes < m.copy)
        BY <1>5, <3>1 DEF Among
      <4>2. /\ Among(queue) \subseteq Messages /\ offer.copy \in Nat
        BY AmongAreMessages DEF Promised, PasteTyped
      <4>. QED BY <1>3, <2>1, <4>1, <4>2, MessageHas DEF Promised, KeptIsNew
    <3>2. CASE ~(a.bytes # 0 /\ a.id \in asked)
      BY <1>5, <2>1, <3>2 DEF Promised, PasteTyped, KeptIsNew
    <3>. QED BY <3>1, <3>2
  <2>4. cache' \in Nat /\ pasted' \in [bytes : Nat, copy : Nat]
    BY <2>1 DEF Promised, PasteTyped
  <2>. QED BY <1>1, <1>2, <2>1, <2>2, <2>3, <2>4, WindowStep
<1>. QED BY <1>4, <1>5, Zenon DEF PS!ToldPasted, a

\* A worker is replaced: nothing of what it had is there any more, and what stands
\* is announced to the next one.
LEMMA ReplaceKeepsWord == ASSUME Promised, PS!Replace PROVE Promised'
<1>1. /\ copies' = copies /\ standing' = standing /\ fetching' = fetching /\ toService' = <<>>
      /\ ready' = 0 /\ nextId' = nextId /\ stale' = stale /\ queue' = <<>>
      /\ offer' = PS!NoOffer /\ cache' = 0 /\ rendering' = 0 /\ pasted' = pasted
  BY DEF PS!Replace, PS!service
<1>2. /\ clipboard' \in [owner : {"us", "other"}, holds : {"theirs", "promise", "contents", "nothing"}]
      /\ clipboard'.owner # "us"
  BY DEF PS!Replace, Promised
<1>3. /\ toWorker' \in Seq(Messages)
      /\ \A m \in Among(toWorker') : m.type = "offer" /\ m.copy = copies
  <2>1. CASE standing = 0
    <3>1. toWorker' = <<>>
      BY <2>1, Zenon DEF PS!Replace
    <3>. QED BY <3>1 DEF Among
  <2>2. CASE standing # 0
    <3> DEFINE m == [type |-> "offer", copy |-> standing]
    <3>1. toWorker' = <<m>>
      BY <2>2, Zenon DEF PS!Replace
    <3>2. m \in Messages /\ m.type = "offer" /\ m.copy = copies
      BY <2>2 DEF Messages, Promised, PasteTyped
    <3>. HIDE DEF m
    <3>3. toWorker' \in Seq(Messages) /\ \A i \in DOMAIN toWorker' : toWorker'[i] = m
      BY <3>1, <3>2
    <3>. QED BY <3>2, <3>3, Zenon DEF Among
  <2>. QED BY <2>1, <2>2
<1>4. Among(queue') = {} /\ <<>> \in Seq(Messages) /\ <<>> \in Seq(Questions)
      /\ \A i \in DOMAIN toService' : FALSE
  BY <1>1 DEF Among
<1>5. offer' \in [copy : Nat, failures : Nat] /\ offer'.copy = 0
  BY <1>1 DEF PS!NoOffer
<1>6. PasteTyped'
  BY <1>1, <1>3, <1>4, <1>5 DEF Promised, PasteTyped
<1>7. WasAnnounced' /\ WasAsked' /\ FetchedForIt'
  BY <1>1, <1>3, <1>4, <1>5 DEF Promised, PasteTyped, WasAnnounced, WasAsked, FetchedForIt
<1>8. KeptIsNew' /\ Renewed'
  BY <1>1, <1>2 DEF Promised, KeptIsNew, Renewed
<1>. QED BY <1>2, <1>6, <1>7, <1>8 DEF Promised

LEMMA PromisedKeeps == ASSUME Promised, [PS!Next]_(PS!vars) PROVE Promised'
<1>1. CASE UNCHANGED PS!vars
  <2>1. /\ copies' = copies /\ standing' = standing /\ fetching' = fetching /\ toService' = toService
        /\ toWorker' = toWorker /\ nextId' = nextId /\ rendering' = rendering /\ ready' = ready
        /\ cache' = cache
        /\ UNCHANGED <<PS!serving, PS!window, clipboard, pasted>>
    BY <1>1 DEF PS!vars, PS!service, PS!pipes, PS!serving, PS!window
  <2>2. KeptIsNew' /\ Renewed' /\ WindowHolds
    BY <2>1, WindowSame
  <2>3. /\ cache' \in Nat /\ ready' \in Nat /\ pasted' \in [bytes : Nat, copy : Nat]
        /\ toWorker' \in Seq(Messages) /\ Among(toWorker') \subseteq Among(toWorker)
    BY <2>1 DEF Promised, PasteTyped
  <2>. QED BY <2>1, <2>2, <2>3, WindowStep
<1>. QED
  BY <1>1, AnnounceKeepsWord, WithdrawKeepsWord, HearQuestionKeepsWord, FetchEndsKeepsWord,
     RenderKeepsWord, GiveUpKeepsWord, TurnKeepsWord, CopyHereKeepsWord, ToldOfferKeepsWord,
     ToldReleaseKeepsWord, ToldPastedKeepsWord, ReplaceKeepsWord DEF PS!Next, PS!Main

\* What a paste hands over is never older than the offer the window holds, and a
\* render that could not be served is not the last word, for however many copies,
\* questions, renewals and failures there are (secure/windows/serving.rs and
\* platform/windows.rs).
THEOREM PasteAlwaysKeepsItsWord == PS!Spec => []PasteKeepsItsWord
<1>1. Promised /\ [PS!Next]_(PS!vars) => Promised'
  BY PromisedKeeps
<1>2. Promised => PasteKeepsItsWord
  <2>. SUFFICES ASSUME Promised PROVE PS!PastesTheOffer /\ PS!PromiseIsRenewed
    BY DEF PasteKeepsItsWord
  <2>1. PS!PastesTheOffer
    BY DEF Promised, KeptIsNew, PS!PastesTheOffer
  <2>2. PS!PromiseIsRenewed
    <3>1. AboutTo => \E i \in DOMAIN queue : queue[i].type \in {"renew", "release", "offer"}
      BY Zenon DEF AboutTo, Among
    <3>. QED BY <3>1 DEF Promised, Renewed, PS!PromiseIsRenewed
  <2>. QED BY <2>1, <2>2
<1>. QED BY PromisedInit, <1>1, <1>2, PTL DEF PS!Spec

-----------------------------------------------------------------------------
(* Noticing.                                                               *)

\* How far a watch is.
Stages == {"waiting", "settling", "settled", "mine", "opening", "claiming", "reporting", "ended"}

\* Nothing is looked at, announced or reported that was not on the clipboard.
NoticingTyped ==
  /\ seq \in Nat /\ announced \in 0 .. seq /\ noticingReported \in 0 .. seq
  /\ noticingAt \in [NG!Watches -> Stages]
  /\ holds \in [NG!Watches -> Nat] /\ settled \in [NG!Watches -> Nat]
  /\ \A w \in NG!Watches : holds[w] <= seq /\ settled[w] <= seq
  /\ notes \in Seq(Nat) /\ \A i \in DOMAIN notes : notes[i] <= seq

\* What the person copied last is taken for the service's own beside an offer only.
TakenForOurs ==
  \A w \in NG!Watches :
    noticingAt[w] = "mine" /\ settled[w] = seq /\ top = "person" => noticingSpoiled

\* A watch is about to report what is there, or something newer.
AboutToSay(w) ==
  noticingAt[w] = "reporting" /\ settled[w] = seq /\ (w = "window" => holds[w] = seq)

\* If it is announced, it is reported, or the watch that claimed it is about to.
\* A watch about to report something older does not count: somebody claims what has
\* come since.
ClaimedOrReported ==
  announced = seq /\ top = "person" =>
    \/ noticingSpoiled \/ noticingReported = seq
    \/ \E w \in NG!Watches : AboutToSay(w)

Noticed == NoticingTyped /\ TakenForOurs /\ ClaimedOrReported

LEMMA NoticedInit == NG!Init => Noticed
<1>. SUFFICES ASSUME NG!Init PROVE Noticed
  OBVIOUS
<1>1. NoticingTyped
  BY DEF NG!Init, NoticingTyped, Stages
<1>2. TakenForOurs /\ ClaimedOrReported
  BY DEF NG!Init, TakenForOurs, ClaimedOrReported
<1>. QED BY <1>1, <1>2 DEF Noticed

\* Somebody puts something on the clipboard: what every watch has is of before.
LEMMA ClipboardMoves ==
  ASSUME Noticed, seq' = seq + 1,
         UNCHANGED <<announced, noticingReported, NG!watching, noticingSpoiled>>,
         notes' = notes
  PROVE  Noticed'
<1>1. /\ announced' = announced /\ noticingReported' = noticingReported
      /\ noticingAt' = noticingAt /\ holds' = holds /\ settled' = settled
  BY DEF NG!watching
<1>2. NoticingTyped'
  BY <1>1 DEF Noticed, NoticingTyped
<1>3. announced' # seq' /\ \A w \in NG!Watches : settled'[w] # seq'
  BY <1>1 DEF Noticed, NoticingTyped
<1>. QED BY <1>2, <1>3 DEF Noticed, TakenForOurs, ClaimedOrReported

\* Nothing moves that a watch has, or nothing but notes.
LEMMA WatchesSame ==
  ASSUME Noticed, seq' = seq, top' = top, announced' = announced, noticingReported' = noticingReported,
         noticingAt' = noticingAt, holds' = holds, settled' = settled, noticingSpoiled' = noticingSpoiled,
         notes' \in Seq(Nat), \A i \in DOMAIN notes' : notes'[i] <= seq
  PROVE  Noticed'
<1>1. NoticingTyped'
  BY DEF Noticed, NoticingTyped
<1>2. TakenForOurs' /\ ClaimedOrReported'
  BY Zenon DEF Noticed, TakenForOurs, ClaimedOrReported, AboutToSay
<1>. QED BY <1>1, <1>2 DEF Noticed

\* A watch goes a step further that was not about to report, nor takes anything for
\* the service's own, and reads no more than is there.
LEMMA WatchGoes ==
  ASSUME Noticed, NEW w \in NG!Watches, NEW to \in Stages \ {"mine"},
         noticingAt[w] # "reporting", noticingAt' = [noticingAt EXCEPT ![w] = to],
         holds' \in [NG!Watches -> Nat], settled' \in [NG!Watches -> Nat],
         holds'[w] <= seq, settled'[w] <= seq,
         \A v \in NG!Watches : v # w => holds'[v] = holds[v] /\ settled'[v] = settled[v],
         seq' = seq, top' = top, announced' = announced, noticingReported' = noticingReported,
         noticingSpoiled => noticingSpoiled',
         notes' \in Seq(Nat), \A i \in DOMAIN notes' : notes'[i] <= seq
  PROVE  Noticed'
<1>1. noticingAt' \in [NG!Watches -> Stages] /\ \A v \in NG!Watches : v # w => noticingAt'[v] = noticingAt[v]
  BY DEF Noticed, NoticingTyped
<1>2. noticingAt'[w] = to
  BY DEF Noticed, NoticingTyped
<1>3. NoticingTyped'
  BY <1>1 DEF Noticed, NoticingTyped
<1>4. TakenForOurs'
  <2>. SUFFICES ASSUME NEW v \in NG!Watches, noticingAt'[v] = "mine", settled'[v] = seq, top = "person"
                PROVE noticingSpoiled'
    BY Zenon DEF TakenForOurs
  <2>1. v # w
    BY <1>2
  <2>2. noticingAt[v] = "mine" /\ settled[v] = seq
    BY <1>1, <2>1
  <2>. QED BY <2>2, Zenon DEF Noticed, TakenForOurs
<1>5. ClaimedOrReported'
  <2>. SUFFICES ASSUME announced = seq, top = "person", ~noticingSpoiled', noticingReported # seq
                PROVE \E v \in NG!Watches : AboutToSay(v)'
    BY Zenon DEF ClaimedOrReported
  <2>1. PICK v \in NG!Watches : AboutToSay(v)
    BY Zenon DEF Noticed, ClaimedOrReported
  <2>2. v # w
    BY <2>1, Zenon DEF AboutToSay
  <2>. QED BY <1>1, <2>1, <2>2, Zenon DEF AboutToSay
<1>. QED BY <1>3, <1>4, <1>5 DEF Noticed

LEMMA WindowToldKeeps == ASSUME Noticed, NG!WindowTold PROVE Noticed'
<1>1. /\ noticingAt["window"] = "waiting" /\ notes # <<>> /\ notes' = Tail(notes)
      /\ noticingAt' = [noticingAt EXCEPT !["window"] = "settling"]
      /\ holds' = [holds EXCEPT !["window"] = Head(notes)] /\ settled' = settled
      /\ seq' = seq /\ top' = top /\ announced' = announced
      /\ noticingReported' = noticingReported /\ noticingSpoiled' = noticingSpoiled
  BY DEF NG!WindowTold, NG!clipboard, NG!shared
<1>2. /\ notes' \in Seq(Nat) /\ \A i \in DOMAIN notes' : notes'[i] <= seq
      /\ Head(notes) \in Nat /\ Head(notes) <= seq
  BY <1>1 DEF Noticed, NoticingTyped
<1>3. "window" \in NG!Watches
  BY DEF NG!Watches
<1>4. /\ holds' \in [NG!Watches -> Nat] /\ holds'["window"] <= seq
      /\ \A v \in NG!Watches : v # "window" => holds'[v] = holds[v]
  BY <1>1, <1>2, <1>3 DEF Noticed, NoticingTyped
<1>5. settled' \in [NG!Watches -> Nat] /\ settled'["window"] <= seq
  BY <1>1, <1>3 DEF Noticed, NoticingTyped
<1>6. "settling" \in Stages \ {"mine"} /\ noticingAt["window"] # "reporting"
  BY <1>1 DEF Stages
<1>. QED BY <1>1, <1>2, <1>3, <1>4, <1>5, <1>6, WatchGoes

LEMMA PollStepsKeep == ASSUME Noticed, NG!PollLooks \/ NG!PollOpens PROVE Noticed'
<1>1. PICK to \in {"settling", "claiming", "waiting"} :
        noticingAt' = [noticingAt EXCEPT !["poll"] = to]
  BY Zenon DEF NG!PollLooks, NG!PollOpens, NG!Goes
<1>2. /\ noticingAt["poll"] \in {"waiting", "opening"} /\ holds' = holds /\ settled' = settled
      /\ seq' = seq /\ top' = top /\ announced' = announced /\ notes' = notes
      /\ noticingReported' = noticingReported /\ noticingSpoiled' = noticingSpoiled
  BY DEF NG!PollLooks, NG!PollOpens, NG!clipboard, NG!shared
<1>3. "poll" \in NG!Watches /\ to \in Stages \ {"mine"} /\ noticingAt["poll"] # "reporting"
  BY <1>2 DEF NG!Watches, Stages
<1>4. /\ holds' \in [NG!Watches -> Nat] /\ settled' \in [NG!Watches -> Nat]
      /\ holds'["poll"] <= seq /\ settled'["poll"] <= seq
      /\ notes' \in Seq(Nat) /\ \A i \in DOMAIN notes' : notes'[i] <= seq
  BY <1>2, <1>3 DEF Noticed, NoticingTyped
<1>. QED BY <1>1, <1>2, <1>3, <1>4, WatchGoes

-----------------------------------------------------------------------------
(* What either watch does.                                                 *)

LEMMA ReadsKeeps == ASSUME Noticed, NEW w \in NG!Watches, NG!Reads(w) PROVE Noticed'
<1>1. /\ noticingAt[w] = "settling" /\ noticingAt' = [noticingAt EXCEPT ![w] = "settled"]
      /\ settled' = [settled EXCEPT ![w] = seq] /\ holds' = holds
      /\ seq' = seq /\ top' = top /\ announced' = announced /\ notes' = notes
      /\ noticingReported' = noticingReported /\ noticingSpoiled' = noticingSpoiled
  BY DEF NG!Reads, NG!Goes, NG!clipboard, NG!shared
<1>2. "settled" \in Stages \ {"mine"} /\ noticingAt[w] # "reporting"
  BY <1>1 DEF Stages
<1>3. /\ holds' \in [NG!Watches -> Nat] /\ settled' \in [NG!Watches -> Nat]
      /\ holds'[w] <= seq /\ settled'[w] <= seq
      /\ \A v \in NG!Watches : v # w => settled'[v] = settled[v]
      /\ notes' \in Seq(Nat) /\ \A i \in DOMAIN notes' : notes'[i] <= seq
  BY <1>1 DEF Noticed, NoticingTyped
<1>. QED BY <1>1, <1>2, <1>3, WatchGoes

LEMMA AsksWhoseKeeps == ASSUME Noticed, NEW w \in NG!Watches, NG!AsksWhose(w) PROVE Noticed'
<1> DEFINE to == IF ours THEN "mine" ELSE IF w = "poll" THEN "opening" ELSE "claiming"
<1>1. /\ noticingAt[w] = "settled" /\ noticingAt' = [noticingAt EXCEPT ![w] = to]
      /\ settled' = settled /\ holds' = holds
      /\ seq' = seq /\ top' = top /\ announced' = announced /\ notes' = notes
      /\ noticingReported' = noticingReported
  BY DEF NG!AsksWhose, NG!Goes, NG!clipboard
<1>2. noticingSpoiled' = (noticingSpoiled \/ (ours /\ top = "person"))
  BY Zenon DEF NG!AsksWhose
<1>3. /\ holds \in [NG!Watches -> Nat] /\ settled \in [NG!Watches -> Nat]
      /\ holds[w] <= seq /\ settled[w] <= seq
      /\ notes \in Seq(Nat) /\ \A i \in DOMAIN notes : notes[i] <= seq
  BY DEF Noticed, NoticingTyped
<1>4. CASE ours
  <2>1. to = "mine" /\ "mine" \in Stages /\ noticingAt \in [NG!Watches -> Stages]
    BY <1>4 DEF Stages, Noticed, NoticingTyped
  <2>. HIDE DEF to
  <2>2. /\ noticingAt' \in [NG!Watches -> Stages] /\ noticingAt'[w] = "mine"
        /\ \A v \in NG!Watches : v # w => noticingAt'[v] = noticingAt[v]
    BY <1>1, <2>1
  <2>3. NoticingTyped'
    BY <1>1, <2>2 DEF Noticed, NoticingTyped
  <2>4. top = "person" => noticingSpoiled'
    BY <1>2, <1>4, Zenon
  <2>5. TakenForOurs'
    BY <1>1, <2>4, Zenon DEF TakenForOurs
  <2>6. ClaimedOrReported'
    BY <1>1, <2>4, Zenon DEF ClaimedOrReported
  <2>. QED BY <2>3, <2>5, <2>6 DEF Noticed
<1>5. CASE ~ours
  <2>1. to \in Stages \ {"mine"} /\ noticingAt[w] # "reporting"
    BY <1>1, <1>5 DEF Stages
  <2>. HIDE DEF to
  <2>2. noticingSpoiled => noticingSpoiled'
    BY <1>2, <1>5, Zenon
  <2>. QED BY <1>1, <1>3, <2>1, <2>2, WatchGoes
<1>. QED BY <1>4, <1>5

\* A watch that is done waits again, with what it took for the service's announced:
\* if it is on the clipboard still, and the person's, it was spoiled when it asked.
LEMMA PassesKeeps == ASSUME Noticed, NEW w \in NG!Watches, NG!Passes(w) PROVE Noticed'
<1>1. /\ noticingAt[w] = "mine" /\ noticingAt' = [noticingAt EXCEPT ![w] = "waiting"]
      /\ settled' = settled /\ holds' = holds /\ announced' = settled[w]
      /\ seq' = seq /\ top' = top /\ notes' = notes
      /\ noticingReported' = noticingReported /\ noticingSpoiled' = noticingSpoiled
  BY DEF NG!Passes, NG!Goes, NG!clipboard
<1>2. /\ noticingAt' \in [NG!Watches -> Stages] /\ noticingAt'[w] = "waiting"
      /\ \A v \in NG!Watches : v # w => noticingAt'[v] = noticingAt[v]
  BY <1>1 DEF Noticed, NoticingTyped, Stages
<1>3. NoticingTyped'
  BY <1>1, <1>2 DEF Noticed, NoticingTyped
<1>4. TakenForOurs'
  <2>. SUFFICES ASSUME NEW v \in NG!Watches, noticingAt'[v] = "mine", settled[v] = seq, top = "person"
                PROVE noticingSpoiled
    BY <1>1, Zenon DEF TakenForOurs
  <2>1. noticingAt[v] = "mine"
    BY <1>2
  <2>. QED BY <2>1, Zenon DEF Noticed, TakenForOurs
<1>5. ClaimedOrReported'
  BY <1>1, Zenon DEF Noticed, TakenForOurs, ClaimedOrReported
<1>. QED BY <1>3, <1>4, <1>5 DEF Noticed

LEMMA ClaimsKeeps == ASSUME Noticed, NEW w \in NG!Watches, NG!Claims(w) PROVE Noticed'
<1> DEFINE to == IF announced = settled[w] THEN "waiting" ELSE "reporting"
<1>1. /\ noticingAt[w] = "claiming" /\ noticingAt' = [noticingAt EXCEPT ![w] = to]
      /\ settled' = settled /\ holds' = holds /\ announced' = settled[w]
      /\ seq' = seq /\ top' = top /\ notes' = notes /\ noticingReported' = noticingReported
  BY DEF NG!Claims, NG!Goes, NG!clipboard
<1>2. noticingSpoiled' =
        (noticingSpoiled \/ (announced # settled[w] /\ w = "window" /\ holds[w] # settled[w]))
  BY Zenon DEF NG!Claims
<1>3. /\ noticingAt' \in [NG!Watches -> Stages] /\ noticingAt'[w] = to /\ to \in {"waiting", "reporting"}
      /\ \A v \in NG!Watches : v # w => noticingAt'[v] = noticingAt[v]
  BY <1>1 DEF Noticed, NoticingTyped, Stages
<1>. HIDE DEF to
<1>4. NoticingTyped'
  BY <1>1, <1>3 DEF Noticed, NoticingTyped
<1>5. TakenForOurs'
  <2>. SUFFICES ASSUME NEW v \in NG!Watches, noticingAt'[v] = "mine", settled[v] = seq, top = "person"
                PROVE noticingSpoiled'
    BY <1>1, Zenon DEF TakenForOurs
  <2>1. noticingAt[v] = "mine"
    BY <1>3
  <2>. QED BY <1>2, <2>1, Zenon DEF Noticed, TakenForOurs
<1>6. ClaimedOrReported'
  <2>. SUFFICES ASSUME settled[w] = seq, top = "person", ~noticingSpoiled', noticingReported # seq
                PROVE \E v \in NG!Watches : AboutToSay(v)'
    BY <1>1, Zenon DEF ClaimedOrReported
  <2>1. CASE announced # settled[w]
    <3>1. to = "reporting"
      BY <2>1 DEF to
    <3>2. w = "window" => holds[w] = seq
      BY <1>2, <2>1, Zenon
    <3>. QED BY <1>1, <1>3, <3>1, <3>2, Zenon DEF AboutToSay
  <2>2. CASE announced = settled[w]
    <3>1. ~noticingSpoiled
      BY <1>2, Zenon
    <3>2. PICK v \in NG!Watches : AboutToSay(v)
      BY <2>2, <3>1, Zenon DEF Noticed, ClaimedOrReported
    <3>3. v # w
      BY <1>1, <3>2 DEF AboutToSay
    <3>. QED BY <1>1, <1>3, <3>2, <3>3, Zenon DEF AboutToSay
  <2>. QED BY <2>1, <2>2
<1>. QED BY <1>4, <1>5, <1>6 DEF Noticed

\* A watch reports: what it held back is what is there, where it was about to say so.
LEMMA ReportsKeeps == ASSUME Noticed, NEW w \in NG!Watches, NG!Reports(w) PROVE Noticed'
<1>1. /\ noticingAt[w] = "reporting" /\ settled' = settled /\ holds' = holds
      /\ announced' = announced /\ seq' = seq /\ top' = top /\ notes' = notes
  BY DEF NG!Reports, NG!clipboard, NG!shared
<1>2. PICK to \in {"waiting", "ended"} : noticingAt' = [noticingAt EXCEPT ![w] = to]
  BY Zenon DEF NG!Reports, NG!Goes
<1>3. /\ noticingAt' \in [NG!Watches -> Stages] /\ noticingAt'[w] = to
      /\ \A v \in NG!Watches : v # w => noticingAt'[v] = noticingAt[v]
  BY <1>2 DEF Noticed, NoticingTyped, Stages
<1> DEFINE n == IF w = "poll" THEN seq ELSE holds[w]
<1>4. n \in Nat /\ n <= seq
  BY DEF Noticed, NoticingTyped
<1>5. \/ /\ noticingReported' = IF n > noticingReported THEN n ELSE noticingReported
         /\ noticingSpoiled' = noticingSpoiled
      \/ noticingSpoiled' = TRUE /\ noticingReported' = noticingReported
  BY DEF NG!Reports
<1>6. AboutToSay(w) => n = seq
  BY DEF AboutToSay, NG!Watches
<1>. HIDE DEF n
<1>7. /\ noticingReported' \in 0 .. seq
      /\ noticingReported = seq => noticingReported' = seq
      /\ n = seq => noticingReported' = seq \/ noticingSpoiled'
      /\ noticingSpoiled => noticingSpoiled'
  BY <1>4, <1>5 DEF Noticed, NoticingTyped
<1>8. NoticingTyped'
  BY <1>1, <1>3, <1>7 DEF Noticed, NoticingTyped
<1>9. TakenForOurs'
  <2>. SUFFICES ASSUME NEW v \in NG!Watches, noticingAt'[v] = "mine", settled[v] = seq, top = "person"
                PROVE noticingSpoiled'
    BY <1>1, Zenon DEF TakenForOurs
  <2>1. noticingAt[v] = "mine"
    BY <1>3
  <2>. QED BY <1>7, <2>1, Zenon DEF Noticed, TakenForOurs
<1>10. ClaimedOrReported'
  <2>. SUFFICES ASSUME announced = seq, top = "person", ~noticingSpoiled', noticingReported' # seq
                PROVE \E v \in NG!Watches : AboutToSay(v)'
    BY <1>1, Zenon DEF ClaimedOrReported
  <2>1. PICK v \in NG!Watches : AboutToSay(v)
    BY <1>7, Zenon DEF Noticed, ClaimedOrReported
  <2>2. v # w
    BY <1>6, <1>7, <2>1, Zenon
  <2>. QED BY <1>1, <1>3, <2>1, <2>2, Zenon DEF AboutToSay
<1>. QED BY <1>8, <1>9, <1>10 DEF Noticed

LEMMA NoticedKeeps == ASSUME Noticed, [NG!Next]_(NG!vars) PROVE Noticed'
<1>1. CASE NG!Copy
  <2>1. /\ seq' = seq + 1 /\ notes' = notes
        /\ UNCHANGED <<announced, noticingReported, NG!watching, noticingSpoiled>>
    BY <1>1 DEF NG!Copy, NG!shared
  <2>. QED BY <2>1, ClipboardMoves
<1>2. CASE NG!WorkerTakes
  <2>1. /\ seq' = seq + 1 /\ notes' = notes
        /\ UNCHANGED <<announced, noticingReported, NG!watching, noticingSpoiled>>
    BY <1>2 DEF NG!WorkerTakes, NG!shared
  <2>. QED BY <2>1, ClipboardMoves
<1>3. CASE NG!Offer \/ NG!Reoffer \/ NG!HearWarning \/ NG!Expires \/ UNCHANGED NG!vars
  <2>1. /\ seq' = seq /\ top' = top /\ announced' = announced /\ notes' = notes
        /\ noticingReported' = noticingReported /\ noticingSpoiled' = noticingSpoiled
        /\ noticingAt' = noticingAt /\ holds' = holds /\ settled' = settled
    BY <1>3 DEF NG!Offer, NG!Reoffer, NG!HearWarning, NG!Expires, NG!vars, NG!clipboard, NG!shared,
                NG!watching
  <2>. QED BY <2>1, WatchesSame DEF Noticed, NoticingTyped
<1>4. CASE NG!WindowLooks
  <2>1. /\ seq' = seq /\ top' = top /\ announced' = announced
        /\ noticingReported' = noticingReported /\ noticingSpoiled' = noticingSpoiled
        /\ noticingAt' = noticingAt /\ holds' = holds /\ settled' = settled
        /\ notes' = Append(notes, seq)
    BY <1>4 DEF NG!WindowLooks, NG!clipboard, NG!shared, NG!watching
  <2>2. notes' \in Seq(Nat) /\ \A i \in DOMAIN notes' : notes'[i] <= seq
    BY <2>1 DEF Noticed, NoticingTyped
  <2>. QED BY <2>1, <2>2, WatchesSame
<1>5. CASE \E w \in NG!Watches : NG!Watch(w)
  BY <1>5, ReadsKeeps, AsksWhoseKeeps, PassesKeeps, ClaimsKeeps, ReportsKeeps DEF NG!Watch
<1>. QED
  BY <1>1, <1>2, <1>3, <1>4, <1>5, WindowToldKeeps, PollStepsKeep DEF NG!Next

\* What the person copied last has been reported once both watches are done with
\* it, for however many copies, offers and failures (the two watches of
\* secure/windows/reader.rs).
THEOREM CopyIsAlwaysNoticed == NG!Spec => []CopyIsNoticed
<1>1. Noticed /\ [NG!Next]_(NG!vars) => Noticed'
  BY NoticedKeeps
<1>2. Noticed => CopyIsNoticed
  <2>. SUFFICES ASSUME Noticed, NG!Settled, top = "person" PROVE noticingReported = seq \/ noticingSpoiled
    BY DEF CopyIsNoticed, NG!CopyIsNoticed
  <2>1. \A w \in NG!Watches : ~AboutToSay(w)
    BY DEF NG!Settled, AboutToSay
  <2>. QED BY <2>1, Zenon DEF Noticed, ClaimedOrReported, NG!Settled
<1>. QED BY NoticedInit, <1>1, <1>2, PTL DEF NG!Spec

-----------------------------------------------------------------------------
(* Selection.                                                              *)

\* What reaches the owner's connection.
Events == [type : {"clear"}, time : Nat] \cup [type : {"request", "deleted"}, from : Pasters]
Transfers == [to : Pasters, data : Nat, sent : 0 .. Pieces]

SelectionTyped ==
  /\ selection \in [owner : {"none", "us", "app"}, time : Nat]
  /\ selectionCommands \in Seq(Nat) /\ offers \in Nat /\ events \in Seq(Events)
  /\ owner \in [on : BOOLEAN, owns : BOOLEAN, offered : Nat, since : Nat]
  /\ cached \in {0, owner.offered} /\ inFlight \in Seq(Transfers)
  /\ paste \in [Pasters -> [at : {"idle", "asked", "incr", "waits", "done"},
                            got : Seq(Nat), since : Nat]]

\* Offers are numbered in the order they are made and heard, and what is pasted
\* was asked for when none of those that are still to be heard was.
OffersAscend ==
  /\ owner.offered <= offers
  /\ \A p \in Pasters :
       paste[p].since <= offers /\ (owner.on => paste[p].since <= owner.offered)
  /\ \A i \in DOMAIN selectionCommands : selectionCommands[i] # 0 =>
       /\ owner.offered <= selectionCommands[i] /\ selectionCommands[i] <= offers
       /\ \A p \in Pasters : paste[p].since <= selectionCommands[i]
       /\ \A j \in DOMAIN selectionCommands :
            j > i /\ selectionCommands[j] # 0 => selectionCommands[i] <= selectionCommands[j]

\* What waits on the connection of p: a question, or a word that a piece was taken.
Asks(e, p) == e.type = "request" /\ e.from = p
Takes(e, p) == e.type = "deleted" /\ e.from = p

NeverAsks(q, p) == \A i \in DOMAIN q : ~Asks(q[i], p)
NeverTakes(q, p) == \A i \in DOMAIN q : ~Takes(q[i], p)
AsksLast(q, p) ==
  \A i, j \in DOMAIN q : Asks(q[i], p) /\ j > i => ~Asks(q[j], p) /\ ~Takes(q[j], p)
TakesOnce(q, p) == \A i, j \in DOMAIN q : Takes(q[i], p) /\ Takes(q[j], p) => i = j

\* The transfers to p.
SentTo(p) == {i \in DOMAIN inFlight : inFlight[i].to = p}

\* Of one who never left a transfer: a question is the last that was heard of him,
\* and has not been answered; he is sent one thing at a time, and has got of it what
\* was sent; he asks for the next piece once he has taken one.
Served(p) ==
  /\ AsksLast(events, p) /\ (paste[p].at # "asked" => NeverAsks(events, p))
  /\ paste[p].at \in {"idle", "asked", "done"} => SentTo(p) = {}
  /\ paste[p].at = "asked" => paste[p].got = <<>>
  /\ \A i \in SentTo(p) :
       /\ \A j \in SentTo(p) : i = j
       /\ Len(paste[p].got) = inFlight[i].sent /\ paste[p].since <= inFlight[i].data
       /\ \A k \in 1 .. Len(paste[p].got) : paste[p].got[k] = inFlight[i].data
       /\ TakesOnce(events, p) /\ (paste[p].at = "incr" => NeverTakes(events, p))
  /\ paste[p].at = "done" =>
       /\ Len(paste[p].got) = Pieces
       /\ \A i \in 1 .. Pieces :
            paste[p].got[i] = paste[p].got[1] /\ paste[p].got[i] >= paste[p].since

AllServed == \A p \in Pasters \ selectionLeft : Served(p)

Serving == SelectionTyped /\ OffersAscend /\ SE!OwnedIsServed /\ AllServed

LEMMA ServingInit == SE!Init => Serving
BY SelectionAssumption
DEF SE!Init, SE!NoOwner, SE!Idle, Serving, SelectionTyped, OffersAscend, SE!OwnedIsServed, AllServed,
    Served, AsksLast, NeverAsks, SentTo

-----------------------------------------------------------------------------
(* Queues, and what is in flight.                                          *)

\* Nothing is said on r by p that was not on q, and in that order.
NoNews(q, r, p) ==
  /\ NeverAsks(q, p) => NeverAsks(r, p)
  /\ NeverTakes(q, p) => NeverTakes(r, p)
  /\ AsksLast(q, p) => AsksLast(r, p)
  /\ TakesOnce(q, p) => TakesOnce(r, p)

LEMMA RestIsNoNews ==
  ASSUME NEW q \in Seq(Events), q # <<>>, NEW p
  PROVE  NoNews(q, Tail(q), p) /\ Tail(q) \in Seq(Events)
<1> DEFINE r == Tail(q)
<1>1. /\ r \in Seq(Events) /\ DOMAIN r = 1 .. Len(q) - 1 /\ DOMAIN q = 1 .. Len(q)
      /\ Len(q) \in Nat /\ \A i \in 1 .. Len(q) - 1 : r[i] = q[i + 1]
  OBVIOUS
<1> HIDE DEF r
<1>0. ASSUME NEW i \in DOMAIN r PROVE i + 1 \in DOMAIN q /\ r[i] = q[i + 1]
  BY <1>1
<1>2. NeverAsks(q, p) => NeverAsks(r, p)
  BY <1>0, Zenon DEF NeverAsks
<1>3. NeverTakes(q, p) => NeverTakes(r, p)
  BY <1>0, Zenon DEF NeverTakes
<1>4. ASSUME AsksLast(q, p), NEW i \in DOMAIN r, NEW j \in DOMAIN r, Asks(r[i], p), j > i
      PROVE  ~Asks(r[j], p) /\ ~Takes(r[j], p)
  <2>1. i + 1 \in DOMAIN q /\ j + 1 \in DOMAIN q /\ j + 1 > i + 1 /\ r[i] = q[i + 1] /\ r[j] = q[j + 1]
    BY <1>1, <1>4
  <2>. QED BY <1>4, <2>1 DEF AsksLast
<1>5. ASSUME TakesOnce(q, p), NEW i \in DOMAIN r, NEW j \in DOMAIN r, Takes(r[i], p), Takes(r[j], p)
      PROVE  i = j
  <2>1. i \in 1 .. Len(q) - 1 /\ j \in 1 .. Len(q) - 1
    BY <1>1
  <2>2. i + 1 \in DOMAIN q /\ j + 1 \in DOMAIN q /\ r[i] = q[i + 1] /\ r[j] = q[j + 1]
    BY <1>1, <2>1
  <2>3. i + 1 = j + 1
    BY <1>5, <2>2 DEF TakesOnce
  <2>. QED BY <2>1, <2>3
<1>6. NoNews(q, r, p)
  BY <1>2, <1>3, <1>4, <1>5 DEF NoNews, AsksLast, TakesOnce
<1>. QED BY <1>1, <1>6 DEF r

LEMMA MoreIsNoNews ==
  ASSUME NEW q \in Seq(Events), NEW e \in Events, NEW p, ~Asks(e, p), ~Takes(e, p)
  PROVE  NoNews(q, Append(q, e), p) /\ Append(q, e) \in Seq(Events)
<1> DEFINE r == Append(q, e)
<1>1. /\ r \in Seq(Events) /\ DOMAIN r = 1 .. Len(q) + 1 /\ DOMAIN q = 1 .. Len(q)
      /\ Len(q) \in Nat /\ r[Len(q) + 1] = e /\ \A i \in 1 .. Len(q) : r[i] = q[i]
  OBVIOUS
<1> HIDE DEF r
<1>2. ASSUME NEW i \in DOMAIN r 
      PROVE  \/ i \in DOMAIN q /\ r[i] = q[i]
             \/ i = Len(q) + 1 /\ r[i] = e
  <2>1. i \in 1 .. Len(q) + 1
    BY <1>1
  <2>2. CASE i \in 1 .. Len(q)
    <3>1. r[i] = q[i]
      BY <1>1, <2>2
    <3>2. i \in DOMAIN q
      BY <1>1, <2>2
    <3>. QED BY <3>1, <3>2
  <2>3. CASE i = Len(q) + 1
    BY <1>1, <2>3
  <2>. QED BY <1>1, <2>1, <2>2, <2>3
<1>3. NoNews(q, r, p)
  BY <1>1, <1>2 DEF NoNews, NeverAsks, NeverTakes, AsksLast, TakesOnce
<1>. QED BY <1>1, <1>3 DEF r

\* Whatever is in g for p was in f, and is there as often.
NoMore(f, g, p) ==
  \A i, j \in DOMAIN g : g[i].to = p /\ g[j].to = p =>
    \E k, l \in DOMAIN f : f[k] = g[i] /\ f[l] = g[j] /\ (k = l => i = j)

\* A step that is not about p.
LEMMA NotAboutHim ==
  ASSUME NEW p \in Pasters, Served(p), paste'[p] = paste[p],
         NoMore(inFlight, inFlight', p), NoNews(events, events', p)
  PROVE  Served(p)'
<1>1. /\ AsksLast(events', p) /\ (paste'[p].at # "asked" => NeverAsks(events', p))
      /\ TakesOnce(events, p) => TakesOnce(events', p)
      /\ NeverTakes(events, p) => NeverTakes(events', p)
  BY DEF Served, NoNews
<1>2. ASSUME NEW i \in SentTo(p)' PROVE \E k \in SentTo(p) : inFlight[k] = inFlight'[i]
  BY <1>2 DEF SentTo, NoMore
<1>3. paste'[p].at \in {"idle", "asked", "done"} => SentTo(p)' = {}
  BY <1>2 DEF Served
<1>4. ASSUME NEW i \in SentTo(p)', NEW j \in SentTo(p)' PROVE i = j
  <2>1. PICK k, l \in DOMAIN inFlight :
          inFlight[k] = inFlight'[i] /\ inFlight[l] = inFlight'[j] /\ (k = l => i = j)
    BY <1>4 DEF SentTo, NoMore
  <2>2. k \in SentTo(p) /\ l \in SentTo(p)
    BY <1>4, <2>1 DEF SentTo
  <2>. QED BY <2>1, <2>2 DEF Served
<1>5. ASSUME NEW i \in SentTo(p)'
      PROVE  /\ Len(paste'[p].got) = inFlight'[i].sent /\ paste'[p].since <= inFlight'[i].data
             /\ \A k \in 1 .. Len(paste'[p].got) : paste'[p].got[k] = inFlight'[i].data
             /\ TakesOnce(events', p) /\ (paste'[p].at = "incr" => NeverTakes(events', p))
  <2>1. PICK k \in SentTo(p) : inFlight[k] = inFlight'[i]
    BY <1>2, <1>5
  <2>. QED BY <1>1, <2>1 DEF Served
<1>6. /\ paste'[p].at = "asked" => paste'[p].got = <<>>
      /\ paste'[p].at = "done" =>
        /\ Len(paste'[p].got) = Pieces
        /\ \A i \in 1 .. Pieces :
             paste'[p].got[i] = paste'[p].got[1] /\ paste'[p].got[i] >= paste'[p].since
  BY DEF Served
<1>. QED BY <1>1, <1>3, <1>4, <1>5, <1>6, Zenon DEF Served

\* The server gives the selection to somebody.
LEMMA PassesSays ==
  ASSUME SelectionTyped, NEW w \in {"none", "us", "app"}, NEW q \in Seq(Events), SE!Passes(w, q), NEW p
  PROVE  /\ selection' \in [owner : {"none", "us", "app"}, time : Nat] /\ selection'.owner = w
         /\ NoNews(q, events', p) /\ events' \in Seq(Events)
<1>1. selection' = [owner |-> w, time |-> selection.time + 1] /\ selection.time \in Nat
  BY DEF SE!Passes, SelectionTyped
<1> DEFINE e == [type |-> "clear", time |-> selection.time + 1]
<1>2. e \in Events /\ ~Asks(e, p) /\ ~Takes(e, p)
  BY <1>1 DEF Events, Asks, Takes
<1>3. events' = Append(q, e) \/ events' = q
  BY DEF SE!Passes
<1>4. NoNews(q, q, p)
  BY DEF NoNews
<1>5. NoNews(q, Append(q, e), p) /\ Append(q, e) \in Seq(Events)
  BY <1>2, MoreIsNoNews
<1> HIDE DEF e
<1>6. NoNews(q, events', p) /\ events' \in Seq(Events)
  <2>1. CASE events' = Append(q, e)
    BY <1>5, <2>1, Zenon
  <2>2. CASE events' = q
    BY <1>4, <2>2, Zenon
  <2>. QED BY <1>3, <2>1, <2>2
<1>7. selection' \in [owner : {"none", "us", "app"}, time : Nat] /\ selection'.owner = w
  BY <1>1
<1>. QED BY <1>6, <1>7

LEMMA NothingNew ==
  /\ \A f, p : NoMore(f, f, p) /\ NoMore(f, <<>>, p)
  /\ \A q, p : NoNews(q, q, p)
BY DEF NoMore, NoNews

\* The transfer that is looked for is found, if there is one.
LEMMA FoundIfThere ==
  ASSUME NEW f \in Seq(Transfers), NEW p \in Pasters
  PROVE  LET i == SE!SelectInSeq(f, LAMBDA t : t.to = p) IN
           /\ i = 0 => \A k \in DOMAIN f : f[k].to # p
           /\ i # 0 => i \in DOMAIN f /\ f[i].to = p
<1> DEFINE those == {i \in 1 .. Len(f) : f[i].to = p}
<1> DEFINE less == OpToRel(<, Nat)
<1>1. DOMAIN f = 1 .. Len(f) /\ Len(f) \in Nat /\ those \subseteq 1 .. Len(f) /\ those \subseteq Nat
  OBVIOUS
<1>2. ASSUME those # {} PROVE \E x \in those : \A y \in those : x <= y
  <2>1. \E x \in those : \A y \in those : ~(<<y, x>> \in less)
    BY <1>1, <1>2, NatLessThanWellFounded, WFMin
  <2>2. PICK x \in those : \A y \in those : ~(<<y, x>> \in less)
    BY <2>1
  <2>3. ASSUME NEW y \in those PROVE x <= y
    <3>1. ~(y < x)
      BY <1>1, <2>2, <2>3 DEF OpToRel
    <3>. QED BY <1>1, <3>1
  <2>. QED BY <2>3
<1>3. SE!SelectInSeq(f, LAMBDA t : t.to = p) = IF those # {} THEN SE!Min(those) ELSE 0
  BY DEF SE!SelectInSeq
<1>4. those # {} => SE!Min(those) \in those
  BY <1>2 DEF SE!Min
<1>. QED BY <1>1, <1>3, <1>4

-----------------------------------------------------------------------------
(* The steps.                                                              *)

\* A step that is about nobody's paste.
LEMMA NobodysPaste ==
  ASSUME AllServed, paste' = paste, selectionLeft' = selectionLeft,
         inFlight' = inFlight \/ inFlight' = <<>>,
         \A p \in Pasters : NoNews(events, events', p)
  PROVE  AllServed'
<1> SUFFICES ASSUME NEW p \in Pasters \ selectionLeft PROVE Served(p)'
  BY DEF AllServed
<1>1. Served(p) /\ NoNews(events, events', p) /\ paste'[p] = paste[p]
  BY DEF AllServed
<1>2. NoMore(inFlight, inFlight', p)
  BY NothingNew
<1>. QED BY <1>1, <1>2, NotAboutHim

LEMMA CommandServes == ASSUME Serving, SE!Command PROVE Serving'
<1>1. offers' = offers + 1 /\ \E c \in {0, offers + 1} : selectionCommands' = Append(selectionCommands, c)
  BY DEF SE!Command
<1>2. UNCHANGED <<selection, owner, cached, inFlight, events, paste, selectionLeft>>
  BY DEF SE!Command, SE!ours
<1>3. PICK c \in {0, offers + 1} : selectionCommands' = Append(selectionCommands, c)
  BY <1>1
<1>4. selectionCommands \in Seq(Nat) /\ c \in Nat /\ offers \in Nat /\ offers' \in Nat
  BY <1>1 DEF Serving, SelectionTyped
<1> DEFINE q == selectionCommands
<1>5. /\ selectionCommands' \in Seq(Nat) /\ DOMAIN selectionCommands' = 1 .. Len(q) + 1
      /\ DOMAIN q = 1 .. Len(q) /\ Len(q) \in Nat /\ selectionCommands'[Len(q) + 1] = c
      /\ \A i \in 1 .. Len(q) : selectionCommands'[i] = q[i] /\ q[i] \in Nat
  BY <1>3, <1>4
<1>6. SelectionTyped'
  BY <1>2, <1>4, <1>5 DEF Serving, SelectionTyped
<1>7. OffersAscend'
  <2>1. /\ owner.offered \in Nat /\ owner.offered <= offers
        /\ \A p \in Pasters : paste[p].since \in Nat /\ paste[p].since <= offers
    BY DEF Serving, SelectionTyped, OffersAscend
  <2>2. /\ owner.offered <= offers'
        /\ \A p \in Pasters :
             paste[p].since <= offers' /\ (owner.on => paste[p].since <= owner.offered)
    BY <1>1, <1>4, <2>1 DEF Serving, OffersAscend
  <2>3. ASSUME NEW i \in DOMAIN selectionCommands', selectionCommands'[i] # 0
        PROVE  /\ owner.offered <= selectionCommands'[i] /\ selectionCommands'[i] <= offers'
               /\ \A p \in Pasters : paste[p].since <= selectionCommands'[i]
               /\ \A j \in DOMAIN selectionCommands' : j > i /\ selectionCommands'[j] # 0 =>
                    selectionCommands'[i] <= selectionCommands'[j]
    <3>1. CASE i = Len(q) + 1
      <4>1. c = offers + 1 /\ selectionCommands'[i] = offers'
        BY <1>1, <1>3, <1>5, <2>3, <3>1
      <4>. QED BY <1>1, <1>4, <1>5, <2>1, <3>1, <4>1
    <3>2. CASE i \in 1 .. Len(q)
      <4>1. /\ selectionCommands'[i] = q[i] /\ q[i] \in Nat /\ q[i] # 0
            /\ owner.offered <= q[i] /\ q[i] <= offers
            /\ \A p \in Pasters : paste[p].since <= q[i]
            /\ \A j \in 1 .. Len(q) : j > i /\ q[j] # 0 => q[i] <= q[j]
        BY <1>5, <2>3, <3>2 DEF Serving, OffersAscend
      <4>2. ASSUME NEW j \in DOMAIN selectionCommands', j > i, selectionCommands'[j] # 0
            PROVE  selectionCommands'[i] <= selectionCommands'[j]
        <5>1. CASE j \in 1 .. Len(q)
          BY <1>5, <4>1, <4>2, <5>1
        <5>2. CASE j = Len(q) + 1
          BY <1>3, <1>4, <1>5, <4>1, <4>2, <5>2
        <5>. QED BY <1>5, <5>1, <5>2
      <4>. QED BY <1>1, <1>4, <4>1, <4>2
    <3>. QED BY <1>5, <3>1, <3>2
  <2>. QED BY <1>2, <2>2, <2>3, Zenon DEF OffersAscend
<1>8. AllServed'
  BY <1>2, NobodysPaste, NothingNew DEF Serving
<1>9. SE!OwnedIsServed'
  BY <1>2, Zenon DEF Serving, SE!OwnedIsServed
<1>. QED BY <1>6, <1>7, <1>8, <1>9 DEF Serving

LEMMA CopyServes == ASSUME Serving, SE!Copy PROVE Serving'
<1>1. SE!Passes("app", events)
  BY DEF SE!Copy
<1>2. UNCHANGED <<selectionCommands, offers, owner, cached, inFlight, paste, selectionLeft>>
  BY DEF SE!Copy, SE!ours, SE!daemon
<1>3. /\ selection' \in [owner : {"none", "us", "app"}, time : Nat] /\ selection'.owner = "app"
      /\ events' \in Seq(Events)
      /\ \A p \in Pasters : NoNews(events, events', p)
  BY <1>1, PassesSays DEF Serving, SelectionTyped
<1>4. SelectionTyped'
  BY <1>2, <1>3 DEF Serving, SelectionTyped
<1>5. OffersAscend'
  BY <1>2, Zenon DEF Serving, OffersAscend
<1>6. AllServed'
  BY <1>2, <1>3, NobodysPaste DEF Serving
<1>7. SE!OwnedIsServed'
  BY <1>3 DEF SE!OwnedIsServed
<1>. QED BY <1>4, <1>5, <1>6, <1>7 DEF Serving

\* What is heard is the first of the commands.
LEMMA CommandHeard ==
  ASSUME SelectionTyped, OffersAscend, selectionCommands # <<>>
  PROVE  /\ Tail(selectionCommands) \in Seq(Nat) /\ Head(selectionCommands) \in Nat
         /\ Head(selectionCommands) # 0 =>
              /\ owner.offered <= Head(selectionCommands) /\ Head(selectionCommands) <= offers
              /\ \A p \in Pasters : paste[p].since <= Head(selectionCommands)
         /\ \A i \in DOMAIN Tail(selectionCommands) : Tail(selectionCommands)[i] # 0 =>
              /\ owner.offered <= Tail(selectionCommands)[i] /\ Tail(selectionCommands)[i] <= offers
              /\ Head(selectionCommands) <= Tail(selectionCommands)[i]
              /\ \A p \in Pasters : paste[p].since <= Tail(selectionCommands)[i]
              /\ \A j \in DOMAIN Tail(selectionCommands) :
                   j > i /\ Tail(selectionCommands)[j] # 0
                     => Tail(selectionCommands)[i] <= Tail(selectionCommands)[j]
<1> DEFINE q == selectionCommands
<1> DEFINE r == Tail(q)
<1>1. /\ r \in Seq(Nat) /\ DOMAIN r = 1 .. Len(q) - 1 /\ DOMAIN q = 1 .. Len(q)
      /\ Len(q) \in Nat \ {0} /\ \A i \in 1 .. Len(q) - 1 : r[i] = q[i + 1]
      /\ Head(q) = q[1] /\ q[1] \in Nat
  BY DEF SelectionTyped
<1> HIDE DEF r
<1>2. 1 \in DOMAIN q
  BY <1>1
<1>3. q[1] # 0 => /\ owner.offered <= q[1] /\ q[1] <= offers
                  /\ \A p \in Pasters : paste[p].since <= q[1]
  BY <1>2 DEF OffersAscend
<1>4. ASSUME NEW i \in DOMAIN r, r[i] # 0
      PROVE  /\ owner.offered <= r[i] /\ r[i] <= offers /\ q[1] <= r[i]
             /\ \A p \in Pasters : paste[p].since <= r[i]
             /\ \A j \in DOMAIN r : j > i /\ r[j] # 0 => r[i] <= r[j]
  <2>1. i \in 1 .. Len(q) - 1
    BY <1>1
  <2>2. i + 1 \in DOMAIN q /\ i + 1 > 1 /\ r[i] = q[i + 1]
    BY <1>1, <2>1
  <2>3. r[i] \in Nat
    BY <1>1
  <2>4. /\ owner.offered <= r[i] /\ r[i] <= offers
        /\ \A p \in Pasters : paste[p].since <= r[i]
        /\ \A j \in DOMAIN q : j > i + 1 /\ q[j] # 0 => r[i] <= q[j]
    BY <1>4, <2>2 DEF OffersAscend
  <2>5. q[1] <= r[i]
    <3>1. CASE q[1] # 0
      BY <1>2, <1>4, <2>2, <3>1 DEF OffersAscend
    <3>2. CASE q[1] = 0
      BY <2>3, <3>2
    <3>. QED BY <3>1, <3>2
  <2>6. ASSUME NEW j \in DOMAIN r, j > i, r[j] # 0 PROVE r[i] <= r[j]
    <3>1. j \in 1 .. Len(q) - 1
      BY <1>1
    <3>2. j + 1 \in DOMAIN q /\ j + 1 > i + 1 /\ r[j] = q[j + 1]
      BY <1>1, <2>1, <2>6, <3>1
    <3>. QED BY <2>4, <2>6, <3>2
  <2>. QED BY <2>4, <2>5, <2>6
<1>. QED BY <1>1, <1>3, <1>4 DEF r

\* What is offered changes to a command that was heard, in an owner's hands or not.
LEMMA HeardAscends ==
  ASSUME SelectionTyped, OffersAscend, selectionCommands # <<>>, Head(selectionCommands) # 0,
         selectionCommands' = Tail(selectionCommands), UNCHANGED <<offers, paste>>,
         owner'.offered = Head(selectionCommands)
  PROVE  OffersAscend'
BY CommandHeard DEF OffersAscend

\* Who lets go is an owner no more, and offers nothing.
LEMMA TakenBack ==
  ASSUME SelectionTyped, NEW had, NEW q \in Seq(Events), SE!TakeBack(had, q),
         had \/ selection.owner # "us",
         \A p \in Pasters : NoNews(events, q, p)
  PROVE  /\ selection' \in [owner : {"none", "us", "app"}, time : Nat] /\ selection'.owner # "us"
         /\ owner' = SE!NoOwner /\ cached' = 0 /\ inFlight' = <<>>
         /\ events' \in Seq(Events) /\ \A p \in Pasters : NoNews(events, events', p)
<1>1. owner' = SE!NoOwner /\ cached' = 0 /\ inFlight' = <<>>
  BY DEF SE!TakeBack
<1>2. CASE had
  <2>1. SE!Passes("none", q)
    BY <1>2 DEF SE!TakeBack
  <2>2. /\ selection' \in [owner : {"none", "us", "app"}, time : Nat] /\ selection'.owner = "none"
        /\ events' \in Seq(Events) /\ \A p \in Pasters : NoNews(q, events', p)
    BY <2>1, PassesSays
  <2>3. \A p \in Pasters : NoNews(events, events', p)
    BY <2>2, Zenon DEF NoNews
  <2>. QED BY <1>1, <2>2, <2>3
<1>3. CASE ~had
  <2>1. events' = q /\ selection' = selection
    BY <1>3 DEF SE!TakeBack
  <2>. QED BY <1>1, <1>3, <2>1 DEF SelectionTyped
<1>. QED BY <1>2, <1>3

\* Nothing is offered any more, ...
LEMMA NobodyTypes ==
  /\ SE!NoOwner \in [on : BOOLEAN, owns : BOOLEAN, offered : Nat, since : Nat]
  /\ SE!NoOwner.offered = 0 /\ ~SE!NoOwner.on
BY DEF SE!NoOwner

\* ... and that is less than anything.
LEMMA NothingAscends ==
  ASSUME SelectionTyped, OffersAscend, owner' = SE!NoOwner, UNCHANGED <<offers, paste>>,
         \/ selectionCommands' = selectionCommands
         \/ selectionCommands # <<>> /\ selectionCommands' = Tail(selectionCommands)
  PROVE  OffersAscend' /\ selectionCommands' \in Seq(Nat)
<1>1. owner'.offered = 0 /\ ~owner'.on
  BY NobodyTypes
<1>2. CASE selectionCommands' = selectionCommands
  BY <1>1, <1>2 DEF SelectionTyped, OffersAscend
<1>3. CASE selectionCommands # <<>> /\ selectionCommands' = Tail(selectionCommands)
  <2>1. selectionCommands' \in Seq(Nat)
    BY <1>3, CommandHeard
  <2>2. \A i \in DOMAIN selectionCommands' : selectionCommands'[i] # 0 =>
          /\ selectionCommands'[i] <= offers
          /\ \A p \in Pasters : paste[p].since <= selectionCommands'[i]
          /\ \A j \in DOMAIN selectionCommands' :
               j > i /\ selectionCommands'[j] # 0 => selectionCommands'[i] <= selectionCommands'[j]
    BY <1>3, CommandHeard
  <2>3. \A i \in DOMAIN selectionCommands' : 0 <= selectionCommands'[i]
    BY <2>1
  <2>4. 0 <= offers /\ \A p \in Pasters : paste[p].since <= offers
    BY DEF SelectionTyped, OffersAscend
  <2>. QED BY <1>1, <2>1, <2>2, <2>3, <2>4, Zenon DEF OffersAscend
<1>. QED BY <1>2, <1>3

LEMMA LettingGoServes ==
  ASSUME Serving, UNCHANGED <<offers, paste, selectionLeft>>,
         \/ selectionCommands' = selectionCommands
         \/ selectionCommands # <<>> /\ selectionCommands' = Tail(selectionCommands),
         selection' \in [owner : {"none", "us", "app"}, time : Nat], selection'.owner # "us",
         owner' = SE!NoOwner, cached' = 0, inFlight' = <<>>,
         events' \in Seq(Events), \A p \in Pasters : NoNews(events, events', p)
  PROVE  Serving'
<1>1. OffersAscend' /\ selectionCommands' \in Seq(Nat)
  BY NothingAscends DEF Serving
<1>2. SelectionTyped'
  <2>1. owner' \in [on : BOOLEAN, owns : BOOLEAN, offered : Nat, since : Nat] /\ inFlight' \in Seq(Transfers)
    BY NobodyTypes
  <2>. QED BY <1>1, <2>1, Zenon DEF Serving, SelectionTyped
<1>3. AllServed'
  BY NobodysPaste DEF Serving
<1>4. SE!OwnedIsServed'
  BY DEF SE!OwnedIsServed
<1>. QED BY <1>1, <1>2, <1>3, <1>4 DEF Serving

LEMMA HearReleaseServes == ASSUME Serving, SE!HearRelease PROVE Serving'
<1>1. /\ selectionCommands # <<>> /\ selectionCommands' = Tail(selectionCommands)
      /\ UNCHANGED <<offers, paste, selectionLeft>> /\ SE!TakeBack(owner.on /\ owner.owns, events)
  BY DEF SE!HearRelease
<1>2. (owner.on /\ owner.owns) \/ selection.owner # "us"
  BY Zenon DEF Serving, SE!OwnedIsServed
<1>3. \A p \in Pasters : NoNews(events, events, p)
  BY NothingNew
<1>4. /\ selection' \in [owner : {"none", "us", "app"}, time : Nat] /\ selection'.owner # "us"
      /\ owner' = SE!NoOwner /\ cached' = 0 /\ inFlight' = <<>>
      /\ events' \in Seq(Events) /\ \A p \in Pasters : NoNews(events, events', p)
  <2>1. SelectionTyped /\ events \in Seq(Events)
    BY DEF Serving, SelectionTyped
  <2>. QED BY <1>1, <1>2, <1>3, <2>1, TakenBack, Zenon
<1>. QED BY <1>1, <1>4, LettingGoServes

LEMMA HearOfferServes == ASSUME Serving, SE!HearOffer PROVE Serving'
<1> DEFINE n == Head(selectionCommands)
<1>1. /\ selectionCommands # <<>> /\ n # 0 /\ selectionCommands' = Tail(selectionCommands)
      /\ UNCHANGED <<offers, paste, selectionLeft>>
  BY DEF SE!HearOffer
<1>2. n \in Nat /\ selectionCommands' \in Seq(Nat)
  BY <1>1, CommandHeard DEF Serving
<1>3. CASE owner.on /\ owner.owns /\ SE!Reoffer(n) /\ UNCHANGED <<selection, events, inFlight>>
  <2>1. owner' = [owner EXCEPT !.offered = n] /\ cached' = 0
    BY <1>3 DEF SE!Reoffer
  <2>2. owner \in [on : BOOLEAN, owns : BOOLEAN, offered : Nat, since : Nat]
    BY DEF Serving, SelectionTyped
  <2>3. /\ owner' \in [on : BOOLEAN, owns : BOOLEAN, offered : Nat, since : Nat]
        /\ owner'.offered = n /\ owner'.on = owner.on /\ owner'.owns = owner.owns
    BY <1>2, <2>1, <2>2
  <2>4. SelectionTyped'
    <3>1. cached' \in {0, owner'.offered}
      BY <2>1
    <3>. QED BY <1>1, <1>2, <1>3, <2>3, <3>1, Zenon DEF Serving, SelectionTyped
  <2>5. OffersAscend'
    BY <1>1, <2>3, HeardAscends DEF Serving
  <2>6. AllServed'
    BY <1>1, <1>3, NobodysPaste, NothingNew DEF Serving
  <2>7. SE!OwnedIsServed'
    BY <1>3, <2>3, Zenon DEF SE!OwnedIsServed
  <2>. QED BY <2>4, <2>5, <2>6, <2>7 DEF Serving
<1>4. CASE /\ owner' = [on |-> TRUE, owns |-> TRUE, offered |-> n, since |-> selection.time]
           /\ cached' = 0 /\ inFlight' = <<>> /\ SE!Passes("us", events)
  <2>1. selection.time \in Nat
    BY DEF Serving, SelectionTyped
  <2>2. /\ owner' \in [on : BOOLEAN, owns : BOOLEAN, offered : Nat, since : Nat]
        /\ owner'.offered = n /\ owner'.on = TRUE /\ owner'.owns = TRUE
    BY <1>2, <1>4, <2>1
  <2>3. /\ selection' \in [owner : {"none", "us", "app"}, time : Nat]
        /\ events' \in Seq(Events) /\ \A p \in Pasters : NoNews(events, events', p)
    BY <1>4, PassesSays DEF Serving, SelectionTyped
  <2>4. SelectionTyped'
    <3>1. cached' \in {0, owner'.offered} /\ inFlight' \in Seq(Transfers)
      BY <1>4
    <3>. QED BY <1>1, <1>2, <2>2, <2>3, <3>1, Zenon DEF Serving, SelectionTyped
  <2>5. OffersAscend'
    BY <1>1, <2>2, HeardAscends DEF Serving
  <2>6. AllServed'
    BY <1>1, <1>4, <2>3, NobodysPaste DEF Serving
  <2>7. SE!OwnedIsServed'
    BY <2>2, Zenon DEF SE!OwnedIsServed
  <2>. QED BY <2>4, <2>5, <2>6, <2>7 DEF Serving
<1>5. CASE /\ selection' = [owner |-> "app", time |-> selection.time + 2]
           /\ owner' = SE!NoOwner /\ cached' = 0 /\ inFlight' = <<>> /\ events' = <<>>
  <2>1. selection' \in [owner : {"none", "us", "app"}, time : Nat] /\ selection'.owner # "us"
    BY <1>5 DEF Serving, SelectionTyped
  <2>2. events' \in Seq(Events) /\ DOMAIN events' = {}
    BY <1>5
  <2>3. \A p \in Pasters : NoNews(events, events', p)
    BY <2>2, Zenon DEF NoNews, NeverAsks, NeverTakes, AsksLast, TakesOnce
  <2>. QED BY <1>1, <1>5, <2>1, <2>2, <2>3, LettingGoServes
<1>. QED BY <1>3, <1>4, <1>5, Zenon DEF SE!HearOffer

LEMMA ClearServes == ASSUME Serving, SE!Clear PROVE Serving'
<1>1. /\ events # <<>> /\ UNCHANGED <<selectionCommands, offers, paste, selectionLeft>>
      /\ SelectionTyped /\ events \in Seq(Events)
  BY DEF SE!Clear, SE!Serves, SE!daemon, Serving, SelectionTyped
<1>2. Tail(events) \in Seq(Events) /\ \A p \in Pasters : NoNews(events, Tail(events), p)
  BY <1>1, RestIsNoNews
<1>3. CASE SE!IsAboutThis(Head(events))
  <2>1. SE!TakeBack(FALSE, Tail(events)) /\ selection.owner # "us"
    BY <1>3 DEF SE!Clear, SE!IsAboutThis
  <2>2. /\ selection' \in [owner : {"none", "us", "app"}, time : Nat] /\ selection'.owner # "us"
        /\ owner' = SE!NoOwner /\ cached' = 0 /\ inFlight' = <<>>
        /\ events' \in Seq(Events) /\ \A p \in Pasters : NoNews(events, events', p)
    BY <1>1, <1>2, <2>1, TakenBack
  <2>. QED BY <1>1, <2>2, LettingGoServes
<1>4. CASE ~SE!IsAboutThis(Head(events))
  <2>1. events' = Tail(events) /\ UNCHANGED <<owner, cached, inFlight, selection>>
    BY <1>4 DEF SE!Clear, SE!ours
  <2>2. SelectionTyped'
    BY <1>1, <1>2, <2>1 DEF Serving, SelectionTyped
  <2>3. OffersAscend'
    BY <1>1, <2>1, Zenon DEF Serving, OffersAscend
  <2>4. AllServed'
    BY <1>1, <1>2, <2>1, NobodysPaste DEF Serving
  <2>5. SE!OwnedIsServed'
    BY <2>1, Zenon DEF Serving, SE!OwnedIsServed
  <2>. QED BY <2>2, <2>3, <2>4, <2>5 DEF Serving
<1>. QED BY <1>3, <1>4

-----------------------------------------------------------------------------
(* Who pastes.                                                             *)

\* One paste changes.
LEMMA PasteSet ==
  ASSUME SelectionTyped, NEW p \in Pasters,
         NEW to \in [at : {"idle", "asked", "incr", "waits", "done"}, got : Seq(Nat), since : Nat],
         paste' = [paste EXCEPT ![p] = to]
  PROVE  /\ paste' \in [Pasters -> [at : {"idle", "asked", "incr", "waits", "done"},
                                     got : Seq(Nat), since : Nat]]
         /\ paste'[p] = to /\ \A o \in Pasters : o # p => paste'[o] = paste[o]
<1> DEFINE P == [at : {"idle", "asked", "incr", "waits", "done"}, got : Seq(Nat), since : Nat]
<1>1. paste \in [Pasters -> P]
  BY DEF SelectionTyped
<1> HIDE DEF P
<1>2. to \in P
  BY DEF P
<1>3. /\ paste' \in [Pasters -> P] /\ paste'[p] = to
      /\ \A o \in Pasters : o # p => paste'[o] = paste[o]
  BY <1>1, <1>2
<1>. QED BY <1>3 DEF P

LEMMA PasteIs ==
  ASSUME SelectionTyped, NEW p \in Pasters
  PROVE  /\ paste[p] = [at |-> paste[p].at, got |-> paste[p].got, since |-> paste[p].since]
         /\ paste[p].at \in {"idle", "asked", "incr", "waits", "done"}
         /\ paste[p].got \in Seq(Nat) /\ paste[p].since \in Nat
<1>1. paste[p] \in [at : {"idle", "asked", "incr", "waits", "done"}, got : Seq(Nat), since : Nat]
  BY DEF SelectionTyped
<1>. QED BY <1>1

LEMMA AtSet ==
  ASSUME SelectionTyped, NEW p \in Pasters,
         NEW a \in {"idle", "asked", "incr", "waits", "done"}, NEW g \in Seq(Nat)
  PROVE  /\ [paste[p] EXCEPT !.at = a] = [at |-> a, got |-> paste[p].got, since |-> paste[p].since]
         /\ [paste[p] EXCEPT !.at = a, !.got = g] = [at |-> a, got |-> g, since |-> paste[p].since]
<1>1. paste[p] \in [at : {"idle", "asked", "incr", "waits", "done"}, got : Seq(Nat), since : Nat]
  BY DEF SelectionTyped
<1> DEFINE one == [paste[p] EXCEPT !.at = a]
<1>2. /\ one \in [at : {"idle", "asked", "incr", "waits", "done"}, got : Seq(Nat), since : Nat]
      /\ one.at = a /\ one.got = paste[p].got /\ one.since = paste[p].since
  BY <1>1
<1>3. one = [at |-> a, got |-> paste[p].got, since |-> paste[p].since]
  BY <1>2
<1> DEFINE two == [paste[p] EXCEPT !.at = a, !.got = g]
<1>4. /\ two \in [at : {"idle", "asked", "incr", "waits", "done"}, got : Seq(Nat), since : Nat]
      /\ two.at = a /\ two.got = g /\ two.since = paste[p].since
  BY <1>1
<1> HIDE DEF two
<1>5. two = [at |-> a, got |-> g, since |-> paste[p].since]
  BY <1>4
<1>. QED BY <1>3, <1>5 DEF two

\* Nobody but p has anything to do with it.
LEMMA OthersServed ==
  ASSUME AllServed, NEW p \in Pasters, \A o \in Pasters : o # p => paste'[o] = paste[o],
         \A o \in Pasters : o # p => NoMore(inFlight, inFlight', o) /\ NoNews(events, events', o),
         selectionLeft \subseteq selectionLeft', selectionLeft' \subseteq selectionLeft \cup {p},
         p \notin selectionLeft' => Served(p)'
  PROVE  AllServed'
<1> SUFFICES ASSUME NEW o \in Pasters \ selectionLeft' PROVE Served(o)'
  BY DEF AllServed
<1>1. CASE o = p
  BY <1>1
<1>2. CASE o # p
  <2>1. Served(o) /\ o \in Pasters
    BY DEF AllServed
  <2>. QED BY <1>2, <2>1, NotAboutHim
<1>. QED BY <1>1, <1>2

\* Offers stay in order if nothing but what p was promised changes, and that is
\* what is offered now, what it was, or nothing.
LEMMA StillAscends ==
  ASSUME SelectionTyped, OffersAscend, UNCHANGED <<selectionCommands, offers, owner>>, NEW p \in Pasters,
         \A o \in Pasters : o # p => paste'[o] = paste[o],
         \/ paste'[p].since = paste[p].since
         \/ paste'[p].since = 0
         \/ paste'[p].since = owner.offered
  PROVE  OffersAscend'
<1>1. /\ selectionCommands \in Seq(Nat) /\ \A i \in DOMAIN selectionCommands : selectionCommands[i] \in Nat
      /\ offers \in Nat /\ owner.offered \in Nat
  BY DEF SelectionTyped
<1>2. /\ 0 <= offers /\ 0 <= owner.offered /\ owner.offered <= owner.offered
      /\ \A i \in DOMAIN selectionCommands : 0 <= selectionCommands[i]
  BY <1>1
<1>3. \A o \in Pasters :
        \/ paste'[o].since = paste[o].since
        \/ paste'[o].since = 0
        \/ paste'[o].since = owner.offered
  OBVIOUS
<1>4. \A o \in Pasters : /\ paste'[o].since <= offers
                         /\ owner.on => paste'[o].since <= owner.offered
                         /\ \A i \in DOMAIN selectionCommands :
                              selectionCommands[i] # 0 => paste'[o].since <= selectionCommands[i]
  BY <1>2, <1>3, Zenon DEF OffersAscend
<1>. QED BY <1>4, Zenon DEF OffersAscend

\* Nobody else is heard when p says something.
LEMMA SaysForHimself ==
  ASSUME SelectionTyped, NEW p \in Pasters, NEW e \in [type : {"request", "deleted"}, from : {p}],
         events' = Append(events, e)
  PROVE  /\ events' \in Seq(Events) /\ \A o \in Pasters : o # p => NoNews(events, events', o)
         /\ e.type = "request" =>
              /\ NeverAsks(events, p) => AsksLast(events', p)
              /\ NeverTakes(events, p) => NeverTakes(events', p)
         /\ e.type = "deleted" =>
              /\ NeverAsks(events, p) => NeverAsks(events', p) /\ AsksLast(events', p)
              /\ NeverTakes(events, p) => TakesOnce(events', p)
<1>1. e \in Events /\ e.from = p /\ events \in Seq(Events)
  BY DEF Events, SelectionTyped
<1>2. ASSUME NEW o \in Pasters, o # p PROVE NoNews(events, events', o)
  <2>1. ~Asks(e, o) /\ ~Takes(e, o)
    BY <1>1, <1>2 DEF Asks, Takes
  <2>. QED BY <1>1, <2>1, MoreIsNoNews
<1> DEFINE q == events
<1>3. /\ events' \in Seq(Events) /\ DOMAIN events' = 1 .. Len(q) + 1 /\ DOMAIN q = 1 .. Len(q)
      /\ Len(q) \in Nat /\ events'[Len(q) + 1] = e /\ \A i \in 1 .. Len(q) : events'[i] = q[i]
  BY <1>1
<1>4. ASSUME NEW i \in DOMAIN events'
      PROVE  \/ i \in DOMAIN q /\ events'[i] = q[i] /\ i < Len(q) + 1
             \/ i = Len(q) + 1 /\ events'[i] = e
  <2>1. i \in 1 .. Len(q) + 1
    BY <1>3
  <2>2. CASE i \in 1 .. Len(q)
    <3>1. events'[i] = q[i]
      BY <1>3, <2>2
    <3>2. i \in DOMAIN q /\ i < Len(q) + 1
      BY <1>3, <2>2
    <3>. QED BY <3>1, <3>2
  <2>3. CASE i = Len(q) + 1
    BY <1>3, <2>3
  <2>. QED BY <1>3, <2>1, <2>2, <2>3
<1>5. CASE e.type = "request"
  <2>1. ~Takes(e, p) /\ e.type # "deleted"
    BY <1>5 DEF Takes
  <2>2. NeverTakes(q, p) => NeverTakes(events', p)
    BY <1>4, <2>1, Zenon DEF NeverTakes
  <2>3. ASSUME NeverAsks(q, p), NEW i \in DOMAIN events', NEW j \in DOMAIN events', Asks(events'[i], p), j > i
        PROVE  FALSE
    <3>1. i = Len(q) + 1
      BY <1>4, <2>3, Zenon DEF NeverAsks
    <3>. QED BY <1>3, <2>3, <3>1
  <2>. QED BY <1>2, <1>3, <2>1, <2>2, <2>3, Zenon DEF AsksLast
<1>6. CASE e.type = "deleted"
  <2>1. ~Asks(e, p) /\ e.type # "request"
    BY <1>6 DEF Asks
  <2>2. NeverAsks(q, p) => NeverAsks(events', p)
    BY <1>4, <2>1, Zenon DEF NeverAsks
  <2>3. NeverAsks(events', p) => AsksLast(events', p)
    BY DEF NeverAsks, AsksLast
  <2>4. ASSUME NeverTakes(q, p) PROVE TakesOnce(events', p)
    <3>1. \A i \in DOMAIN events' : Takes(events'[i], p) => i = Len(q) + 1
      BY <1>4, <2>4, Zenon DEF NeverTakes
    <3>. QED BY <3>1 DEF TakesOnce
  <2>. QED BY <1>2, <1>3, <2>1, <2>2, <2>3, <2>4, Zenon
<1>. QED BY <1>5, <1>6

LEMMA RequestServes == ASSUME Serving, SE!Request PROVE Serving'
<1>1. PICK p \in Pasters :
        /\ paste[p].at \in {"idle", "done"} /\ selection.owner = "us"
        /\ paste' = [paste EXCEPT ![p] = [at |-> "asked", got |-> <<>>, since |-> owner.offered]]
        /\ events' = Append(events, [type |-> "request", from |-> p])
  BY Zenon DEF SE!Request
<1>2. UNCHANGED <<selectionCommands, offers, owner, cached, inFlight, selectionLeft, selection>>
  BY DEF SE!Request, SE!daemon, SE!ours
<1> DEFINE to == [at |-> "asked", got |-> <<>>, since |-> owner.offered]
<1> DEFINE e == [type |-> "request", from |-> p]
<1>3. /\ to \in [at : {"idle", "asked", "incr", "waits", "done"}, got : Seq(Nat), since : Nat]
      /\ to.since = owner.offered /\ to.at = "asked" /\ to.got = <<>>
  BY DEF Serving, SelectionTyped
<1>4. e \in [type : {"request", "deleted"}, from : {p}] /\ e.type = "request"
  OBVIOUS
<1> HIDE DEF e, to
<1>5. paste' = [paste EXCEPT ![p] = to] /\ events' = Append(events, e)
  BY <1>1 DEF e, to
<1>6. /\ paste' \in [Pasters -> [at : {"idle", "asked", "incr", "waits", "done"},
                                  got : Seq(Nat), since : Nat]]
      /\ paste'[p] = to /\ \A o \in Pasters : o # p => paste'[o] = paste[o]
  BY <1>3, <1>5, PasteSet DEF Serving
<1>7. /\ events' \in Seq(Events) /\ \A o \in Pasters : o # p => NoNews(events, events', o)
      /\ NeverAsks(events, p) => AsksLast(events', p)
  BY <1>4, <1>5, SaysForHimself DEF Serving
<1>8. SelectionTyped'
  BY <1>2, <1>6, <1>7, Zenon DEF Serving, SelectionTyped
<1>9. OffersAscend'
  BY <1>2, <1>3, <1>6, StillAscends DEF Serving
<1>10. ASSUME p \notin selectionLeft PROVE Served(p)'
  <2>1. NeverAsks(events, p) /\ SentTo(p) = {}
    BY <1>1, <1>10 DEF Serving, AllServed, Served
  <2>2. SentTo(p)' = {}
    BY <1>2, <2>1 DEF SentTo
  <2>. QED BY <1>3, <1>6, <1>7, <2>1, <2>2 DEF Served
<1>11. AllServed'
  BY <1>2, <1>6, <1>7, <1>10, OthersServed, NothingNew DEF Serving
<1>12. SE!OwnedIsServed'
  BY <1>2, Zenon DEF Serving, SE!OwnedIsServed
<1>. QED BY <1>8, <1>9, <1>11, <1>12 DEF Serving

LEMMA TakePieceServes == ASSUME Serving, SE!TakePiece PROVE Serving'
<1>1. PICK p \in Pasters :
        /\ paste[p].at = "incr"
        /\ paste' = [paste EXCEPT ![p].at = "waits"]
        /\ events' = Append(events, [type |-> "deleted", from |-> p])
  BY Zenon DEF SE!TakePiece
<1>2. UNCHANGED <<selectionCommands, offers, owner, cached, inFlight, selectionLeft, selection>>
  BY DEF SE!TakePiece, SE!daemon, SE!ours
<1> DEFINE to == [at |-> "waits", got |-> paste[p].got, since |-> paste[p].since]
<1> DEFINE e == [type |-> "deleted", from |-> p]
<1>3. /\ to \in [at : {"idle", "asked", "incr", "waits", "done"}, got : Seq(Nat), since : Nat]
      /\ to.since = paste[p].since /\ to.at = "waits" /\ to.got = paste[p].got
  BY PasteIs DEF Serving
<1>4. e \in [type : {"request", "deleted"}, from : {p}] /\ e.type = "deleted"
  OBVIOUS
<1>5. paste' = [paste EXCEPT ![p] = to] /\ events' = Append(events, e)
  <2>1. [paste[p] EXCEPT !.at = "waits"] = to
    BY PasteIs, AtSet DEF Serving
  <2>2. paste' = [paste EXCEPT ![p] = [paste[p] EXCEPT !.at = "waits"]]
    BY <1>1
  <2>. QED BY <1>1, <2>1, <2>2
<1> HIDE DEF e, to
<1>6. /\ paste' \in [Pasters -> [at : {"idle", "asked", "incr", "waits", "done"},
                                  got : Seq(Nat), since : Nat]]
      /\ paste'[p] = to /\ \A o \in Pasters : o # p => paste'[o] = paste[o]
  BY <1>3, <1>5, PasteSet DEF Serving
<1>7. /\ events' \in Seq(Events) /\ \A o \in Pasters : o # p => NoNews(events, events', o)
      /\ NeverAsks(events, p) => NeverAsks(events', p) /\ AsksLast(events', p)
      /\ NeverTakes(events, p) => TakesOnce(events', p)
  BY <1>4, <1>5, SaysForHimself DEF Serving
<1>8. SelectionTyped'
  BY <1>2, <1>6, <1>7, Zenon DEF Serving, SelectionTyped
<1>9. OffersAscend'
  BY <1>2, <1>3, <1>6, StillAscends DEF Serving
<1>10. ASSUME p \notin selectionLeft PROVE Served(p)'
  <2>1. Served(p)
    BY <1>10 DEF Serving, AllServed
  <2>2. NeverAsks(events', p) /\ AsksLast(events', p)
    BY <1>1, <1>7, <2>1 DEF Served
  <2>3. SentTo(p)' = SentTo(p)
    BY <1>2 DEF SentTo
  <2>4. SentTo(p) # {} => TakesOnce(events', p)
    BY <1>1, <1>7, <2>1 DEF Served
  <2>. QED BY <1>2, <1>3, <1>6, <2>1, <2>2, <2>3, <2>4 DEF Served
<1>11. AllServed'
  BY <1>2, <1>6, <1>7, <1>10, OthersServed, NothingNew DEF Serving
<1>12. SE!OwnedIsServed'
  BY <1>2, Zenon DEF Serving, SE!OwnedIsServed
<1>. QED BY <1>8, <1>9, <1>11, <1>12 DEF Serving

LEMMA GiveUpServes == ASSUME Serving, SE!GiveUp PROVE Serving'
<1>1. PICK p \in Pasters :
        /\ paste[p].at \in {"incr", "waits"}
        /\ paste' = [paste EXCEPT ![p] = SE!Idle]
        /\ selectionLeft' = IF \E i \in DOMAIN inFlight : inFlight[i].to = p
                              THEN selectionLeft \cup {p} ELSE selectionLeft
  BY Zenon DEF SE!GiveUp
<1>2. UNCHANGED <<selectionCommands, offers, owner, cached, inFlight, events, selection>>
  BY DEF SE!GiveUp, SE!daemon, SE!ours
<1>3. /\ SE!Idle \in [at : {"idle", "asked", "incr", "waits", "done"}, got : Seq(Nat), since : Nat]
      /\ SE!Idle.since = 0 /\ SE!Idle.at = "idle"
  BY DEF SE!Idle
<1>4. /\ paste' \in [Pasters -> [at : {"idle", "asked", "incr", "waits", "done"},
                                  got : Seq(Nat), since : Nat]]
      /\ paste'[p] = SE!Idle /\ \A o \in Pasters : o # p => paste'[o] = paste[o]
  BY <1>1, <1>3, PasteSet DEF Serving
<1>5. SelectionTyped'
  BY <1>2, <1>4, Zenon DEF Serving, SelectionTyped
<1>6. OffersAscend'
  BY <1>2, <1>3, <1>4, StillAscends DEF Serving
<1>7. ASSUME p \notin selectionLeft' PROVE Served(p)'
  <2>1. p \notin selectionLeft /\ SentTo(p) = {}
    BY <1>1, <1>7 DEF SentTo
  <2>2. AsksLast(events, p) /\ NeverAsks(events, p)
    BY <1>1, <2>1 DEF Serving, AllServed, Served
  <2>3. SentTo(p)' = {}
    BY <1>2, <2>1 DEF SentTo
  <2>. QED BY <1>2, <1>3, <1>4, <2>2, <2>3 DEF Served
<1>8. selectionLeft \subseteq selectionLeft' /\ selectionLeft' \subseteq selectionLeft \cup {p}
  BY <1>1
<1>9. AllServed'
  BY <1>2, <1>4, <1>7, <1>8, OthersServed, NothingNew DEF Serving
<1>10. SE!OwnedIsServed'
  BY <1>2, Zenon DEF Serving, SE!OwnedIsServed
<1>. QED BY <1>5, <1>6, <1>9, <1>10 DEF Serving

\* What is first on the connection.
LEMMA HeadHeard ==
  ASSUME SelectionTyped, events # <<>>, NEW p
  PROVE  /\ Head(events) \in Events /\ Tail(events) \in Seq(Events)
         /\ NoNews(events, Tail(events), p)
         /\ Asks(Head(events), p) =>
              /\ ~NeverAsks(events, p)
              /\ AsksLast(events, p) => NeverAsks(Tail(events), p) /\ NeverTakes(Tail(events), p)
         /\ Takes(Head(events), p) =>
              /\ ~NeverTakes(events, p)
              /\ TakesOnce(events, p) => NeverTakes(Tail(events), p)
<1> DEFINE q == events
<1> DEFINE r == Tail(q)
<1>0. q \in Seq(Events)
  BY DEF SelectionTyped
<1>1. /\ r \in Seq(Events) /\ DOMAIN r = 1 .. Len(q) - 1 /\ DOMAIN q = 1 .. Len(q)
      /\ Len(q) \in Nat \ {0} /\ \A i \in 1 .. Len(q) - 1 : r[i] = q[i + 1]
      /\ Head(q) = q[1] /\ q[1] \in Events
  BY <1>0
<1>2. NoNews(q, r, p)
  BY <1>0, RestIsNoNews
<1> HIDE DEF r
<1>3. 1 \in DOMAIN q
  BY <1>1
<1>4. ASSUME NEW i \in DOMAIN r PROVE i + 1 \in DOMAIN q /\ i + 1 > 1 /\ i + 1 # 1 /\ r[i] = q[i + 1]
  <2>1. i \in 1 .. Len(q) - 1
    BY <1>1
  <2>. QED BY <1>1, <2>1
<1>5. Asks(q[1], p) =>
        /\ ~NeverAsks(q, p)
        /\ AsksLast(q, p) => NeverAsks(r, p) /\ NeverTakes(r, p)
  BY <1>3, <1>4, Zenon DEF NeverAsks, NeverTakes, AsksLast
<1>6. Takes(q[1], p) =>
        /\ ~NeverTakes(q, p)
        /\ TakesOnce(q, p) => NeverTakes(r, p)
  BY <1>3, <1>4, Zenon DEF NeverTakes, TakesOnce
<1>. QED BY <1>1, <1>2, <1>5, <1>6 DEF r

\* What is begun for p is nothing to anybody else.
LEMMA BegunForHim ==
  ASSUME NEW f \in Seq(Transfers), NEW t \in Transfers
  PROVE  /\ Append(f, t) \in Seq(Transfers)
         /\ \A o : o # t.to => NoMore(f, Append(f, t), o)
         /\ \A i \in DOMAIN Append(f, t) :
              \/ i \in DOMAIN f /\ Append(f, t)[i] = f[i]
              \/ i = Len(f) + 1 /\ Append(f, t)[i] = t
<1> DEFINE g == Append(f, t)
<1>1. /\ g \in Seq(Transfers) /\ DOMAIN g = 1 .. Len(f) + 1 /\ DOMAIN f = 1 .. Len(f)
      /\ Len(f) \in Nat /\ g[Len(f) + 1] = t /\ \A i \in 1 .. Len(f) : g[i] = f[i]
  OBVIOUS
<1> HIDE DEF g
<1>2. ASSUME NEW i \in DOMAIN g
      PROVE  \/ i \in DOMAIN f /\ g[i] = f[i]
             \/ i = Len(f) + 1 /\ g[i] = t
  <2>1. i \in 1 .. Len(f) + 1
    BY <1>1
  <2>2. CASE i \in 1 .. Len(f)
    <3>1. g[i] = f[i]
      BY <1>1, <2>2
    <3>2. i \in DOMAIN f
      BY <1>1, <2>2
    <3>. QED BY <3>1, <3>2
  <2>3. CASE i = Len(f) + 1
    BY <1>1, <2>3
  <2>. QED BY <1>1, <2>1, <2>2, <2>3
<1>3. \A o : o # t.to => NoMore(f, g, o)
  BY <1>2, Zenon DEF NoMore
<1>. QED BY <1>1, <1>2, <1>3 DEF g

LEMMA AnswerServes == ASSUME Serving, SE!Answer PROVE Serving'
<1>1. /\ owner.on /\ events # <<>> /\ Head(events).type = "request" /\ events' = Tail(events)
      /\ UNCHANGED <<selectionCommands, offers, owner, selectionLeft, selection>>
  BY Zenon DEF SE!Answer, SE!Serves, SE!daemon
<1>2. Head(events).from \in Pasters
  <2>1. Head(events) \in Events
    BY <1>1, HeadHeard DEF Serving
  <2>. QED BY <1>1, <2>1 DEF Events
<1>3. PICK p \in Pasters :
        /\ Asks(Head(events), p)
        /\ \/ /\ paste' = [paste EXCEPT ![p] = SE!Idle] /\ UNCHANGED <<cached, inFlight>>
           \/ \E large \in BOOLEAN :
                /\ cached' = IF cached = 0 THEN owner.offered ELSE cached
                /\ IF large
                     THEN /\ inFlight' = Append(inFlight, [to |-> p, data |-> cached', sent |-> 0])
                          /\ paste' = [paste EXCEPT ![p].at = "incr"]
                     ELSE /\ paste' = [paste EXCEPT ![p].at = "done",
                                         ![p].got = [i \in 1..Pieces |-> cached']]
                          /\ UNCHANGED inFlight
  BY <1>1, <1>2 DEF SE!Answer, Asks
<1>4. events' \in Seq(Events) /\ \A o \in Pasters : NoNews(events, events', o)
  BY <1>1, HeadHeard DEF Serving
<1>5. ASSUME p \notin selectionLeft
      PROVE  /\ paste[p].at = "asked" /\ paste[p].got = <<>> /\ SentTo(p) = {}
             /\ AsksLast(events', p) /\ NeverAsks(events', p) /\ NeverTakes(events', p)
  <2>1. Served(p) /\ SelectionTyped
    BY <1>3, <1>5 DEF Serving, AllServed
  <2>2. /\ ~NeverAsks(events, p)
        /\ AsksLast(events, p) => NeverAsks(events', p) /\ NeverTakes(events', p)
    BY <1>1, <1>3, <2>1, HeadHeard
  <2>3. AsksLast(events', p)
    BY <1>3, <1>4, <2>1 DEF Served, NoNews
  <2>. QED BY <2>1, <2>2, <2>3 DEF Served
<1>6. SE!OwnedIsServed'
  BY <1>1, Zenon DEF Serving, SE!OwnedIsServed
<1>7. owner.offered \in Nat /\ cached \in {0, owner.offered} /\ paste[p].since \in Nat
  BY <1>3 DEF Serving, SelectionTyped
<1>8. paste[p].since <= owner.offered
  BY <1>1, <1>3 DEF Serving, OffersAscend
<1>9. inFlight \in Seq(Transfers)
  BY DEF Serving, SelectionTyped
<1>10. CASE paste' = [paste EXCEPT ![p] = SE!Idle] /\ UNCHANGED <<cached, inFlight>>
  <2>1. /\ SE!Idle \in [at : {"idle", "asked", "incr", "waits", "done"}, got : Seq(Nat), since : Nat]
        /\ SE!Idle.since = 0 /\ SE!Idle.at = "idle"
    BY DEF SE!Idle
  <2>2. /\ paste' \in [Pasters -> [at : {"idle", "asked", "incr", "waits", "done"},
                                    got : Seq(Nat), since : Nat]]
        /\ paste'[p] = SE!Idle /\ \A o \in Pasters : o # p => paste'[o] = paste[o]
    BY <1>3, <1>10, <2>1, PasteSet DEF Serving
  <2>3. SelectionTyped'
    BY <1>1, <1>4, <1>10, <2>2, Zenon DEF Serving, SelectionTyped
  <2>4. OffersAscend'
    BY <1>1, <1>3, <2>1, <2>2, StillAscends DEF Serving
  <2>5. ASSUME p \notin selectionLeft' PROVE Served(p)'
    <3>1. SentTo(p)' = {}
      BY <1>1, <1>5, <1>10, <2>5 DEF SentTo
    <3>. QED BY <1>1, <1>5, <2>1, <2>2, <2>5, <3>1 DEF Served
  <2>6. AllServed'
    BY <1>1, <1>3, <1>4, <1>10, <2>2, <2>5, OthersServed, NothingNew DEF Serving
  <2>. QED BY <1>6, <2>3, <2>4, <2>6 DEF Serving
<1>11. CASE /\ cached' = owner.offered
            /\ inFlight' = Append(inFlight, [to |-> p, data |-> cached', sent |-> 0])
            /\ paste' = [paste EXCEPT ![p].at = "incr"]
  <2> DEFINE to == [at |-> "incr", got |-> paste[p].got, since |-> paste[p].since]
  <2> DEFINE t == [to |-> p, data |-> cached', sent |-> 0]
  <2>1. /\ to \in [at : {"idle", "asked", "incr", "waits", "done"}, got : Seq(Nat), since : Nat]
        /\ to.since = paste[p].since /\ to.at = "incr" /\ to.got = paste[p].got
    BY <1>3, PasteIs DEF Serving
  <2>2. t \in Transfers /\ t.to = p /\ t.data = owner.offered /\ t.sent = 0
    BY <1>3, <1>7, <1>11, SelectionAssumption DEF Transfers
  <2>3. paste' = [paste EXCEPT ![p] = to]
    <3>1. [paste[p] EXCEPT !.at = "incr"] = to
      BY <1>3, PasteIs, AtSet DEF Serving
    <3>2. paste' = [paste EXCEPT ![p] = [paste[p] EXCEPT !.at = "incr"]]
      BY <1>11
    <3>. QED BY <3>1, <3>2
  <2>4. inFlight' = Append(inFlight, t)
    BY <1>11
  <2> HIDE DEF to, t
  <2>5. /\ paste' \in [Pasters -> [at : {"idle", "asked", "incr", "waits", "done"},
                                    got : Seq(Nat), since : Nat]]
        /\ paste'[p] = to /\ \A o \in Pasters : o # p => paste'[o] = paste[o]
    BY <1>3, <2>1, <2>3, PasteSet DEF Serving
  <2>6. /\ inFlight' \in Seq(Transfers) /\ \A o : o # p => NoMore(inFlight, inFlight', o)
        /\ \A i \in DOMAIN inFlight' :
             \/ i \in DOMAIN inFlight /\ inFlight'[i] = inFlight[i]
             \/ i = Len(inFlight) + 1 /\ inFlight'[i] = t
    BY <1>9, <2>2, <2>4, BegunForHim
  <2>7. SelectionTyped'
    <3>1. cached' \in {0, owner'.offered}
      BY <1>1, <1>11
    <3>. QED BY <1>1, <1>4, <2>5, <2>6, <3>1, Zenon DEF Serving, SelectionTyped
  <2>8. OffersAscend'
    BY <1>1, <1>3, <2>1, <2>5, StillAscends DEF Serving
  <2>9. ASSUME p \notin selectionLeft' PROVE Served(p)'
    <3>1. paste'[p].got = <<>> /\ paste'[p].at = "incr" /\ paste'[p].since <= t.data /\ SentTo(p) = {}
      BY <1>1, <1>5, <1>8, <2>1, <2>2, <2>5, <2>9
    <3>2. ASSUME NEW i \in SentTo(p)' PROVE i = Len(inFlight) + 1 /\ inFlight'[i] = t
      BY <2>6, <3>1, <3>2 DEF SentTo
    <3>3. Len(paste'[p].got) = 0
      BY <3>1
    <3>4. TakesOnce(events', p)
      BY <1>1, <1>5, <2>9 DEF NeverTakes, TakesOnce
    <3>. QED BY <1>1, <1>5, <2>2, <2>9, <3>1, <3>2, <3>3, <3>4 DEF Served
  <2>10. AllServed'
    BY <1>1, <1>3, <1>4, <2>5, <2>6, <2>9, OthersServed DEF Serving
  <2>. QED BY <1>6, <2>7, <2>8, <2>10 DEF Serving
<1>12. CASE /\ cached' = owner.offered /\ UNCHANGED inFlight
            /\ paste' = [paste EXCEPT ![p].at = "done", ![p].got = [i \in 1..Pieces |-> cached']]
  <2> DEFINE g == [i \in 1..Pieces |-> cached']
  <2> DEFINE to == [at |-> "done", got |-> g, since |-> paste[p].since]
  <2>1. g \in Seq(Nat) /\ Len(g) = Pieces /\ \A i \in 1 .. Pieces : g[i] = owner.offered
    BY <1>7, <1>12, SelectionAssumption
  <2>2. /\ to \in [at : {"idle", "asked", "incr", "waits", "done"}, got : Seq(Nat), since : Nat]
        /\ to.since = paste[p].since /\ to.at = "done" /\ to.got = g
    BY <1>7, <2>1
  <2>3. paste' = [paste EXCEPT ![p] = to]
    <3> HIDE DEF g
    <3>1. [paste[p] EXCEPT !.at = "done", !.got = g] = to
      BY <1>3, <2>1, AtSet DEF Serving
    <3>2. paste' = [paste EXCEPT ![p] = [paste[p] EXCEPT !.at = "done", !.got = g]]
      <4>1. paste' = [paste EXCEPT ![p].at = "done", ![p].got = g]
        BY <1>12 DEF g
      <4>2. paste \in [Pasters -> [at : {"idle", "asked", "incr", "waits", "done"},
                                   got : Seq(Nat), since : Nat]]
        BY DEF Serving, SelectionTyped
      <4>. QED BY <1>3, <2>1, <4>1, <4>2
    <3>. QED BY <3>1, <3>2
  <2> HIDE DEF to, g
  <2>4. /\ paste' \in [Pasters -> [at : {"idle", "asked", "incr", "waits", "done"},
                                    got : Seq(Nat), since : Nat]]
        /\ paste'[p] = to /\ \A o \in Pasters : o # p => paste'[o] = paste[o]
    BY <1>3, <2>2, <2>3, PasteSet DEF Serving
  <2>5. SelectionTyped'
    <3>1. cached' \in {0, owner'.offered} /\ inFlight' \in Seq(Transfers)
      BY <1>1, <1>9, <1>12
    <3>. QED BY <1>1, <1>4, <2>4, <3>1, Zenon DEF Serving, SelectionTyped
  <2>6. OffersAscend'
    BY <1>1, <1>3, <2>2, <2>4, StillAscends DEF Serving
  <2>7. ASSUME p \notin selectionLeft' PROVE Served(p)'
    <3>1. SentTo(p)' = {}
      BY <1>1, <1>5, <1>12, <2>7 DEF SentTo
    <3>2. 1 \in 1 .. Pieces
      BY SelectionAssumption
    <3>. QED BY <1>1, <1>5, <1>7, <1>8, <2>1, <2>2, <2>4, <2>7, <3>1, <3>2 DEF Served
  <2>8. AllServed'
    BY <1>1, <1>3, <1>4, <1>12, <2>4, <2>7, OthersServed, NothingNew DEF Serving
  <2>. QED BY <1>6, <2>5, <2>6, <2>8 DEF Serving
<1>13. CASE cached' = IF cached = 0 THEN owner.offered ELSE cached
  <2>1. cached' = owner.offered
    BY <1>7, <1>13
  <2>. QED BY <1>3, <1>10, <1>11, <1>12, <2>1
<1>. QED BY <1>3, <1>10, <1>13

\* A transfer that has ended is taken out, ...
LEMMA TakenOut ==
  ASSUME NEW f \in Seq(Transfers), NEW k \in DOMAIN f
  PROVE  /\ SE!RemoveAt(f, k) \in Seq(Transfers)
         /\ \A o : NoMore(f, SE!RemoveAt(f, k), o)
         /\ \A i \in DOMAIN SE!RemoveAt(f, k) :
              \E l \in DOMAIN f : l # k /\ SE!RemoveAt(f, k)[i] = f[l]
<1> DEFINE a == SubSeq(f, 1, k - 1)
<1> DEFINE b == SubSeq(f, k + 1, Len(f))
<1> DEFINE g == SE!RemoveAt(f, k)
<1>1. DOMAIN f = 1 .. Len(f) /\ Len(f) \in Nat /\ k \in 1 .. Len(f)
  OBVIOUS
<1>2. /\ a \in Seq(Transfers) /\ Len(a) = k - 1
      /\ \A i \in 1 .. k - 1 : a[i] = f[i]
  BY <1>1
<1>3. /\ b \in Seq(Transfers) /\ Len(b) = Len(f) - k
      /\ \A i \in 1 .. Len(f) - k : b[i] = f[i + k]
  BY <1>1
<1>4. g = a \o b
  BY DEF SE!RemoveAt
<1> HIDE DEF a, b, g
<1>5. g \in Seq(Transfers) /\ Len(g) = Len(f) - 1 /\ DOMAIN g = 1 .. Len(f) - 1
  <2>1. g \in Seq(Transfers) /\ Len(g) = Len(a) + Len(b)
    BY <1>2, <1>3, <1>4, ConcatProperties, Zenon
  <2>2. Len(g) = Len(f) - 1
    BY <1>1, <1>2, <1>3, <2>1
  <2>. QED BY <2>1, <2>2
<1>6. ASSUME NEW i \in DOMAIN g
      PROVE  \/ i < k /\ i \in DOMAIN f /\ g[i] = f[i]
             \/ i >= k /\ i + 1 \in DOMAIN f /\ g[i] = f[i + 1]
  <2>1. i \in 1 .. Len(f) - 1
    BY <1>5
  <2>2. CASE i < k
    <3>1. g[i] = a[i]
      BY <1>1, <1>2, <1>3, <1>4, <2>1, <2>2
    <3>2. i \in 1 .. k - 1 /\ i \in 1 .. Len(f)
      BY <1>1, <2>1, <2>2
    <3>. QED BY <1>1, <1>2, <2>2, <3>1, <3>2
  <2>3. CASE i >= k
    <3>1. g[i] = b[i - (k - 1)]
      BY <1>1, <1>2, <1>3, <1>4, <2>1, <2>3
    <3>2. i - (k - 1) \in 1 .. Len(f) - k /\ i - (k - 1) + k = i + 1 /\ i + 1 \in 1 .. Len(f)
      BY <1>1, <2>1, <2>3
    <3>. QED BY <1>1, <1>3, <2>3, <3>1, <3>2
  <2>. QED BY <1>1, <2>1, <2>2, <2>3
<1> DEFINE had(i) == IF i < k THEN i ELSE i + 1
<1>7. ASSUME NEW i \in DOMAIN g PROVE had(i) \in DOMAIN f /\ g[i] = f[had(i)] /\ had(i) # k
  <2>1. i \in Nat /\ k \in Nat
    BY <1>1, <1>5
  <2>2. CASE i < k
    BY <1>6, <2>1, <2>2
  <2>3. CASE i >= k
    BY <1>6, <2>1, <2>3
  <2>. QED BY <2>1, <2>2, <2>3
<1>8. ASSUME NEW i \in DOMAIN g, NEW j \in DOMAIN g, had(i) = had(j) PROVE i = j
  <2>1. i \in Nat /\ j \in Nat /\ k \in Nat
    BY <1>1, <1>5
  <2>. QED BY <1>8, <2>1
<1> HIDE DEF had
<1>9. \A o : NoMore(f, g, o)
  BY <1>7, <1>8, Zenon DEF NoMore
<1>10. \A i \in DOMAIN g : \E l \in DOMAIN f : l # k /\ g[i] = f[l]
  BY <1>7
<1>. QED BY <1>5, <1>9, <1>10 DEF g

\* ... and one that goes on has one piece more sent.
LEMMA OneMoreSent ==
  ASSUME NEW f \in Seq(Transfers), NEW k \in DOMAIN f, f[k].sent # Pieces
  PROVE  LET g == [f EXCEPT ![k].sent = @ + 1] IN
           /\ g \in Seq(Transfers) /\ DOMAIN g = DOMAIN f
           /\ \A i \in DOMAIN f : i # k => g[i] = f[i]
           /\ g[k].to = f[k].to /\ g[k].data = f[k].data /\ g[k].sent = f[k].sent + 1
           /\ \A o : o # f[k].to => NoMore(f, g, o)
<1> DEFINE t == [f[k] EXCEPT !.sent = @ + 1]
<1> DEFINE g == [f EXCEPT ![k].sent = @ + 1]
<1>1. f[k] \in Transfers
  OBVIOUS
<1>2. f[k].sent + 1 \in 0 .. Pieces
  BY <1>1, SelectionAssumption DEF Transfers
<1>3. t \in Transfers /\ t.to = f[k].to /\ t.data = f[k].data /\ t.sent = f[k].sent + 1
  BY <1>1, <1>2 DEF Transfers
<1>4. g = [f EXCEPT ![k] = t]
  OBVIOUS
<1> HIDE DEF t, g
<1>5. /\ g \in Seq(Transfers) /\ DOMAIN g = DOMAIN f /\ g[k] = t
      /\ \A i \in DOMAIN f : i # k => g[i] = f[i]
  BY <1>3, <1>4
<1>6. ASSUME NEW o, o # f[k].to PROVE NoMore(f, g, o)
  <2>1. \A i \in DOMAIN g : g[i].to = o => i \in DOMAIN f /\ g[i] = f[i]
    BY <1>3, <1>5, <1>6, Zenon
  <2>. QED BY <2>1, Zenon DEF NoMore
<1>. QED BY <1>3, <1>5, <1>6 DEF g

LEMMA ContinueServes == ASSUME Serving, SE!Continue PROVE Serving'
<1>1. /\ events # <<>> /\ Head(events).type = "deleted" /\ events' = Tail(events)
      /\ UNCHANGED <<selectionCommands, offers, owner, cached, selectionLeft, selection>>
  BY Zenon DEF SE!Continue, SE!Serves, SE!daemon
<1>2. Head(events).from \in Pasters
  <2>1. Head(events) \in Events
    BY <1>1, HeadHeard DEF Serving
  <2>. QED BY <1>1, <2>1 DEF Events
<1>3. PICK p \in Pasters :
        /\ Takes(Head(events), p)
        /\ LET i == SE!SelectInSeq(inFlight, LAMBDA t : t.to = p) IN
             IF i = 0 THEN UNCHANGED <<inFlight, paste>>
             ELSE IF inFlight[i].sent = Pieces
               THEN /\ inFlight' = SE!RemoveAt(inFlight, i)
                    /\ paste' = IF paste[p].at = "waits" THEN [paste EXCEPT ![p].at = "done"] ELSE paste
               ELSE /\ inFlight' = [inFlight EXCEPT ![i].sent = @ + 1]
                    /\ paste' = IF paste[p].at = "waits"
                                  THEN [paste EXCEPT ![p].at = "incr",
                                          ![p].got = Append(@, inFlight[i].data)]
                                  ELSE paste
  BY <1>1, <1>2 DEF SE!Continue, Takes
<1>4. events' \in Seq(Events) /\ \A o \in Pasters : NoNews(events, events', o)
  BY <1>1, HeadHeard DEF Serving
<1>5. ASSUME p \notin selectionLeft
      PROVE  /\ Served(p) /\ AsksLast(events', p) /\ (NeverAsks(events, p) => NeverAsks(events', p))
             /\ SentTo(p) # {} => paste[p].at = "waits" /\ NeverTakes(events', p) /\ TakesOnce(events', p)
  <2>1. Served(p) /\ SelectionTyped
    BY <1>5 DEF Serving, AllServed
  <2>2. /\ ~NeverTakes(events, p)
        /\ TakesOnce(events, p) => NeverTakes(events', p)
    BY <1>1, <1>3, <2>1, HeadHeard
  <2>3. AsksLast(events', p) /\ (NeverAsks(events, p) => NeverAsks(events', p))
    BY <1>4, <2>1 DEF Served, NoNews
  <2>4. NeverTakes(events', p) => TakesOnce(events', p)
    BY DEF NeverTakes, TakesOnce
  <2>5. paste[p].at \in {"idle", "asked", "incr", "waits", "done"}
    BY <2>1, PasteIs
  <2>. QED BY <2>1, <2>2, <2>3, <2>4, <2>5 DEF Served
<1>6. SE!OwnedIsServed'
  BY <1>1, Zenon DEF Serving, SE!OwnedIsServed
<1>7. inFlight \in Seq(Transfers) /\ DOMAIN inFlight = 1 .. Len(inFlight)
  BY DEF Serving, SelectionTyped
<1>8. PICK k : /\ k = 0 => \A i \in DOMAIN inFlight : inFlight[i].to # p
               /\ k # 0 => k \in DOMAIN inFlight /\ inFlight[k].to = p
               /\ IF k = 0 THEN UNCHANGED <<inFlight, paste>>
                  ELSE IF inFlight[k].sent = Pieces
                    THEN /\ inFlight' = SE!RemoveAt(inFlight, k)
                         /\ paste' = IF paste[p].at = "waits" THEN [paste EXCEPT ![p].at = "done"] ELSE paste
                    ELSE /\ inFlight' = [inFlight EXCEPT ![k].sent = @ + 1]
                         /\ paste' = IF paste[p].at = "waits"
                                       THEN [paste EXCEPT ![p].at = "incr",
                                               ![p].got = Append(@, inFlight[k].data)]
                                       ELSE paste
  BY <1>3, <1>7, FoundIfThere, Zenon
<1>9. CASE k = 0
  <2>1. UNCHANGED <<inFlight, paste>>
    BY <1>8, <1>9
  <2>2. SelectionTyped'
    BY <1>1, <1>4, <2>1, Zenon DEF Serving, SelectionTyped
  <2>3. OffersAscend'
    BY <1>1, <2>1, Zenon DEF Serving, OffersAscend
  <2>4. AllServed'
    BY <1>1, <1>4, <2>1, NobodysPaste DEF Serving
  <2>. QED BY <1>6, <2>2, <2>3, <2>4 DEF Serving
<1>10. ASSUME k # 0, p \notin selectionLeft
       PROVE  /\ k \in SentTo(p) /\ SentTo(p) = {k} /\ paste[p].at = "waits"
              /\ Len(paste[p].got) = inFlight[k].sent /\ paste[p].since <= inFlight[k].data
              /\ \A i \in 1 .. Len(paste[p].got) : paste[p].got[i] = inFlight[k].data
              /\ AsksLast(events', p) /\ NeverAsks(events', p)
              /\ NeverTakes(events', p) /\ TakesOnce(events', p)
  <2>1. k \in SentTo(p)
    BY <1>8, <1>10 DEF SentTo
  <2>2. SentTo(p) = {k}
    BY <1>5, <1>10, <2>1 DEF Served
  <2>. QED BY <1>5, <1>10, <2>1, <2>2 DEF Served
<1>11. CASE k # 0 /\ inFlight[k].sent = Pieces
  <2>1. inFlight' = SE!RemoveAt(inFlight, k)
    BY <1>8, <1>11
  <2>2. /\ inFlight' \in Seq(Transfers) /\ \A o : NoMore(inFlight, inFlight', o)
        /\ \A i \in DOMAIN inFlight' : \E l \in DOMAIN inFlight : l # k /\ inFlight'[i] = inFlight[l]
    BY <1>7, <1>8, <1>11, <2>1, TakenOut
  <2> DEFINE to == [at |-> "done", got |-> paste[p].got, since |-> paste[p].since]
  <2>3. /\ to \in [at : {"idle", "asked", "incr", "waits", "done"}, got : Seq(Nat), since : Nat]
        /\ to.since = paste[p].since /\ to.at = "done" /\ to.got = paste[p].got
    BY PasteIs DEF Serving
  <2>4. paste[p].at = "waits" => paste' = [paste EXCEPT ![p] = to]
    <3>1. [paste[p] EXCEPT !.at = "done"] = to
      BY PasteIs, AtSet DEF Serving
    <3>2. paste[p].at = "waits" => paste' = [paste EXCEPT ![p] = [paste[p] EXCEPT !.at = "done"]]
      BY <1>8, <1>11
    <3>. QED BY <3>1, <3>2
  <2>5. paste[p].at # "waits" => paste' = paste
    BY <1>8, <1>11
  <2> HIDE DEF to
  <2>6. /\ paste' \in [Pasters -> [at : {"idle", "asked", "incr", "waits", "done"},
                                    got : Seq(Nat), since : Nat]]
        /\ \A o \in Pasters : o # p => paste'[o] = paste[o]
        /\ paste'[p].since = paste[p].since
        /\ paste[p].at = "waits" => paste'[p] = to
    <3>1. CASE paste[p].at = "waits"
      BY <2>3, <2>4, <3>1, PasteSet DEF Serving
    <3>2. CASE paste[p].at # "waits"
      BY <2>5, <3>2 DEF Serving, SelectionTyped
    <3>. QED BY <3>1, <3>2
  <2>7. SelectionTyped'
    BY <1>1, <1>4, <2>2, <2>6, Zenon DEF Serving, SelectionTyped
  <2>8. OffersAscend'
    BY <1>1, <2>6, StillAscends DEF Serving
  <2>9. ASSUME p \notin selectionLeft' PROVE Served(p)'
    <3>1. SentTo(p)' = {}
      BY <1>1, <1>10, <1>11, <2>2, <2>9 DEF SentTo
    <3>2. paste'[p] = to /\ Len(to.got) = Pieces /\ 1 \in 1 .. Pieces
      BY <1>1, <1>10, <1>11, <2>3, <2>6, <2>9, SelectionAssumption
    <3>3. inFlight[k].data \in Nat
      <4>1. inFlight[k] \in Transfers
        BY <1>7, <1>8, <1>11
      <4>. QED BY <4>1 DEF Transfers
    <3>. QED BY <1>1, <1>10, <1>11, <2>3, <2>9, <3>1, <3>2, <3>3 DEF Served
  <2>10. AllServed'
    BY <1>1, <1>4, <2>2, <2>6, <2>9, OthersServed DEF Serving
  <2>. QED BY <1>6, <2>7, <2>8, <2>10 DEF Serving
<1>12. CASE k # 0 /\ inFlight[k].sent # Pieces
  <2>1. inFlight' = [inFlight EXCEPT ![k].sent = @ + 1]
    BY <1>8, <1>12
  <2>2. /\ inFlight' \in Seq(Transfers) /\ DOMAIN inFlight' = DOMAIN inFlight
        /\ \A i \in DOMAIN inFlight : i # k => inFlight'[i] = inFlight[i]
        /\ inFlight'[k].to = p /\ inFlight'[k].data = inFlight[k].data
        /\ inFlight'[k].sent = inFlight[k].sent + 1
        /\ \A o : o # p => NoMore(inFlight, inFlight', o)
    BY <1>7, <1>8, <1>12, <2>1, OneMoreSent
  <2> DEFINE g == Append(paste[p].got, inFlight[k].data)
  <2> DEFINE to == [at |-> "incr", got |-> g, since |-> paste[p].since]
  <2>3. inFlight[k].data \in Nat /\ inFlight[k].sent \in Nat
    <3>1. inFlight[k] \in Transfers
      BY <1>7, <1>8, <1>12
    <3>. QED BY <3>1, SelectionAssumption DEF Transfers
  <2>4. /\ g \in Seq(Nat) /\ Len(g) = Len(paste[p].got) + 1 /\ g[Len(g)] = inFlight[k].data
        /\ \A i \in 1 .. Len(g) :
             i # Len(g) => g[i] = paste[p].got[i] /\ i \in 1 .. Len(paste[p].got)
    <3>1. paste[p].got \in Seq(Nat)
      BY PasteIs DEF Serving
    <3>. QED BY <2>3, <3>1
  <2> HIDE DEF g
  <2>5. /\ to \in [at : {"idle", "asked", "incr", "waits", "done"}, got : Seq(Nat), since : Nat]
        /\ to.since = paste[p].since /\ to.at = "incr" /\ to.got = g
    BY <2>4, PasteIs DEF Serving
  <2>6. paste[p].at = "waits" => paste' = [paste EXCEPT ![p] = to]
    <3>1. [paste[p] EXCEPT !.at = "incr", !.got = g] = to
      BY <2>4, AtSet DEF Serving
    <3>2. paste[p].at = "waits" => paste' = [paste EXCEPT ![p] = [paste[p] EXCEPT !.at = "incr", !.got = g]]
      <4>1. paste[p].at = "waits" => paste' = [paste EXCEPT ![p].at = "incr", ![p].got = g]
        <5>1. paste[p].at = "waits" =>
                paste' = [paste EXCEPT ![p].at = "incr", ![p].got = Append(@, inFlight[k].data)]
          BY <1>8, <1>12
        <5>2. paste \in [Pasters -> [at : {"idle", "asked", "incr", "waits", "done"},
                                     got : Seq(Nat), since : Nat]]
          BY DEF Serving, SelectionTyped
        <5>. QED BY <5>1, <5>2 DEF g
      <4>2. paste \in [Pasters -> [at : {"idle", "asked", "incr", "waits", "done"},
                                   got : Seq(Nat), since : Nat]]
        BY DEF Serving, SelectionTyped
      <4>. QED BY <2>4, <4>1, <4>2
    <3>. QED BY <3>1, <3>2
  <2>7. paste[p].at # "waits" => paste' = paste
    BY <1>8, <1>12
  <2> HIDE DEF to
  <2>8. /\ paste' \in [Pasters -> [at : {"idle", "asked", "incr", "waits", "done"},
                                    got : Seq(Nat), since : Nat]]
        /\ \A o \in Pasters : o # p => paste'[o] = paste[o]
        /\ paste'[p].since = paste[p].since
        /\ paste[p].at = "waits" => paste'[p] = to
    <3>1. CASE paste[p].at = "waits"
      BY <2>5, <2>6, <3>1, PasteSet DEF Serving
    <3>2. CASE paste[p].at # "waits"
      BY <2>7, <3>2 DEF Serving, SelectionTyped
    <3>. QED BY <3>1, <3>2
  <2>9. SelectionTyped'
    BY <1>1, <1>4, <2>2, <2>8, Zenon DEF Serving, SelectionTyped
  <2>10. OffersAscend'
    BY <1>1, <2>8, StillAscends DEF Serving
  <2>11. ASSUME p \notin selectionLeft' PROVE Served(p)'
    <3>1. SentTo(p)' = {k}
      BY <1>1, <1>10, <1>12, <2>2, <2>11 DEF SentTo
    <3>2. paste'[p] = to /\ Len(g) = inFlight'[k].sent
      BY <1>1, <1>10, <1>12, <2>2, <2>4, <2>8, <2>11
    <3>3. \A i \in 1 .. Len(g) : g[i] = inFlight'[k].data
      BY <1>1, <1>10, <1>12, <2>2, <2>4, <2>11
    <3>. QED BY <1>1, <1>10, <1>12, <2>2, <2>5, <2>11, <3>1, <3>2, <3>3 DEF Served
  <2>12. AllServed'
    BY <1>1, <1>4, <2>2, <2>8, <2>11, OthersServed DEF Serving
  <2>. QED BY <1>6, <2>9, <2>10, <2>12 DEF Serving
<1>. QED BY <1>9, <1>11, <1>12

LEMMA ServingKeeps == ASSUME Serving, [SE!Next]_(SE!vars) PROVE Serving'
<1>1. CASE SE!Watch \/ SE!Publish \/ UNCHANGED SE!vars
  <2>1. UNCHANGED <<selection, selectionCommands, offers, owner, cached, inFlight, events, paste, selectionLeft>>
    BY <1>1 DEF SE!Watch, SE!Publish, SE!vars, SE!daemon, SE!ours
  <2>2. SelectionTyped' /\ OffersAscend' /\ SE!OwnedIsServed'
    BY <2>1, Zenon DEF Serving, SelectionTyped, OffersAscend, SE!OwnedIsServed
  <2>3. AllServed'
    BY <2>1, NobodysPaste, NothingNew DEF Serving
  <2>. QED BY <2>2, <2>3 DEF Serving
<1>. QED
  BY <1>1, CommandServes, CopyServes, HearOfferServes, HearReleaseServes, ClearServes, AnswerServes,
     ContinueServes, RequestServes, TakePieceServes, GiveUpServes, Zenon DEF SE!Next

\* Whatever is pasted from an X11 selection by a program that never left a transfer
\* half way is the whole of one offer, and of none that was replaced when it was asked
\* for; and while the server has the selection down as ours, somebody answers.
THEOREM SelectionIsAlwaysServed == SE!Spec => []SelectionIsServed
<1>1. Serving => SelectionIsServed
  <2>1. ASSUME Serving PROVE SE!PasteIsWhole
    BY <2>1, Zenon DEF SE!PasteIsWhole, Serving, AllServed, Served
  <2>. QED BY <2>1, Zenon DEF SelectionIsServed, Serving
<1>. QED BY ServingInit, ServingKeeps, <1>1, PTL DEF SE!Spec

-----------------------------------------------------------------------------
(* Landing.                                                                *)

\* The name in the directory that a path begins with, and what is a path: a name,
\* or a folder's and one in it.
TopOf(p) == <<p[1]>>
Shaped(p) == DOMAIN p \in {1 .. 1, 1 .. 2} /\ p = [i \in DOMAIN p |-> p[i]]

\* What is in a folder is there with its folder.
Rooted(d) ==
  \A p \in DOMAIN d :
    /\ Shaped(p) /\ TopOf(p) \in DOMAIN d
    /\ p # TopOf(p) => d[TopOf(p)].dir

\* What stood in w stands in d as it was.
Stays(d, w) == \A p \in DOMAIN w : p \in DOMAIN d /\ d[p] = w[p]

\* The plan has a path for each entry of the manifest, and no two directories deep.
Planned(r) ==
  /\ r = [said |-> r.said, paths |-> r.paths, index |-> r.index, writing |-> r.writing]
  /\ r.index \in Nat \ {0} /\ r.writing \in BOOLEAN
  /\ Len(r.said) \in Nat /\ DOMAIN r.paths = 1 .. Len(r.said)
  /\ \A i \in DOMAIN r.paths : DOMAIN r.paths[i] \in {1 .. 1, 1 .. 2}

\* Nothing stood where the plan puts its names.
NewNames(r, w) ==
  \A i \in DOMAIN r.paths : LN!OnDisk(<<r.paths[i][1]>>) \notin DOMAIN w

\* What is being written is a file of the plan.
WritesAFile(r, d) ==
  r.writing =>
    /\ r.index \in DOMAIN r.paths
    /\ LN!OnDisk(r.paths[r.index]) \in DOMAIN d => ~d[LN!OnDisk(r.paths[r.index])].dir

Arriving == pull # Nothing => Planned(pull) /\ WritesAFile(pull, disk)
PlacedAnew == "spent" \notin crossed /\ pull # Nothing => NewNames(pull, was)
Untouched == "spent" \notin crossed => Stays(disk, was)

LandsWell == Rooted(disk) /\ Rooted(was) /\ Arriving /\ PlacedAnew /\ Untouched

\* A path on the disk is as long as the one that was planned.
LEMMA PathOnDisk ==
  ASSUME NEW q, DOMAIN q \in {1 .. 1, 1 .. 2}
  PROVE  /\ Shaped(LN!OnDisk(q)) /\ DOMAIN LN!OnDisk(q) = DOMAIN q
         /\ TopOf(LN!OnDisk(q)) = LN!OnDisk(<<q[1]>>)
<1>1. Shaped(LN!OnDisk(q)) /\ DOMAIN LN!OnDisk(q) = DOMAIN q
  BY DEF Shaped, LN!OnDisk
<1>2. LN!OnDisk(q)[1] = LN!Stem(q[1], Known)
  <2>1. 1 \in DOMAIN q
    OBVIOUS
  <2>2. QED
    BY <2>1 DEF LN!OnDisk
<1>3. LN!OnDisk(<<q[1]>>) = <<LN!Stem(q[1], Known)>>
  BY DEF LN!OnDisk
<1>4. QED
  BY <1>1, <1>2, <1>3 DEF TopOf

\* What is above a path.
LEMMA AboveIt ==
  ASSUME NEW p, Shaped(p)
  PROVE  /\ p = TopOf(p) <=> DOMAIN p = 1 .. 1
         /\ p = TopOf(p) => SubSeq(p, 1, Len(p) - 1) = <<>>
         /\ p # TopOf(p) => SubSeq(p, 1, Len(p) - 1) = TopOf(p)
<1> DEFINE S == {p[i] : i \in DOMAIN p}
<1>1. CASE DOMAIN p = 1 .. 1
  <2>1. p = <<p[1]>>
    BY <1>1 DEF Shaped
  <2>2. Len(p) = 1
    <3>1. Len(<<p[1]>>) = 1
      OBVIOUS
    <3>2. QED
      BY <2>1, <3>1, Zenon
  <2>3. Len(p) - 1 = 0
    BY <2>2
  <2>4. SubSeq(p, 1, 0) = <<>>
    BY SubSeqEmpty
  <2>5. SubSeq(p, 1, Len(p) - 1) = <<>>
    BY <2>3, <2>4, Zenon
  <2>6. QED
    BY <1>1, <2>1, <2>5 DEF TopOf
<1>2. CASE DOMAIN p = 1 .. 2
  <2>1. p = <<p[1], p[2]>>
    BY <1>2 DEF Shaped
  <2>2. Len(p) - 1 = 1
    <3>1. Len(<<p[1], p[2]>>) = 2
      OBVIOUS
    <3>2. Len(p) = 2
      BY <2>1, <3>1, Zenon
    <3>3. QED
      BY <3>2
  <2>3. \A i \in 1 .. 1 : p[i] \in S
    BY <1>2
  <2>4. SubSeq(p, 1, 1) = <<p[1]>>
    <3> HIDE DEF S
    <3> DEFINE o == SubSeq(p, 1, 1)
    <3>1. o \in Seq(S) /\ Len(o) = 1 /\ o[1] = p[1]
      BY <2>3, SubSeqProperties
    <3> HIDE DEF o
    <3>2. o = <<p[1]>>
      BY <3>1
    <3>3. QED
      BY <3>2 DEF o
  <2>5. SubSeq(p, 1, Len(p) - 1) = <<p[1]>>
    BY <2>2, <2>4, Zenon
  <2>6. p # TopOf(p) /\ DOMAIN p # 1 .. 1
    BY <1>2 DEF TopOf
  <2>7. QED
    BY <2>5, <2>6 DEF TopOf
<1>3. QED
  BY <1>1, <1>2 DEF Shaped

\* A number is found for a name unless there is none left.
LEMMA NameIsFree ==
  ASSUME NEW name, ~(LN!Exists(<<name>>) /\ LN!Free(name) = {})
  PROVE  ~LN!Exists(<<LN!Unclaimed(name)>>)
<1>1. CASE ~LN!Exists(<<name>>)
  BY <1>1 DEF LN!Unclaimed
<1>2. CASE LN!Exists(<<name>>) /\ LN!Free(name) # {}
  <2>1. LN!Free(name) \subseteq Nat
    BY LandingAssumption DEF LN!Free
  <2>2. PICK least \in LN!Free(name) :
          \A k \in LN!Free(name) : ~(<<k, least>> \in OpToRel(<, Nat))
    BY <1>2, <2>1, WFMin, NatLessThanWellFounded
  <2>3. ASSUME NEW k \in LN!Free(name) PROVE least <= k
    <3>1. ~(k < least)
      BY <2>1, <2>2 DEF OpToRel
    <3>2. QED
      BY <2>1, <3>1
  <2> DEFINE n == CHOOSE m \in LN!Free(name) : \A k \in LN!Free(name) : m <= k
  <2>4. n \in LN!Free(name)
    BY <2>3, Zenon
  <2>5. LN!Unclaimed(name) = Append(name, n)
    BY <1>2, Zenon DEF LN!Unclaimed
  <2>6. ~LN!Exists(<<Append(name, n)>>)
    BY <2>4, Zenon DEF LN!Free
  <2>7. QED
    BY <2>5, <2>6, Zenon
<1>3. QED
  BY <1>1, <1>2

\* To put something under a path, or to take a file away, leaves what is in
\* folders where it is.
LEMMA PutInPlace ==
  ASSUME NEW d, Rooted(d), NEW p, Shaped(p), NEW v,
         p # TopOf(p) => TopOf(p) \in DOMAIN d /\ d[TopOf(p)].dir,
         p \in DOMAIN d /\ d[p].dir => v.dir
  PROVE  Rooted(LN!With(d, p, v))
<1> DEFINE e == LN!With(d, p, v)
<1>1. DOMAIN e = DOMAIN d \cup {p} /\ e[p] = v /\ \A z \in DOMAIN d : z # p => e[z] = d[z]
  BY DEF LN!With
<1> SUFFICES ASSUME NEW q \in DOMAIN e
             PROVE  /\ Shaped(q) /\ TopOf(q) \in DOMAIN e
                    /\ q # TopOf(q) => e[TopOf(q)].dir
  BY DEF Rooted
<1> HIDE DEF e
<1>2. CASE q = p
  BY <1>1, <1>2, Zenon
<1>3. CASE q # p
  <2>1. q \in DOMAIN d
    BY <1>1, <1>3
  <2>2. Shaped(q) /\ TopOf(q) \in DOMAIN d /\ (q # TopOf(q) => d[TopOf(q)].dir)
    BY <2>1, Zenon DEF Rooted
  <2>3. CASE TopOf(q) = p
    BY <1>1, <2>2, <2>3, Zenon
  <2>4. CASE TopOf(q) # p
    BY <1>1, <2>2, <2>4, Zenon
  <2>5. QED
    BY <2>3, <2>4
<1>4. QED
  BY <1>2, <1>3

LEMMA PutBeside ==
  ASSUME NEW d, NEW w, Stays(d, w), NEW p, p \notin DOMAIN w, NEW v
  PROVE  Stays(LN!With(d, p, v), w)
BY DEF Stays, LN!With

LEMMA TakenAway ==
  ASSUME NEW d, Rooted(d), NEW p, p \in DOMAIN d => ~d[p].dir
  PROVE  Rooted([q \in DOMAIN d \ {p} |-> d[q]])
<1> DEFINE e == [q \in DOMAIN d \ {p} |-> d[q]]
<1>1. DOMAIN e = DOMAIN d \ {p} /\ \A z \in DOMAIN e : e[z] = d[z]
  OBVIOUS
<1> SUFFICES ASSUME NEW q \in DOMAIN e
             PROVE  /\ Shaped(q) /\ TopOf(q) \in DOMAIN e
                    /\ q # TopOf(q) => e[TopOf(q)].dir
  BY DEF Rooted
<1> HIDE DEF e
<1>2. q \in DOMAIN d /\ q # p
  BY <1>1
<1>3. Shaped(q) /\ TopOf(q) \in DOMAIN d /\ (q # TopOf(q) => d[TopOf(q)].dir)
  BY <1>2, Zenon DEF Rooted
<1>4. TopOf(q) # p
  BY <1>2, <1>3, Zenon
<1>5. QED
  BY <1>1, <1>3, <1>4

\* The path that is being made is new in the directory.
LEMMA PathIsNew ==
  ASSUME LandsWell, pull # Nothing, pull.index \in DOMAIN pull.paths
  PROVE  /\ Shaped(LN!Path)
         /\ "spent" \notin crossed => LN!Path \notin DOMAIN was /\ TopOf(LN!Path) \notin DOMAIN was
<1> DEFINE q == pull.paths[pull.index]
<1>1. DOMAIN q \in {1 .. 1, 1 .. 2}
  BY DEF LandsWell, Arriving, Planned
<1>2. Shaped(LN!Path) /\ TopOf(LN!Path) = LN!OnDisk(<<q[1]>>)
  <2>1. LN!Path = LN!OnDisk(q)
    BY DEF LN!Path
  <2>2. Shaped(LN!OnDisk(q)) /\ TopOf(LN!OnDisk(q)) = LN!OnDisk(<<q[1]>>)
    BY <1>1, PathOnDisk
  <2>3. QED
    BY <2>1, <2>2, Zenon
<1>3. "spent" \notin crossed => TopOf(LN!Path) \notin DOMAIN was
  BY <1>2, Zenon DEF LandsWell, PlacedAnew, NewNames
<1>4. LN!Path \in DOMAIN was => TopOf(LN!Path) \in DOMAIN was
  BY Zenon DEF LandsWell, Rooted
<1>5. QED
  BY <1>2, <1>3, <1>4, Zenon

LEMMA LandingInit ==
  ASSUME LN!Init
  PROVE  LandsWell
<1>1. disk = << >> /\ was = << >> /\ pull = Nothing
  BY DEF LN!Init
<1>2. DOMAIN disk = {} /\ DOMAIN was = {}
  BY <1>1
<1>3. QED
  BY <1>1, <1>2, Zenon DEF LandsWell, Rooted, Arriving, PlacedAnew, Untouched, Stays

\* A name that is planned is the manifest's with what was found free for it.
LEMMA PlannedName ==
  ASSUME NEW path, DOMAIN path \in {1 .. 1, 1 .. 2}
  PROVE  /\ DOMAIN LN!Lands(path) = DOMAIN path
         /\ LN!Lands(path)[1] = LN!Unclaimed(LN!Stem(path[1], Cleaned))
<1> DEFINE named == [i \in DOMAIN path |-> LN!Stem(path[i], Cleaned)]
<1>1. 1 \in DOMAIN path
  OBVIOUS
<1>2. LN!Lands(path) = [named EXCEPT ![1] = LN!Unclaimed(named[1])]
  BY Zenon DEF LN!Lands
<1>3. DOMAIN named = DOMAIN path /\ named[1] = LN!Stem(path[1], Cleaned)
  BY <1>1
<1>4. QED
  BY <1>1, <1>2, <1>3

LEMMA BeginPullLands ==
  ASSUME LandsWell, NEW copy \in Landings, LN!BeginPull(copy)
  PROVE  LandsWell'
<1> DEFINE said == LN!Manifest(copy)
<1> DEFINE paths == [i \in DOMAIN said |-> LN!Lands(said[i].path)]
<1>1. /\ pull' = [said |-> said, paths |-> paths, index |-> 1, writing |-> FALSE]
      /\ "spent" \notin crossed' => ~\E i \in DOMAIN said : LN!RunsOut(said[i].path)
  <2>1. /\ pull' = [said |-> said, paths |-> paths, index |-> 1, writing |-> FALSE]
        /\ crossed' = IF \E i \in DOMAIN said : LN!RunsOut(said[i].path) THEN {"spent"} ELSE {}
    BY Zenon DEF LN!BeginPull
  <2>2. QED
    BY <2>1, Zenon
<1>2. disk' = disk /\ was' = disk
  BY DEF LN!BeginPull
<1>3. /\ Len(said) \in Nat /\ DOMAIN said = 1 .. Len(said)
      /\ \A i \in DOMAIN said : DOMAIN said[i].path \in {1 .. 1, 1 .. 2}
  BY LandingAssumption
<1> HIDE DEF said
<1>4. /\ DOMAIN paths = 1 .. Len(said)
      /\ \A i \in DOMAIN paths : paths[i] = LN!Lands(said[i].path)
  BY <1>3
<1>5. \A i \in DOMAIN paths : /\ DOMAIN paths[i] = DOMAIN said[i].path
                              /\ paths[i][1] = LN!Unclaimed(LN!Stem(said[i].path[1], Cleaned))
  BY <1>3, <1>4, PlannedName
<1>6. ASSUME "spent" \notin crossed', NEW i \in DOMAIN paths
      PROVE  LN!OnDisk(<<paths[i][1]>>) \notin DOMAIN disk
  <2> DEFINE name == LN!Stem(said[i].path[1], Cleaned)
  <2>1. i \in DOMAIN said
    BY <1>3, <1>4
  <2>2. ~LN!RunsOut(said[i].path)
    BY <1>1, <1>6, <2>1, Zenon
  <2>3. ~(LN!Exists(<<name>>) /\ LN!Free(name) = {})
    BY <2>2 DEF LN!RunsOut
  <2>4. ~LN!Exists(<<LN!Unclaimed(name)>>)
    BY <2>3, NameIsFree, Zenon
  <2>5. QED
    BY <1>5, <2>4, Zenon DEF LN!Exists
<1> HIDE DEF paths
<1>7. Rooted(disk') /\ Rooted(was')
  BY <1>2, Zenon DEF LandsWell
<1>8. Planned(pull')
  BY <1>1, <1>3, <1>4, <1>5 DEF Planned
<1>9. WritesAFile(pull', disk')
  BY <1>1 DEF WritesAFile
<1>10. "spent" \notin crossed' => NewNames(pull', was')
  <2>1. pull'.paths = paths
    BY <1>1
  <2>2. QED
    BY <1>2, <1>6, <2>1, Zenon DEF NewNames
<1>11. Stays(disk', was')
  BY <1>2, Zenon DEF Stays
<1>12. QED
  BY <1>7, <1>8, <1>9, <1>10, <1>11, Zenon DEF LandsWell, Arriving, PlacedAnew, Untouched

\* What is half written goes, and nothing else.
LEMMA GivesUpLands ==
  ASSUME LandsWell, pull # Nothing, LN!GivesUp, was' = was, crossed' = crossed
  PROVE  LandsWell'
<1>1. pull' = Nothing
  BY DEF LN!GivesUp
<1>2. Rooted(disk') /\ ("spent" \notin crossed => Stays(disk', was))
  <2>1. CASE pull.writing
    <3>1. disk' = [p \in DOMAIN disk \ {LN!Path} |-> disk[p]]
      BY <2>1 DEF LN!GivesUp
    <3>2. pull.index \in DOMAIN pull.paths /\ (LN!Path \in DOMAIN disk => ~disk[LN!Path].dir)
      BY <2>1, Zenon DEF LandsWell, Arriving, WritesAFile, LN!Path
    <3>3. Rooted(disk')
      BY <3>1, <3>2, TakenAway, Zenon DEF LandsWell
    <3>4. "spent" \notin crossed => LN!Path \notin DOMAIN was
      BY <3>2, PathIsNew, Zenon
    <3>5. ASSUME "spent" \notin crossed PROVE Stays(disk', was)
      BY <3>1, <3>4, <3>5 DEF LandsWell, Untouched, Stays
    <3>6. QED
      BY <3>3, <3>5, Zenon
  <2>2. CASE ~pull.writing
    <3>1. disk' = disk
      BY <2>2, Zenon DEF LN!GivesUp
    <3>2. QED
      BY <3>1, Zenon DEF LandsWell, Untouched
  <2>3. QED
    BY <2>1, <2>2, Zenon
<1>3. QED
  BY <1>1, <1>2, Zenon DEF LandsWell, Arriving, PlacedAnew, Untouched

\* A folder or the beginning of a file is put where there was nothing.
LEMMA PlacedLands ==
  ASSUME LandsWell, pull # Nothing, pull.index \in DOMAIN pull.paths,
         NEW dir, LN!Fits(dir)
  PROVE  /\ Rooted(LN!Placed(dir))
         /\ "spent" \notin crossed => Stays(LN!Placed(dir), was)
         /\ ~dir => LN!Path \in DOMAIN LN!Placed(dir) /\ ~LN!Placed(dir)[LN!Path].dir
<1> DEFINE above == TopOf(LN!Path)
<1> DEFINE folder == [dir |-> TRUE, by |-> Nothing, whole |-> TRUE]
<1> DEFINE begun == [dir |-> dir, by |-> <<pastes, pull.index>>, whole |-> dir]
<1> DEFINE kept == IF LN!Above = <<>> \/ LN!Above \in DOMAIN disk THEN disk
                   ELSE LN!With(disk, LN!Above, folder)
<1>1. /\ Shaped(LN!Path)
      /\ "spent" \notin crossed => LN!Path \notin DOMAIN was /\ above \notin DOMAIN was
  BY PathIsNew, Zenon
<1>2. Rooted(disk) /\ ("spent" \notin crossed => Stays(disk, was))
  BY Zenon DEF LandsWell, Untouched
<1>3. /\ LN!Path = above => LN!Above = <<>>
      /\ LN!Path # above => LN!Above = above
  BY <1>1, AboveIt, Zenon DEF LN!Above
<1>4. above # <<>> /\ Shaped(above) /\ TopOf(above) = above
  BY DEF TopOf, Shaped
<1> HIDE DEF above, folder
<1>5. LN!Placed(dir) = IF dir /\ LN!Path \in DOMAIN disk THEN kept ELSE LN!With(kept, LN!Path, begun)
  BY Zenon DEF LN!Placed, kept, folder
<1>6. LN!Path \in DOMAIN disk => disk[LN!Path].dir = dir
  BY Zenon DEF LN!Fits
<1>7. LN!Path # above /\ above \in DOMAIN disk => disk[above].dir
  BY <1>3, <1>4, Zenon DEF LN!Fits
<1>8. folder.dir
  BY DEF folder
<1>9. /\ Rooted(kept) /\ ("spent" \notin crossed => Stays(kept, was))
      /\ LN!Path # above => above \in DOMAIN kept /\ kept[above].dir
      /\ LN!Path \in DOMAIN kept => LN!Path \in DOMAIN disk /\ kept[LN!Path] = disk[LN!Path]
  <2>1. CASE LN!Path = above \/ above \in DOMAIN disk
    <3>1. kept = disk
      BY <1>3, <2>1, Zenon
    <3>2. QED
      BY <1>2, <1>7, <2>1, <3>1, Zenon
  <2>2. CASE LN!Path # above /\ above \notin DOMAIN disk
    <3>1. kept = LN!With(disk, above, folder)
      BY <1>3, <1>4, <2>2, Zenon
    <3>2. Rooted(LN!With(disk, above, folder))
      BY <1>2, <1>4, <2>2, PutInPlace, Zenon
    <3>3. "spent" \notin crossed => Stays(LN!With(disk, above, folder), was)
      BY <1>1, <1>2, PutBeside, Zenon
    <3>4. /\ DOMAIN LN!With(disk, above, folder) = DOMAIN disk \cup {above}
          /\ LN!With(disk, above, folder)[above] = folder
          /\ \A z \in DOMAIN disk : z # above => LN!With(disk, above, folder)[z] = disk[z]
      BY DEF LN!With
    <3>5. QED
      BY <1>8, <2>2, <3>1, <3>2, <3>3, <3>4, Zenon
  <2>3. QED
    BY <2>1, <2>2, Zenon
<1> HIDE DEF kept
<1>10. begun.dir = dir
  BY DEF begun
<1> HIDE DEF begun
<1>11. Rooted(LN!With(kept, LN!Path, begun))
  <2>1. LN!Path \in DOMAIN kept /\ kept[LN!Path].dir => begun.dir
    BY <1>6, <1>9, <1>10, Zenon
  <2>2. LN!Path # TopOf(LN!Path) => TopOf(LN!Path) \in DOMAIN kept /\ kept[TopOf(LN!Path)].dir
    BY <1>9, Zenon DEF above
  <2>3. QED
    BY <1>1, <1>9, <2>1, <2>2, PutInPlace, Zenon
<1>12. "spent" \notin crossed => Stays(LN!With(kept, LN!Path, begun), was)
  BY <1>1, <1>9, PutBeside, Zenon
<1>13. /\ LN!Path \in DOMAIN LN!With(kept, LN!Path, begun)
       /\ LN!With(kept, LN!Path, begun)[LN!Path] = begun
  BY DEF LN!With
<1>14. CASE dir /\ LN!Path \in DOMAIN disk
  <2>1. LN!Placed(dir) = kept
    BY <1>5, <1>14, Zenon
  <2>2. QED
    BY <1>9, <1>14, <2>1, Zenon
<1>15. CASE ~(dir /\ LN!Path \in DOMAIN disk)
  <2>1. LN!Placed(dir) = LN!With(kept, LN!Path, begun)
    BY <1>5, <1>15, Zenon
  <2>2. ~dir => ~begun.dir
    BY <1>10, Zenon
  <2>3. QED
    BY <1>11, <1>12, <1>13, <2>1, <2>2, Zenon
<1>16. QED
  BY <1>14, <1>15, Zenon

LEMMA AdvanceLands ==
  ASSUME LandsWell, LN!Advance
  PROVE  LandsWell'
<1>1. /\ pull # Nothing /\ ~pull.writing /\ pull.index <= Len(pull.said)
      /\ was' = was /\ crossed' = crossed
  BY DEF LN!Advance
<1>2. Planned(pull)
  BY <1>1, Zenon DEF LandsWell, Arriving
<1>3. pull.index \in DOMAIN pull.paths
  BY <1>1, <1>2 DEF Planned
<1> DEFINE dir == pull.said[pull.index].dir
<1>4. IF LN!Fits(dir)
        THEN /\ disk' = LN!Placed(dir)
             /\ pull' = IF dir THEN [pull EXCEPT !.index = @ + 1] ELSE [pull EXCEPT !.writing = TRUE]
        ELSE LN!GivesUp
  BY Zenon DEF LN!Advance
<1> HIDE DEF dir
<1>5. CASE ~LN!Fits(dir)
  BY <1>1, <1>4, <1>5, GivesUpLands, Zenon
<1>6. CASE LN!Fits(dir)
  <2>1. /\ Rooted(disk') /\ ("spent" \notin crossed' => Stays(disk', was'))
        /\ ~dir => LN!Path \in DOMAIN disk' /\ ~disk'[LN!Path].dir
    <3>1. disk' = LN!Placed(dir)
      BY <1>4, <1>6, Zenon
    <3>2. /\ Rooted(LN!Placed(dir)) /\ ("spent" \notin crossed => Stays(LN!Placed(dir), was))
          /\ ~dir => LN!Path \in DOMAIN LN!Placed(dir) /\ ~LN!Placed(dir)[LN!Path].dir
      BY <1>1, <1>3, <1>6, PlacedLands, Zenon
    <3>3. QED
      BY <1>1, <3>1, <3>2, Zenon
  <2>2. /\ Planned(pull') /\ pull'.paths = pull.paths
        /\ dir => ~pull'.writing
        /\ ~dir => pull'.index = pull.index
    <3>1. CASE dir
      <4>1. pull' = [pull EXCEPT !.index = @ + 1]
        BY <1>4, <1>6, <3>1, Zenon
      <4>2. pull' = [said |-> pull.said, paths |-> pull.paths, index |-> pull.index + 1,
                     writing |-> pull.writing]
        BY <1>2, <4>1 DEF Planned
      <4>3. QED
        BY <1>1, <1>2, <3>1, <4>2 DEF Planned
    <3>2. CASE ~dir
      <4>1. pull' = [pull EXCEPT !.writing = TRUE]
        BY <1>4, <1>6, <3>2, Zenon
      <4>2. pull' = [said |-> pull.said, paths |-> pull.paths, index |-> pull.index,
                     writing |-> TRUE]
        BY <1>2, <4>1 DEF Planned
      <4>3. QED
        BY <1>2, <3>2, <4>2 DEF Planned
    <3>3. QED
      BY <3>1, <3>2, Zenon
  <2>3. WritesAFile(pull', disk')
    <3>1. CASE dir
      BY <2>2, <3>1, Zenon DEF WritesAFile
    <3>2. CASE ~dir
      BY <1>3, <2>1, <2>2, <3>2, Zenon DEF WritesAFile, LN!Path
    <3>3. QED
      BY <3>1, <3>2, Zenon
  <2>4. "spent" \notin crossed' => NewNames(pull', was')
    BY <1>1, <2>2, Zenon DEF LandsWell, PlacedAnew, NewNames
  <2>5. Rooted(was')
    BY <1>1, Zenon DEF LandsWell
  <2>6. QED
    BY <2>1, <2>2, <2>3, <2>4, <2>5, Zenon DEF LandsWell, Arriving, PlacedAnew, Untouched
<1>7. QED
  BY <1>5, <1>6

LEMMA FinishesLands ==
  ASSUME LandsWell, LN!Finishes
  PROVE  LandsWell'
<1>1. /\ pull # Nothing /\ pull.writing /\ was' = was /\ crossed' = crossed
      /\ disk' = IF LN!Path \in DOMAIN disk THEN [disk EXCEPT ![LN!Path].whole = TRUE] ELSE disk
      /\ pull' = [pull EXCEPT !.writing = FALSE, !.index = @ + 1]
  BY DEF LN!Finishes
<1>2. Planned(pull) /\ pull.index \in DOMAIN pull.paths
  BY <1>1, Zenon DEF LandsWell, Arriving, WritesAFile
<1>3. pull' = [said |-> pull.said, paths |-> pull.paths, index |-> pull.index + 1, writing |-> FALSE]
  BY <1>1, <1>2 DEF Planned
<1>4. Planned(pull') /\ pull'.paths = pull.paths /\ ~pull'.writing
  BY <1>2, <1>3 DEF Planned
<1>5. /\ DOMAIN disk' = DOMAIN disk
      /\ \A z \in DOMAIN disk : z # LN!Path => disk'[z] = disk[z]
  BY <1>1, Zenon
<1>6. LN!Path \in DOMAIN disk => ~disk[LN!Path].dir
  BY <1>1, Zenon DEF LandsWell, Arriving, WritesAFile, LN!Path
<1>7. Rooted(disk')
  <2> SUFFICES ASSUME NEW q \in DOMAIN disk
               PROVE  /\ Shaped(q) /\ TopOf(q) \in DOMAIN disk
                      /\ q # TopOf(q) => disk'[TopOf(q)].dir
    BY <1>5, Zenon DEF Rooted
  <2>1. Shaped(q) /\ TopOf(q) \in DOMAIN disk /\ (q # TopOf(q) => disk[TopOf(q)].dir)
    BY Zenon DEF LandsWell, Rooted
  <2>2. q # TopOf(q) => TopOf(q) # LN!Path
    BY <1>6, <2>1, Zenon
  <2>3. QED
    BY <1>5, <2>1, <2>2, Zenon
<1>8. "spent" \notin crossed' => Stays(disk', was')
  <2>1. "spent" \notin crossed => LN!Path \notin DOMAIN was
    BY <1>1, <1>2, PathIsNew, Zenon
  <2>2. QED
    BY <1>1, <1>5, <2>1, Zenon DEF LandsWell, Untouched, Stays
<1>9. "spent" \notin crossed' => NewNames(pull', was')
  BY <1>1, <1>4, Zenon DEF LandsWell, PlacedAnew, NewNames
<1>10. WritesAFile(pull', disk')
  BY <1>4, Zenon DEF WritesAFile
<1>11. QED
  BY <1>1, <1>4, <1>7, <1>8, <1>9, <1>10, Zenon DEF LandsWell, Arriving, PlacedAnew, Untouched

LEMMA SaveLands ==
  ASSUME LandsWell, NEW stem, LN!Save(<<stem>>)
  PROVE  LandsWell'
<1> DEFINE p == LN!OnDisk(<< <<stem>> >>)
<1> DEFINE file == [dir |-> FALSE, by |-> Nothing, whole |-> TRUE]
<1>1. p \notin DOMAIN disk /\ disk' = LN!With(disk, p, file) /\ pull' = pull
  BY DEF LN!Save, LN!Exists
<1>2. IF pull = Nothing THEN was' = disk' /\ crossed' = crossed ELSE was' = was /\ crossed' = crossed \cup {"saved"}
  BY Zenon DEF LN!Save
<1>3. Shaped(p) /\ p = TopOf(p)
  BY DEF LN!OnDisk, Shaped, TopOf
<1>4. ~file.dir
  OBVIOUS
<1> HIDE DEF p, file
<1>5. Rooted(disk')
  BY <1>1, <1>3, PutInPlace, Zenon DEF LandsWell
<1>6. Rooted(was')
  BY <1>2, <1>5, Zenon DEF LandsWell
<1>7. ASSUME pull # Nothing PROVE Planned(pull) /\ WritesAFile(pull, disk')
  <2>1. Planned(pull) /\ WritesAFile(pull, disk)
    BY <1>7, Zenon DEF LandsWell, Arriving
  <2>2. /\ DOMAIN disk' = DOMAIN disk \cup {p} /\ disk'[p] = file
        /\ \A z \in DOMAIN disk : z # p => disk'[z] = disk[z]
    BY <1>1 DEF LN!With
  <2>3. \A z : z \in DOMAIN disk' => z = p \/ (z \in DOMAIN disk /\ disk'[z] = disk[z])
    BY <2>2, Zenon
  <2>4. QED
    BY <1>4, <2>1, <2>2, <2>3, Zenon DEF WritesAFile
<1>8. "spent" \notin crossed' => "spent" \notin crossed
  BY <1>2, Zenon
<1>9. "spent" \notin crossed' => Stays(disk', was')
  <2>1. CASE pull = Nothing
    BY <1>2, <2>1, Zenon DEF Stays
  <2>2. CASE pull # Nothing
    <3>1. was' = was
      BY <1>2, <2>2, Zenon
    <3>2. \A z \in DOMAIN disk : z \in DOMAIN disk' /\ disk'[z] = disk[z]
      BY <1>1 DEF LN!With
    <3>3. QED
      BY <1>8, <3>1, <3>2, Zenon DEF LandsWell, Untouched, Stays
  <2>3. QED
    BY <2>1, <2>2
<1>10. "spent" \notin crossed' /\ pull' # Nothing => NewNames(pull', was')
  BY <1>1, <1>2, <1>8, Zenon DEF LandsWell, PlacedAnew
<1>11. QED
  BY <1>1, <1>5, <1>6, <1>7, <1>9, <1>10, Zenon DEF LandsWell, Arriving, PlacedAnew, Untouched

LEMMA LandingStep ==
  ASSUME LandsWell, [LN!Next]_(LN!vars)
  PROVE  LandsWell'
<1>1. CASE \E copy \in Landings : LN!BeginPull(copy)
  BY <1>1, BeginPullLands, Zenon
<1>2. CASE LN!Advance
  BY <1>2, AdvanceLands, Zenon
<1>3. CASE LN!Finishes
  BY <1>3, FinishesLands, Zenon
<1>4. CASE LN!Fails
  <2>1. pull # Nothing /\ LN!GivesUp /\ was' = was /\ crossed' = crossed
    BY <1>4 DEF LN!Fails
  <2>2. QED
    BY <2>1, GivesUpLands, Zenon
<1>5. CASE LN!Done
  <2>1. pull' = Nothing /\ disk' = disk /\ was' = was /\ crossed' = crossed
    BY <1>5 DEF LN!Done
  <2>2. QED
    BY <2>1, Zenon DEF LandsWell, Arriving, PlacedAnew, Untouched
<1>6. CASE \E stem \in Stems : LN!Save(<<stem>>)
  BY <1>6, SaveLands, Zenon
<1>7. CASE UNCHANGED LN!vars
  <2>1. pull' = pull /\ disk' = disk /\ was' = was /\ crossed' = crossed
    BY <1>7 DEF LN!vars
  <2>2. QED
    BY <2>1, Zenon DEF LandsWell, Arriving, PlacedAnew, Untouched
<1>8. QED
  BY <1>1, <1>2, <1>3, <1>4, <1>5, <1>6, <1>7, Zenon DEF LN!Next

\* A paste of files leaves everything that stood in the directory when it began as
\* it was, for any directory, any manifest and whatever goes wrong while it
\* arrives, as long as there is a number left for each of its names that is taken
\* (plan_landing, unclaimed, advance_pull).
THEOREM WhatWasThereAlwaysStays == LN!Spec => []WhatWasThereStays
<1>1. LandsWell => WhatWasThereStays
  BY Zenon DEF LandsWell, Untouched, Stays, WhatWasThereStays, LN!WhatWasThereStays
<1>2. LN!Spec => []LandsWell
  BY LandingInit, LandingStep, PTL DEF LN!Spec
<1>3. QED
  BY <1>1, <1>2, PTL

=============================================================================
