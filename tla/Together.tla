------------------------------ MODULE Together -------------------------------
(***************************************************************************)
(* The machines beside the client that a theorem is about: how two machines*)
(* come to trust one another, and how one comes to run one daemon; how a   *)
(* key is followed from the hand to another machine, and a wall noticed    *)
(* that it runs into; how a copy made here is noticed, and one made        *)
(* elsewhere pasted.  Each moves by itself, and what is said of it is said *)
(* here in one line.                                                       *)
(***************************************************************************)
EXTENDS Naturals, Sequences

CONSTANTS
  PairServer, PairClient, \* the two machines
  MaxKey, MaxDeeds,       \* bounds of Pairing
  Consoles, MaxPids, MaxCommands, InstallingTrouble, \* bounds of Installing
  StandsFor, BacksOffTo, MaxStreak, InFlight, \* of Reach
  LookAtMost, MaxChanges, MaxSwitches, \* of Notice
  Renewals, PasteCopies, PasteQuestions, PasteTrouble, \* of Paste
  Room, MaxMoves, CaptureTrouble, \* of Capture
  NoticedCopies, NoticedOffers, NoticingTrouble, \* of Noticing
  Cleaned, Known, Escapes, Landings, Stems, LandingNumbers, LandingPastes,
  LandingTrouble, \* of Landing
  Pasters, Pieces, OwnerOffers, OwnerCopies, OwnerPastes, \* of Selection
  Nothing

VARIABLES
  key, peers, window, read, tool, step, met, sent, gone, daemon, link, yes,
  deeds,
  task, service, process, report, latest, carried, command, due, commands,
  installingTrouble, unasked, overtaken, spared,
  reachRefused, reachSent, later, streak, reachSuspended, wall, onTheWay,
  reachLanded, remarked,
  clip, noticeQueue, timer, looks, watching, listening, asks, changes, busy,
  last, switches,
  standing, copies, fetching, toWorker, toService, pending, asked, ready,
  nextId, queue, offer, cache, rendering, clipboard, pasteTrouble, pasted,
  stale, untaken,
  through, hand, app, swallow, blind, seen, captureEvents, orders, told,
  captureHeld, away, wire, remote, running, captureMissed, moves,
  captureTrouble,
  seq, top, warnings, taking, ours, announced, notes, looked, noticingAt,
  holds, settled, noticingReported, noticingCopies, noticingOffers,
  noticingTrouble, noticingSpoiled,
  selection, selectionCommands, offers, selectionCopies, requests, events,
  owner, cached, inFlight, published, notices, reported, paste, selectionLeft,
  disk, pull, was, crossed, pastes, landingTrouble

PA == INSTANCE Pairing WITH Server <- PairServer, Client <- PairClient,
      None <- Nothing
IT == INSTANCE Installing WITH MaxTrouble <- InstallingTrouble,
      None <- Nothing, trouble <- installingTrouble
RE == INSTANCE Reach WITH None <- Nothing, refused <- reachRefused,
      sent <- reachSent, suspended <- reachSuspended, landed <- reachLanded
NO == INSTANCE Notice WITH queue <- noticeQueue
PS == INSTANCE Paste WITH MaxCopies <- PasteCopies,
      MaxPastes <- PasteQuestions, MaxTrouble <- PasteTrouble,
      trouble <- pasteTrouble
CA == INSTANCE Capture WITH MaxTrouble <- CaptureTrouble,
      events <- captureEvents, held <- captureHeld, missed <- captureMissed,
      trouble <- captureTrouble
NG == INSTANCE Noticing WITH MaxCopies <- NoticedCopies,
      MaxOffers <- NoticedOffers, MaxTrouble <- NoticingTrouble,
      at <- noticingAt, reported <- noticingReported,
      copies <- noticingCopies, offers <- noticingOffers,
      trouble <- noticingTrouble, spoiled <- noticingSpoiled
SE == INSTANCE Selection WITH MaxOffers <- OwnerOffers, MaxCopies <- OwnerCopies,
      MaxPastes <- OwnerPastes, commands <- selectionCommands,
      copies <- selectionCopies, left <- selectionLeft
LN == INSTANCE Landing WITH Copies <- Landings, Numbers <- LandingNumbers,
      MaxPastes <- LandingPastes, MaxTrouble <- LandingTrouble,
      trouble <- landingTrouble, None <- Nothing

\* A machine is another one than its peer, and may be set up anew.
ASSUME PairAssumption == PairServer # PairClient /\ MaxKey \in Nat

\* Nothing is no book of peers, no answer and no command.
ASSUME NothingAssumption ==
  /\ \A book \in SUBSET (0 .. MaxKey) : Nothing # book
  /\ Nothing \notin {"accept", "reject"}
  /\ Nothing \notin IT!Commanded

\* A run of refusals is counted up to a number, and nothing is no time.
ASSUME ReachAssumption ==
  /\ StandsFor \in Nat /\ BacksOffTo \in Nat
  /\ MaxStreak \in Nat /\ InFlight \in Nat
  /\ Nothing \notin Nat

\* A clipboard that is not to be had is looked at so many times.
ASSUME NoticeAssumption == LookAtMost \in Nat \ {0} /\ MaxChanges \in Nat

\* Copies and questions are numbered.
ASSUME PasteAssumption ==
  PasteCopies \in Nat /\ PasteQuestions \in Nat /\ Renewals \in Nat

\* What is too large for one property is cut into so many pieces.
ASSUME SelectionAssumption == Pieces \in Nat \ {0} /\ OwnerOffers \in Nat

\* What is copied is a file, or a folder and the files in it; a name that is taken
\* has a number put after it.
ASSUME LandingAssumption ==
  /\ LandingNumbers \subseteq Nat
  /\ \A copy \in Landings :
       /\ Len(LN!Manifest(copy)) \in Nat
       /\ DOMAIN LN!Manifest(copy) = 1 .. Len(LN!Manifest(copy))
       /\ \A i \in DOMAIN LN!Manifest(copy) :
            DOMAIN LN!Manifest(copy)[i].path \in {1 .. 1, 1 .. 2}

-----------------------------------------------------------------------------
\* Pairing: two machines trust one another only when the people at both said yes
\* to one handshake (net/pairing.rs, gui/pairing.rs, main.rs).
PairedByBoth == PA!PairedByBoth

\* Installing: the task and the service are never both there, nor are their daemons
\* both alive, whatever steps of whatever commands failed or were cut off, but where
\* two commands cross or a daemon was not stopped (cli/service.rs).
OneArrangement == IT!NeverBoth /\ IT!OneArrangementRuns

\* Reach: running into the same wall again makes the wait longer (secure/reach.rs).
BacksOff == RE!BacksOff

\* Notice: what is reported in the end is the clipboard as a person left it,
\* however its notices came in (platform/windows.rs).
ReportedAsLeft == NO!ReportedAsLeft

\* Paste: a paste is never of something older than what is offered, and one that
\* could not be served is promised again (secure/windows/serving.rs, windows.rs).
PasteKeepsItsWord == PS!PastesTheOffer /\ PS!PromiseIsRenewed

\* Capture: where the cursor is a key is down exactly while the hand holds it, and
\* nowhere else (windows/capture.rs, secure/windows/link.rs).
FollowsTheHand == CA!FollowsTheHand

\* Noticing: what the person copied last is announced by one of the two watches
\* (secure/windows/reader.rs).
CopyIsNoticed == NG!CopyIsNoticed

\* Selection: a paste from an X11 selection is one offer's and all of it, and there
\* is always somebody to give it (platform/x11.rs).
SelectionIsServed == SE!PasteIsWhole /\ SE!OwnedIsServed

\* Landing: a paste takes nothing away that was there before it (cli/transfer.rs).
WhatWasThereStays == LN!WhatWasThereStays
=============================================================================
