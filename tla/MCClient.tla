------------------------------ MODULE MCClient -------------------------------
(***************************************************************************)
(* The client, and the machines that are small enough to be gone through   *)
(* together: each is checked by itself, as which says, while the others    *)
(* stay as they began.  The bounds are here, one line to a machine.        *)
(***************************************************************************)
EXTENDS Client, Together, Carrying, TLC

VARIABLES
  which,  \* the one that moves
  overflow, known, monitors, online, placed, config, reserved, steps

\* Layout: a desk of three machines, of which one has two monitors that come and
\* go and another is plugged in again at another size.
R(x, y, w, h) == [x |-> x, y |-> y, w |-> w, h |-> h]
Mon(id, x, y, w, h) == [id |-> id, local |-> R(x, y, w, h)]
P(d, r) == [machine |-> d, monitor |-> "primary", global |-> r]
LayoutReports ==
  [home |-> {<<Mon("m", 0, 0, 2, 2)>>},
   a |-> {<<Mon("m", 0, 0, 2, 1), Mon("n", 2, 0, 1, 2)>>, <<Mon("m", 0, 0, 2, 1)>>,
          <<Mon("n", 0, 0, 1, 2)>>, <<Mon("m", 0, 0, 2, 2), Mon("n", 0, 2, 1, 2)>>},
   b |-> {<<Mon("m", 0, 0, 1, 1)>>, <<Mon("m", 0, 0, 3, 1)>>}]
LayoutConfigs ==
  {<<>>,
   <<P("home", R(0, 0, 2, 2)), P("a", R(2, 0, 2, 2)), P("b", R(4, 1, 1, 1))>>,
   <<P("home", R(0, 0, 2, 2)), P("b", R(1, 2, 3, 1))>>}

\* Landing: names that clean or fold into one another, a folder, and a name that
\* would lead out of the directory.
Cleans == [s \in {"a", "A", "a?", "b", "x:"} |-> IF s = "a?" THEN "a_" ELSE s]
Folds == [s \in {"a", "A", "a_", "b", "x:"} |-> IF s = "A" THEN "a" ELSE s]
F(name) == [name |-> name, under |-> None]
D(name, under) == [name |-> name, under |-> under]
LandingCopies ==
  {<<F(<<"a">>), F(<<"a", 2>>)>>, <<F(<<"a?">>), F(<<"A">>)>>, <<D(<<"a">>, <<<<"b">>>>)>>,
   <<F(<<"x:">>)>>, <<D(<<"A">>, <<<<"a?">>, <<"b">>>>), F(<<"a">>)>>}

\* Installing: nothing tells one console from another.
ConsoleSymmetry == Permutations(Consoles)

LA == INSTANCE Layout WITH Home <- "home", Devices <- {"home", "a", "b"},
      Reports <- LayoutReports, Configs <- LayoutConfigs, MaxSteps <- 4

ofDrag == <<hub, share, client, up, closed, carries, left, crossings, trouble,
    hold, holdOf, origin, dropped, landed, missed, spoiled>>
ofPairing == <<key, peers, window, read, tool, step, met, sent, gone, daemon,
    link, yes, deeds>>
ofLayout == <<overflow, known, monitors, online, placed, config, reserved,
    steps>>
ofInstalling == <<task, service, process, report, latest, carried, command,
    due, commands, installingTrouble, unasked, overtaken, spared>>
ofLanding == <<disk, pull, was, crossed, pastes, landingTrouble>>
ofPaste == <<standing, copies, fetching, toWorker, toService, pending, asked,
    ready, nextId, queue, offer, cache, rendering, clipboard, pasteTrouble,
    pasted, stale, untaken>>
ofSelection == <<selection, selectionCommands, offers, selectionCopies,
    requests, events, owner, cached, inFlight, published, notices, reported,
    paste, selectionLeft>>
ofNotice == <<clip, noticeQueue, timer, looks, watching, listening, asks,
    changes, busy, last, switches>>
ofCapture == <<through, hand, app, swallow, blind, seen, captureEvents,
    orders, told, captureHeld, away, wire, remote, running, captureMissed,
    moves, captureTrouble>>
ofReach == <<reachRefused, reachSent, later, streak, reachSuspended, wall,
    onTheWay, reachLanded, remarked>>
ofNoticing == <<seq, top, warnings, taking, ours, announced, notes, looked,
    noticingAt, holds, settled, noticingReported, noticingCopies,
    noticingOffers, noticingTrouble, noticingSpoiled>>

each == <<which, vars, ofDrag, ofPairing, ofLayout, ofInstalling, ofLanding,
    ofPaste, ofSelection, ofNotice, ofCapture, ofReach, ofNoticing>>

EachInit ==
  /\ which \in {"client", "drag", "pairing", "layout", "installing",
                  "landing", "paste", "selection", "notice", "capture",
                  "reach", "noticing"}
  /\ Init
  /\ DR!Init
  /\ PA!Init
  /\ LA!Init
  /\ IT!Init
  /\ LN!Init
  /\ PS!Init
  /\ SE!Init
  /\ NO!Init
  /\ CA!Init
  /\ RE!Init
  /\ NG!Init
  /\ which # "layout" => overflow = "clamp" /\ config = <<>>
  /\ which # "capture" => ~through
  /\ which # "installing" => ~task
  /\ which # "client" => \A c \in Clients : at[c] = CHOOSE p \in Points : TRUE

EachNext ==
  \/ /\ which = "client" /\ Next
     /\ UNCHANGED <<which, ofDrag, ofPairing, ofLayout, ofInstalling,
          ofLanding, ofPaste, ofSelection, ofNotice, ofCapture, ofReach,
          ofNoticing>>
  \/ /\ which = "drag" /\ DR!Next
     /\ UNCHANGED <<which, vars, ofPairing, ofLayout, ofInstalling, ofLanding,
          ofPaste, ofSelection, ofNotice, ofCapture, ofReach, ofNoticing>>
  \/ /\ which = "pairing" /\ PA!Next
     /\ UNCHANGED <<which, vars, ofDrag, ofLayout, ofInstalling, ofLanding,
          ofPaste, ofSelection, ofNotice, ofCapture, ofReach, ofNoticing>>
  \/ /\ which = "layout" /\ LA!Next
     /\ UNCHANGED <<which, vars, ofDrag, ofPairing, ofInstalling, ofLanding,
          ofPaste, ofSelection, ofNotice, ofCapture, ofReach, ofNoticing>>
  \/ /\ which = "installing" /\ IT!Next
     /\ UNCHANGED <<which, vars, ofDrag, ofPairing, ofLayout, ofLanding,
          ofPaste, ofSelection, ofNotice, ofCapture, ofReach, ofNoticing>>
  \/ /\ which = "landing" /\ LN!Next
     /\ UNCHANGED <<which, vars, ofDrag, ofPairing, ofLayout, ofInstalling,
          ofPaste, ofSelection, ofNotice, ofCapture, ofReach, ofNoticing>>
  \/ /\ which = "paste" /\ PS!Next
     /\ UNCHANGED <<which, vars, ofDrag, ofPairing, ofLayout, ofInstalling,
          ofLanding, ofSelection, ofNotice, ofCapture, ofReach, ofNoticing>>
  \/ /\ which = "selection" /\ SE!Next
     /\ UNCHANGED <<which, vars, ofDrag, ofPairing, ofLayout, ofInstalling,
          ofLanding, ofPaste, ofNotice, ofCapture, ofReach, ofNoticing>>
  \/ /\ which = "notice" /\ NO!Next
     /\ UNCHANGED <<which, vars, ofDrag, ofPairing, ofLayout, ofInstalling,
          ofLanding, ofPaste, ofSelection, ofCapture, ofReach, ofNoticing>>
  \/ /\ which = "capture" /\ CA!Next
     /\ UNCHANGED <<which, vars, ofDrag, ofPairing, ofLayout, ofInstalling,
          ofLanding, ofPaste, ofSelection, ofNotice, ofReach, ofNoticing>>
  \/ /\ which = "reach" /\ RE!Next
     /\ UNCHANGED <<which, vars, ofDrag, ofPairing, ofLayout, ofInstalling,
          ofLanding, ofPaste, ofSelection, ofNotice, ofCapture, ofNoticing>>
  \/ /\ which = "noticing" /\ NG!Next
     /\ UNCHANGED <<which, vars, ofDrag, ofPairing, ofLayout, ofInstalling,
          ofLanding, ofPaste, ofSelection, ofNotice, ofCapture, ofReach>>

\* Noticing and Installing: what their properties except stays excepted, and what comes
\* after it is not gone into.
Unexcepted == ~noticingSpoiled /\ ~unasked /\ ~overtaken

EachSpec == EachInit /\ [][EachNext]_each

-----------------------------------------------------------------------------
\* Layout: what is placed automatically is never hidden under something else that
\* is, however machines come, go and change (layout/model.rs).
AutomaticNeverClash == which = "layout" => LA!AutomaticNeverClash

\* Layout: there is a way from every monitor to every other (layout/resolve.rs).
EveryMonitorIsReached == which = "layout" => LA!EveryMonitorIsReached

=============================================================================
