----------------------------- MODULE Noticing ------------------------------
(***************************************************************************)
(* How a copy made by the person at a Windows machine is noticed by the    *)
(* reader that runs as that person                                         *)
(* (crates/smkvm-cli/src/secure/windows/reader.rs): two watches beside one *)
(* another, one told by a window and one that looks at the clipboard's     *)
(* sequence number, which share what was announced last and whether a      *)
(* change is the service's own; and the queue to the service (outbox.rs).  *)
(***************************************************************************)
EXTENDS Naturals, Sequences

CONSTANTS
  MaxCopies,   \* bound: copies the person makes
  MaxOffers,   \* bound: offers the service has its worker make
  MaxTrouble   \* bound: clipboards that do not open, full queues, workers replaced

Watches == {"window", "poll"}

VARIABLES
  seq,        \* GetClipboardSequenceNumber
  top,        \* whose change it was: "person" or "ours"
  warnings,   \* OurOwnChangeComing that the reader has not taken from its pipe
  taking,     \* offers the worker has not carried out
  ours,       \* ours_until is set, and not past
  announced,  \* the sequence claimed last
  notes,      \* what the window told of: the sequence it looked at
  looked,     \* the last of these
  at, holds, settled, \* each watch: how far it is, what it would report, and the sequence it read
  reported,   \* the latest sequence reported to the service
  copies, offers, trouble,
  spoiled     \* history: something happened after which a copy may go unnoticed

clipboard == <<seq, top>>
shared == <<ours, announced>>
watching == <<at, holds, settled>>
bounds == <<copies, offers, trouble>>
vars == <<clipboard, warnings, taking, shared, notes, looked, watching, reported, bounds, spoiled>>

Fails == trouble < MaxTrouble /\ trouble' = trouble + 1

\* The watches begin.  What is on the clipboard by now counts as announced, whether or
\* not the look before them saw it.
Init ==
  /\ seq = 0 /\ top = "person" /\ warnings = 0 /\ taking = 0
  /\ ours = FALSE /\ announced = 0 /\ notes = <<>> /\ looked = 0
  /\ at = [w \in Watches |-> "waiting"] /\ holds = [w \in Watches |-> 0] /\ settled = [w \in Watches |-> 0]
  /\ reported = 0 /\ copies = 0 /\ offers = 0 /\ trouble = 0 /\ spoiled = FALSE

-----------------------------------------------------------------------------
(* The clipboard, and what the service says of it.                         *)

\* The person copies.
Copy ==
  /\ copies < MaxCopies /\ copies' = copies + 1
  /\ seq' = seq + 1 /\ top' = "person"
  /\ UNCHANGED <<warnings, taking, shared, notes, looked, watching, reported, offers, trouble, spoiled>>

\* WriteThroughWorker::offer and release: the reader is warned, then the worker told.
Offer ==
  /\ offers < MaxOffers /\ offers' = offers + 1
  /\ warnings' = warnings + 1
  /\ \/ taking' = taking + 1 /\ UNCHANGED trouble
     \/ Fails /\ UNCHANGED taking   \* no worker
  /\ UNCHANGED <<clipboard, shared, notes, looked, watching, reported, copies, spoiled>>

\* Link::attach offers it again, and warns nobody.
Reoffer ==
  /\ offers > 0 /\ Fails
  /\ taking' = taking + 1
  /\ UNCHANGED <<clipboard, warnings, shared, notes, looked, watching, reported, copies, offers, spoiled>>

WorkerTakes ==
  /\ taking > 0 /\ taking' = taking - 1
  /\ seq' = seq + 1 /\ top' = "ours"
  /\ UNCHANGED <<warnings, shared, notes, looked, watching, reported, bounds, spoiled>>

\* OurOwnChangeComing, once the reader is done with what it was asked before.
HearWarning ==
  /\ warnings > 0 /\ warnings' = warnings - 1
  /\ ours' = TRUE
  /\ UNCHANGED <<clipboard, taking, announced, notes, looked, watching, reported, bounds, spoiled>>

\* OURS_FOR goes by.
Expires ==
  /\ ours /\ ours' = FALSE
  /\ UNCHANGED <<clipboard, warnings, taking, announced, notes, looked, watching, reported, bounds, spoiled>>

-----------------------------------------------------------------------------
(* The watches.                                                            *)

\* The window has looked at a change, if it was told at all.
WindowLooks ==
  /\ looked < seq /\ looked' = seq
  /\ notes' = Append(notes, seq)
  /\ UNCHANGED <<clipboard, warnings, taking, shared, watching, reported, bounds, spoiled>>

\* next_change.
WindowTold ==
  /\ at["window"] = "waiting" /\ notes # <<>>
  /\ notes' = Tail(notes)
  /\ at' = [at EXCEPT !["window"] = "settling"] /\ holds' = [holds EXCEPT !["window"] = Head(notes)]
  /\ UNCHANGED <<clipboard, warnings, taking, shared, looked, settled, reported, bounds, spoiled>>

\* LOOK_EVERY goes by, and the number has moved.
PollLooks ==
  /\ at["poll"] = "waiting" /\ seq # announced
  /\ at' = [at EXCEPT !["poll"] = "settling"]
  /\ UNCHANGED <<clipboard, warnings, taking, shared, notes, looked, holds, settled, reported, bounds, spoiled>>

Goes(w, to) == at' = [at EXCEPT ![w] = to]

Reads(w) ==
  /\ at[w] = "settling" /\ Goes(w, "settled")
  /\ settled' = [settled EXCEPT ![w] = seq]
  /\ UNCHANGED <<clipboard, warnings, taking, shared, notes, looked, holds, reported, bounds, spoiled>>

\* ours_now: it is asked once, and one answer is given to one watch.  What the
\* person copied beside an offer may be taken for it.
AsksWhose(w) ==
  /\ at[w] = "settled"
  /\ Goes(w, IF ours THEN "mine" ELSE IF w = "poll" THEN "opening" ELSE "claiming")
  /\ ours' = FALSE
  /\ spoiled' = (spoiled \/ (ours /\ top = "person"))
  /\ UNCHANGED <<clipboard, warnings, taking, announced, notes, looked, holds, settled, reported, bounds>>

Passes(w) ==
  /\ at[w] = "mine" /\ Goes(w, "waiting")
  /\ announced' = settled[w]
  /\ UNCHANGED <<clipboard, warnings, taking, ours, notes, looked, holds, settled, reported, bounds, spoiled>>

ClaimsWhatItCannotOpen ==   \* mutant
  /\ at["poll"] = "opening"
  /\ \/ Goes("poll", "claiming") /\ UNCHANGED <<announced, trouble>>
     \/ Fails /\ Goes("poll", "waiting") /\ announced' = settled["poll"]
  /\ UNCHANGED <<clipboard, warnings, taking, ours, notes, looked, holds, settled, reported, copies, offers, spoiled>>

\* A clipboard that does not open is looked at again, and nothing is decided.
PollOpens ==
  /\ at["poll"] = "opening"
  /\ \/ Goes("poll", "claiming") /\ UNCHANGED trouble
     \/ Fails /\ Goes("poll", "waiting")
  /\ UNCHANGED <<clipboard, warnings, taking, shared, notes, looked, holds, settled, reported, copies, offers, spoiled>>

\* The swap: whoever claims a sequence announces it.  The window's watch holds
\* what was there when the window looked, which may be something older.
Claims(w) ==
  /\ at[w] = "claiming"
  /\ announced' = settled[w]
  /\ Goes(w, IF announced = settled[w] THEN "waiting" ELSE "reporting")
  /\ spoiled' = (spoiled \/ (announced # settled[w] /\ w = "window" /\ holds[w] # settled[w]))
  /\ UNCHANGED <<clipboard, warnings, taking, ours, notes, looked, holds, settled, reported, bounds>>

\* Copied, if there is room for it; a watch that finds none ends.  The poll opens
\* the clipboard a second time, and what does not open then is not announced.
Reports(w) ==
  /\ at[w] = "reporting"
  /\ \/ /\ Goes(w, "waiting")
        /\ \E n \in {IF w = "poll" THEN seq ELSE holds[w]} : reported' = (IF n > reported THEN n ELSE reported)
        /\ UNCHANGED <<trouble, spoiled>>
     \/ Fails /\ Goes(w, "ended") /\ spoiled' = TRUE /\ UNCHANGED reported
     \/ Fails /\ w = "poll" /\ Goes(w, "waiting") /\ spoiled' = TRUE /\ UNCHANGED reported
  /\ UNCHANGED <<clipboard, warnings, taking, shared, notes, looked, holds, settled, copies, offers>>

Watch(w) == Reads(w) \/ AsksWhose(w) \/ Passes(w) \/ Claims(w) \/ Reports(w)

Next == \/ Copy \/ Offer \/ Reoffer \/ WorkerTakes \/ HearWarning \/ Expires
        \/ WindowLooks \/ WindowTold \/ PollLooks \/ PollOpens
        \/ \E w \in Watches : Watch(w)

Spec == Init /\ [][Next]_vars

-----------------------------------------------------------------------------
\* Neither watch has anything left to do: the poll goes on as long as the number
\* is not the one announced.
Settled == notes = <<>> /\ seq = announced /\ \A w \in Watches : at[w] \in {"waiting", "ended"}

\* reader.rs: "Whoever gets there first announces it; the other sees the sequence
\* already claimed and stays quiet".  What the person copied last has been announced
\* by one of the two watches once both are done with it, whether or not the window
\* was ever told of it, unless the copy fell beside an offer of the service's, the
\* clipboard did not open for the poll's second look, the queue was full, or the
\* window had looked before it.
CopyIsNoticed == Settled /\ top = "person" => reported = seq \/ spoiled

-----------------------------------------------------------------------------
(* What the documentation says and the code does not do.                   *)

\* reader.rs: the reader is told of the service's own change, since "reporting it
\* sends the far machine's own clipboard back to it".
OursStaysQuiet == [][reported' # reported => top = "person"]_vars
=============================================================================
