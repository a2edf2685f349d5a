------------------------------- MODULE Notice -------------------------------
(***************************************************************************)
(* How a Windows machine notices what is copied on it                      *)
(* (crates/smkvm-clipboard/src/platform/windows.rs): notices of changes,   *)
(* the timer that lets a burst of them settle, looks at a clipboard that   *)
(* is open elsewhere or still being put together, and the second thread    *)
(* that is asked when nothing shared was found.                            *)
(***************************************************************************)
EXTENDS Naturals, Sequences

CONSTANTS
  LookAtMost,   \* LOOK_AT_MOST
  MaxChanges,   \* bound: changes of the clipboard
  MaxSwitches   \* bound: how often watching is turned off and on

VARIABLES
  clip,       \* the system's: [seq, ours, shared], shared: a format we know is on it
  queue,      \* the thread's messages: "update", "offer", "watch", "ignore"
  timer,      \* SETTLE_TIMER is set
  looks,      \* State::looks
  watching,   \* State::watching
  listening,  \* AddClipboardFormatListener holds
  asks,       \* questions to the thread with an apartment
  changes,    \* what was reported last: clip, as it was seen
  busy,       \* looks that found the clipboard open elsewhere since the last notice
  last,       \* the change by somebody else that was noticed last
  switches

vars == <<clip, queue, timer, looks, watching, listening, asks, changes, busy, last, switches>>

Init ==
  /\ clip = [seq |-> 0, ours |-> FALSE, shared |-> FALSE]
  /\ queue = <<>> /\ timer = FALSE /\ looks = 0
  /\ watching = TRUE /\ listening = TRUE
  /\ asks = 0 /\ changes = clip /\ busy = 0 /\ last = 0 /\ switches = 0

Becomes(ours, shared) ==
  /\ clip.seq < MaxChanges
  /\ clip' = [seq |-> clip.seq + 1, ours |-> ours, shared |-> shared]

\* A program empties the clipboard, or puts something on it: each step a notice.
Change ==
  /\ \E shared \in BOOLEAN : Becomes(FALSE, shared)
  /\ queue' = IF listening THEN Append(queue, "update") ELSE queue
  /\ UNCHANGED <<timer, looks, watching, listening, asks, changes, busy, last, switches>>

Offer ==
  /\ clip.seq < MaxChanges /\ ~\E i \in DOMAIN queue : queue[i] = "offer"
  /\ queue' = Append(queue, "offer")
  /\ UNCHANGED <<clip, timer, looks, watching, listening, asks, changes, busy, last, switches>>

\* watch_for_copies.
Watch ==
  /\ switches < MaxSwitches /\ switches' = switches + 1
  /\ \E wanted \in {"watch", "ignore"} : queue' = Append(queue, wanted)
  /\ UNCHANGED <<clip, timer, looks, watching, listening, asks, changes, busy, last>>

Next1(type) == queue # <<>> /\ Head(queue) = type

\* WM_OFFER: take_clipboard.
TakeOffer ==
  /\ Next1("offer")
  /\ Becomes(TRUE, TRUE)
  /\ queue' = IF listening THEN Append(Tail(queue), "update") ELSE Tail(queue)
  /\ UNCHANGED <<timer, looks, watching, listening, asks, changes, busy, last, switches>>

LooksCarryOver ==   \* mutant: part-way through the last copy, part-way through this one
  /\ timer' = TRUE
  /\ busy' = 0 /\ last' = clip.seq
  /\ UNCHANGED looks

FreshLook ==
  /\ looks' = 0
  /\ timer' = TRUE
  /\ busy' = 0 /\ last' = clip.seq

\* WM_CLIPBOARDUPDATE: our own offer coming back round says nothing; somebody
\* else's copy is looked at afresh once it has settled.
Update ==
  /\ Next1("update") /\ queue' = Tail(queue)
  /\ IF clip.ours THEN UNCHANGED <<looks, timer, busy, last>> ELSE FreshLook
  /\ UNCHANGED <<clip, watching, listening, asks, changes, switches>>

\* WM_WATCH.
SetWatching ==
  /\ queue # <<>> /\ Head(queue) \in {"watch", "ignore"}
  /\ queue' = Tail(queue)
  /\ LET wanted == Head(queue) = "watch" IN
       /\ watching' = wanted /\ listening' = wanted
       /\ timer' = (timer /\ (wanted \/ ~watching))
  /\ UNCHANGED <<clip, looks, asks, changes, busy, last, switches>>

\* WM_TIMER, the clipboard being open in somebody else's hands.
SettleBusy ==
  /\ timer
  /\ looks' = looks + 1
  /\ timer' = (looks + 1 < LookAtMost)
  /\ busy' = busy + 1
  /\ UNCHANGED <<clip, queue, watching, listening, asks, changes, last, switches>>

\* WM_TIMER, and nothing we share is there yet.
SettleEmpty ==
  /\ timer /\ ~clip.shared
  /\ looks' = looks + 1
  /\ timer' = (looks + 1 < LookAtMost)
  /\ asks' = IF timer' THEN asks ELSE asks + 1
  /\ UNCHANGED <<clip, queue, watching, listening, changes, busy, last, switches>>

SettleFound ==
  /\ timer /\ clip.shared
  /\ timer' = FALSE /\ looks' = 0
  /\ changes' = clip
  /\ UNCHANGED <<clip, queue, watching, listening, asks, busy, last, switches>>

\* look_with_an_apartment.
LookAgain ==
  /\ asks > 0 /\ asks' = asks - 1
  /\ changes' = IF clip.shared THEN clip ELSE changes
  /\ UNCHANGED <<clip, queue, timer, looks, watching, listening, busy, last, switches>>

Next ==
  \/ Change \/ Offer \/ Watch
  \/ TakeOffer \/ Update \/ SetWatching
  \/ SettleBusy \/ SettleEmpty \/ SettleFound \/ LookAgain

Spec == Init /\ [][Next]_vars

-----------------------------------------------------------------------------
Settled == queue = <<>> /\ ~timer /\ asks = 0

\* Once everything has settled, the clipboard as somebody on this machine last
\* left it is what was reported, however its notices, other machines' offers and
\* looks at a half-made clipboard came in between; unless it had nothing shared
\* on it, was never to be had, or watching was turned off meanwhile.
ReportedAsLeft ==
  Settled /\ clip.seq = last /\ clip.shared /\ busy < LookAtMost /\ switches = 0
    => changes = clip

-----------------------------------------------------------------------------
(* What the documentation says and the code does not do.                   *)

\* "Our own offer coming back round. Announcing it would send the far machine's
\* clipboard straight back to it."  (platform/windows.rs:955)
OursIsNotReported == ~changes.ours
=============================================================================
