-------------------------------- MODULE Paste --------------------------------
(***************************************************************************)
(* What another machine copied, pasted on a machine where the service has  *)
(* a worker hold the clipboard: the window that promises it and renders    *)
(* it when asked (crates/smkvm-clipboard/src/platform/windows.rs), the     *)
(* worker around the window (crates/smkvm-cli/src/secure/windows/          *)
(* serving.rs), the questions on the pipe (clip.rs) and the service that   *)
(* fetches (link.rs).  Copies are numbered as the service announces them;  *)
(* one format stands for all.                                              *)
(*                                                                         *)
(* The window's thread, the worker's main loop, the service and one thread *)
(* for each fetch run at once.                                             *)
(***************************************************************************)
EXTENDS Naturals, Sequences

CONSTANTS
  Renewals,   \* RENEWALS_BEFORE_GIVING_UP
  MaxCopies,  \* bound: what is announced from elsewhere
  MaxPastes,  \* bound: questions asked of the service
  MaxTrouble  \* bound: how often something goes wrong

VARIABLES
  standing,   \* Link::offer: the copy held to be pasted from, 0 for none
  copies,     \* how many were announced
  fetching,   \* the fetches under way: [id, copy], each holding its source
  toWorker,   \* the pipe: "offer", "release" and "pasted" messages
  toService,  \* WantsPaste: the questions on their way
  pending,    \* Waiting::pending
  asked,      \* Serving::asked
  ready,      \* Serving::ready: what came too late for its paste, 0 for none
  nextId,     \* Waiting::next
  queue,      \* the messages of the window's thread
  offer,      \* State::offer: [copy, failures], copy 0 for none
  cache,      \* State::cache
  rendering,  \* the question a render waits on, 0 for none
  clipboard,  \* the system's: [owner, holds]
  trouble,    \* how often something went wrong
  pasted,     \* what the last render handed over: [bytes, copy]
  stale,      \* an answer was kept that is of an earlier offer
  untaken     \* the system's clipboard was not to be had, the last time

service == <<standing, copies, fetching>>
pipes   == <<toWorker, toService>>
serving == <<pending, asked, ready, nextId, stale>>
window  == <<queue, offer, cache, rendering, untaken>>
vars == <<service, pipes, serving, window, clipboard, trouble, pasted>>

NoOffer == [copy |-> 0, failures |-> 0]

Fails == trouble < MaxTrouble /\ trouble' = trouble + 1

Init ==
  /\ standing = 0 /\ copies = 0 /\ fetching = {}
  /\ toWorker = <<>> /\ toService = <<>>
  /\ pending = {} /\ asked = {} /\ ready = 0 /\ nextId = 1 /\ stale = FALSE
  /\ queue = <<>> /\ offer = NoOffer /\ cache = 0 /\ rendering = 0 /\ untaken = FALSE
  /\ clipboard = [owner |-> "other", holds |-> "theirs"]
  /\ trouble = 0
  /\ pasted = [bytes |-> 0, copy |-> 0]

-----------------------------------------------------------------------------
(* The service.                                                            *)

\* WriteThroughWorker::offer: held first, so that the question which follows
\* the announcement finds it.
Announce ==
  /\ copies < MaxCopies
  /\ copies' = copies + 1 /\ standing' = copies + 1
  /\ toWorker' = Append(toWorker, [type |-> "offer", copy |-> copies + 1])
  /\ UNCHANGED <<fetching, toService, serving, window, clipboard, trouble, pasted>>

\* WriteThroughWorker::release.
Withdraw ==
  /\ standing # 0
  /\ standing' = 0
  /\ toWorker' = Append(toWorker, [type |-> "release"])
  /\ UNCHANGED <<copies, fetching, toService, serving, window, clipboard, trouble, pasted>>

Answer(id, bytes) == [type |-> "pasted", id |-> id, bytes |-> bytes]

\* someone_is_pasting: with nothing announced, or its source being fetched from
\* already, there is no answer but an error.
HearQuestion ==
  /\ toService # <<>>
  /\ toService' = Tail(toService)
  /\ \/ /\ standing = 0 \/ \E f \in fetching : f.copy = standing
        /\ toWorker' = Append(toWorker, Answer(Head(toService), 0))
        /\ UNCHANGED fetching
     \/ /\ standing # 0 /\ \A f \in fetching : f.copy # standing
        /\ fetching' = fetching \cup {[id |-> Head(toService), copy |-> standing]}
        /\ UNCHANGED toWorker
  /\ UNCHANGED <<standing, copies, serving, window, clipboard, trouble, pasted>>

\* The far machine answers, or does not have it any more.
FetchEnds ==
  \E f \in fetching, ok \in BOOLEAN :
    /\ ok \/ f.copy # standing \/ trouble < MaxTrouble
    /\ trouble' = IF ok \/ f.copy # standing THEN trouble ELSE trouble + 1
    /\ fetching' = fetching \ {f}
    /\ toWorker' = Append(toWorker, Answer(f.id, IF ok THEN f.copy ELSE 0))
    /\ UNCHANGED <<standing, copies, toService, serving, window, clipboard, pasted>>

-----------------------------------------------------------------------------
(* The window.                                                             *)

\* after_a_render_that_kept_nothing.
Unkept ==
  /\ offer' = [offer EXCEPT !.failures = @ + 1]
  /\ queue' = Append(queue, IF offer'.failures > Renewals THEN [type |-> "release"]
                                                          ELSE [type |-> "renew"])
  /\ clipboard' = [clipboard EXCEPT !.holds = IF clipboard.owner = "us" THEN "nothing" ELSE @]
  /\ UNCHANGED <<pasted, untaken>>

\* render, with the contents: handed over, unless it is too late or the system
\* would not take them.
HandOver(bytes) ==
  /\ cache' = bytes
  /\ \/ /\ offer' = [offer EXCEPT !.failures = 0]
        /\ clipboard' = [clipboard EXCEPT !.holds = IF clipboard.owner = "us" THEN "contents" ELSE @]
        /\ pasted' = [bytes |-> bytes, copy |-> offer.copy]
        /\ UNCHANGED <<queue, trouble, untaken>>
     \/ Fails /\ Unkept

Free == rendering = 0

\* Somebody pastes: WM_RENDERFORMAT, and AskTheService::fetch behind it.
Render ==
  /\ Free /\ clipboard = [owner |-> "us", holds |-> "promise"]
  /\ \/ \* nothing is on offer, and nothing is renewed
        /\ offer.copy = 0
        /\ clipboard' = [clipboard EXCEPT !.holds = "nothing"]
        /\ UNCHANGED <<serving, toService, window, trouble, pasted>>
     \/ /\ offer.copy # 0 /\ cache # 0
        /\ HandOver(cache)
        /\ UNCHANGED <<serving, toService, rendering>>
     \/ \* what arrived too late for the last one
        /\ offer.copy # 0 /\ cache = 0 /\ ready # 0
        /\ ready' = 0
        /\ HandOver(ready)
        /\ UNCHANGED <<pending, asked, nextId, stale, toService, rendering>>
     \/ /\ offer.copy # 0 /\ cache = 0 /\ ready = 0 /\ nextId <= MaxPastes
        /\ nextId' = nextId + 1
        /\ \/ /\ pending' = pending \cup {nextId} /\ asked' = asked \cup {nextId}
              /\ toService' = Append(toService, nextId)
              /\ rendering' = nextId
              /\ UNCHANGED <<queue, offer, clipboard, trouble, pasted, untaken>>
           \/ \* the outbox has no room: nothing could even be asked
              /\ Fails /\ Unkept
              /\ UNCHANGED <<pending, asked, toService, rendering>>
        /\ UNCHANGED <<ready, cache, stale>>
  /\ UNCHANGED <<service, toWorker>>

\* PASTE_WITHIN is over.  The question stays as it was.
GiveUpWaiting ==
  /\ rendering # 0 /\ rendering \in pending
  /\ Fails /\ Unkept
  /\ rendering' = 0
  /\ UNCHANGED <<service, pipes, serving, cache>>

OfferKeepsCache(copy) ==   \* mutant: what was fetched before is still there
  /\ offer' = [copy |-> copy, failures |-> 0]
  /\ UNCHANGED cache

\* A fresh announcement: it starts from nothing.
NewOffer(copy) ==
  /\ offer' = [copy |-> copy, failures |-> 0]
  /\ cache' = 0

\* take_clipboard: what is on offer, if anything, is promised; the system's may
\* be open in somebody else's hands for longer than OPEN_PATIENCE.
TakeClipboard ==
  IF offer'.copy = 0
    THEN UNCHANGED <<clipboard, trouble, untaken>>
    ELSE \/ clipboard' = [owner |-> "us", holds |-> "promise"]
            /\ untaken' = FALSE /\ UNCHANGED trouble
         \/ Fails /\ untaken' = TRUE /\ UNCHANGED clipboard

\* The window's thread, one message.
Turn ==
  /\ Free /\ queue # <<>>
  /\ queue' = Tail(queue)
  /\ LET m == Head(queue) IN
       \/ m.type = "offer" /\ NewOffer(m.copy) /\ TakeClipboard
       \/ m.type = "renew" /\ UNCHANGED <<offer, cache>> /\ TakeClipboard
       \/ /\ m.type = "release"
          /\ offer' = NoOffer /\ cache' = 0
          /\ UNCHANGED <<clipboard, trouble, untaken>>
       \/ /\ m.type = "update"   \* WM_CLIPBOARDUPDATE: whose is it now?
          /\ IF clipboard.owner = "us" THEN UNCHANGED <<offer, cache>>
                                       ELSE offer' = NoOffer /\ cache' = 0
          /\ UNCHANGED <<clipboard, trouble, untaken>>
  /\ UNCHANGED <<service, pipes, serving, rendering, pasted>>

\* Somebody copies something on this machine.
CopyHere ==
  /\ clipboard.owner = "us"
  /\ clipboard' = [owner |-> "other", holds |-> "theirs"]
  /\ queue' = Append(queue, [type |-> "update"])
  /\ UNCHANGED <<service, pipes, serving, offer, cache, rendering, untaken, trouble, pasted>>

-----------------------------------------------------------------------------
(* The worker's main loop: Clipboard::told.                                *)

Told(type) == toWorker # <<>> /\ Head(toWorker).type = type /\ toWorker' = Tail(toWorker)

ToldOffer ==
  /\ Told("offer")
  /\ ready' = 0
  /\ queue' = Append(queue, Head(toWorker))
  /\ UNCHANGED <<service, toService, pending, asked, nextId, stale, offer, cache, rendering,
                 untaken, clipboard, trouble, pasted>>

ToldRelease ==
  /\ Told("release")
  /\ queue' = Append(queue, Head(toWorker))
  /\ UNCHANGED <<service, toService, serving, offer, cache, rendering, untaken, clipboard,
                 trouble, pasted>>

\* Serving::pasted: to the render that waits, or kept for the next one.
ToldPasted ==
  /\ Told("pasted")
  /\ LET a == Head(toWorker) IN
       /\ pending' = pending \ {a.id} /\ asked' = asked \ {a.id}
       /\ \/ /\ a.id \in pending /\ rendering = a.id
             /\ rendering' = 0
             /\ IF a.bytes = 0 THEN Unkept /\ UNCHANGED <<cache, trouble>> ELSE HandOver(a.bytes)
             /\ UNCHANGED <<ready, stale>>
          \/ /\ ~(a.id \in pending /\ rendering = a.id)
             /\ IF a.bytes # 0 /\ a.id \in asked
                  THEN /\ ready' = a.bytes
                       /\ stale' = (stale \/ a.bytes < offer.copy \/ \E i \in DOMAIN queue :
                                       queue[i].type = "offer" /\ a.bytes < queue[i].copy)
                  ELSE UNCHANGED <<ready, stale>>
             /\ UNCHANGED <<window, clipboard, trouble, pasted>>
  /\ UNCHANGED <<service, toService, nextId>>

\* The worker is replaced: its window is destroyed with it, and the next one is
\* told to serve and to announce what stands (Link::attach).
Replace ==
  /\ Fails
  /\ toService' = <<>>
  /\ toWorker' = IF standing = 0 THEN <<>> ELSE <<[type |-> "offer", copy |-> standing]>>
  /\ pending' = {} /\ asked' = {} /\ ready' = 0 /\ UNCHANGED stale
  /\ queue' = <<>> /\ offer' = NoOffer /\ cache' = 0 /\ rendering' = 0 /\ untaken' = FALSE
  /\ clipboard' = IF clipboard.owner = "us" THEN [owner |-> "other", holds |-> "nothing"]
                                            ELSE clipboard
  /\ UNCHANGED <<service, nextId, pasted>>

-----------------------------------------------------------------------------
Main == ToldOffer \/ ToldRelease \/ ToldPasted

Next ==
  \/ Announce \/ Withdraw \/ HearQuestion \/ FetchEnds
  \/ Render \/ GiveUpWaiting \/ Turn \/ CopyHere \/ Main \/ Replace

Spec == Init /\ [][Next]_vars

-----------------------------------------------------------------------------
\* What a paste hands over is never older than the offer the clipboard's window
\* holds, through renewals, answers that come late, offers that replace each
\* other while a render waits and workers that are replaced; unless an answer
\* to a question about an earlier offer was kept after the new one had come.
PastesTheOffer == ~stale => pasted.bytes >= pasted.copy

\* A render that could not be served is not the last word: while the machine
\* offers something and nobody copied anything else, a clipboard answered with
\* nothing is about to be promised again or let go; unless somebody else had
\* the clipboard open for the whole of the attempt.
PromiseIsRenewed ==
  clipboard = [owner |-> "us", holds |-> "nothing"] /\ offer.copy # 0 /\ ~untaken
    => \E i \in DOMAIN queue : queue[i].type \in {"renew", "release", "offer"}

-----------------------------------------------------------------------------
(* What the documentation says and the code does not do.                   *)

\* "A new offer is a new set of contents; whatever was kept from the last one
\* is not what this announces."  (secure/windows/serving.rs:449)
NothingKeptIsOld == ready # 0 /\ offer.copy # 0 => ready >= offer.copy
=============================================================================
