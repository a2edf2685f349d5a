------------------------------ MODULE Selection ------------------------------
(***************************************************************************)
(* The clipboard of an X11 machine                                         *)
(* (crates/smkvm-clipboard/src/platform/x11.rs): the thread that owns the  *)
(* selection for what another machine copied (X11Writer, owner_thread,     *)
(* X11Owner), the programs that paste from it, whole or piece by piece     *)
(* (INCR), and the watcher that must not take our own ownership for a copy *)
(* (X11Clipboard::next_change).                                            *)
(*                                                                         *)
(* Offers are numbered; a fetch gives the contents of its offer.  The      *)
(* server's time goes up with each change of ownership.                    *)
(***************************************************************************)
EXTENDS Naturals, Sequences, SequencesExt

CONSTANTS
  Pasters,    \* programs that paste
  Pieces,     \* into how many pieces a large transfer is cut
  MaxOffers,  \* bound: offers and releases by the daemon
  MaxCopies,  \* bound: copies made by programs here
  MaxPastes   \* bound: requests

VARIABLES
  selection,  \* the server's: [owner, time]
  commands,   \* owner_thread's inbox: offers by number, 0 for Release
  offers,     \* how many commands were given
  copies,
  requests,
  events,     \* the owner's connection, oldest first
  owner,      \* Option<X11Owner>: [on, owns, offered, since]
  cached,     \* X11Owner::cached, 0 for nothing
  inFlight,   \* X11Owner::in_flight
  published,  \* the window the watcher ignores: "us", or "none" for 0
  notices,    \* the watcher's connection: the new owners, oldest first
  reported,   \* whose contents the watcher reported last
  paste,      \* each program's: [at, got, since], got the pieces so far
  left        \* programs that gave up on a transfer the owner still held

daemon == <<commands, offers>>
ours   == <<owner, cached, inFlight, published>>
vars == <<selection, daemon, copies, requests, events, ours, notices, reported, paste, left>>

NoOwner == [on |-> FALSE, owns |-> FALSE, offered |-> 0, since |-> 0]
Idle    == [at |-> "idle", got |-> <<>>, since |-> 0]

Init ==
  /\ selection = [owner |-> "none", time |-> 0]
  /\ commands = <<>> /\ offers = 0 /\ copies = 0 /\ requests = 0
  /\ events = <<>>
  /\ owner = NoOwner /\ cached = 0 /\ inFlight = <<>> /\ published = "none"
  /\ notices = <<>> /\ reported = "nobody"
  /\ paste = [p \in Pasters |-> Idle] /\ left = {}

-----------------------------------------------------------------------------
\* X11Writer::offer and ::release.
Command ==
  /\ offers < MaxOffers /\ offers' = offers + 1
  /\ \E c \in {0, offers + 1} : commands' = Append(commands, c)
  /\ UNCHANGED <<selection, copies, requests, events, ours, notices, reported, paste, left>>

\* The server gives the selection to w; who had it is told, and the watcher.
Passes(w, queue) ==
  /\ selection' = [owner |-> w, time |-> selection.time + 1]
  /\ events' = IF selection.owner = "us" /\ w # "us"
                 THEN Append(queue, [type |-> "clear", time |-> selection.time + 1])
                 ELSE queue
  /\ notices' = Append(notices, w)

\* A program here copies something.
Copy ==
  /\ copies < MaxCopies /\ copies' = copies + 1
  /\ Passes("app", events)
  /\ UNCHANGED <<daemon, requests, ours, reported, paste, left>>

\* X11Owner::release, within take_back: CURRENT_TIME, whoever owns it by now.
TakeBack(had, queue) ==
  /\ owner' = NoOwner /\ cached' = 0 /\ inFlight' = <<>> /\ published' = "none"
  /\ IF had THEN Passes("none", queue) ELSE events' = queue /\ UNCHANGED <<selection, notices>>

\* The owner's thread has nothing left to do of the command before.
Ready == owner.on => published = "us"

\* It takes a command: Offer, owning already.
ReofferKeepsCache(n) ==   \* mutant: the last offer's contents answer for this one
  /\ owner' = [owner EXCEPT !.offered = n]
  /\ UNCHANGED cached

Reoffer(n) ==
  /\ owner' = [owner EXCEPT !.offered = n]
  /\ cached' = 0

\* X11Owner::take asks the server whose the selection is once it has taken it: a
\* program may have copied since, and the offer is given up with its connection.
HearOffer ==
  /\ Ready /\ commands # <<>> /\ Head(commands) # 0
  /\ commands' = Tail(commands)
  /\ \/ /\ owner.on /\ owner.owns
        /\ Reoffer(Head(commands))
        /\ UNCHANGED <<selection, events, inFlight, notices, copies>>
     \/ /\ ~(owner.on /\ owner.owns)
        /\ owner' = [on |-> TRUE, owns |-> TRUE, offered |-> Head(commands),
                     since |-> selection.time]
        /\ cached' = 0 /\ inFlight' = <<>>
        /\ Passes("us", events) /\ UNCHANGED copies
     \/ /\ ~(owner.on /\ owner.owns)
        /\ copies < MaxCopies /\ copies' = copies + 1
        /\ selection' = [owner |-> "app", time |-> selection.time + 2]
        /\ notices' = notices \o <<"us", "app">>
        /\ owner' = NoOwner /\ cached' = 0 /\ inFlight' = <<>> /\ events' = <<>>
  /\ UNCHANGED <<offers, published, requests, reported, paste, left>>

\* Only then is the watcher told which window to look away from.
Publish ==
  /\ ~Ready /\ published' = "us"
  /\ UNCHANGED <<selection, daemon, copies, requests, events, owner, cached, inFlight,
                 notices, reported, paste, left>>

HearRelease ==
  /\ Ready /\ commands # <<>> /\ Head(commands) = 0
  /\ commands' = Tail(commands)
  /\ TakeBack(owner.on /\ owner.owns, events)
  /\ UNCHANGED <<offers, copies, requests, reported, paste, left>>

Serves(type) == owner.on /\ Ready /\ events # <<>> /\ Head(events).type = type

\* Whether a SelectionClear is about the ownership held now.
IsAboutThis(c) == c.time >= owner.since /\ selection.owner # "us"

Clear ==
  /\ Serves("clear")
  /\ IF IsAboutThis(Head(events))
       THEN TakeBack(FALSE, Tail(events))
       ELSE events' = Tail(events) /\ UNCHANGED <<ours, selection, notices>>
  /\ UNCHANGED <<daemon, copies, requests, reported, paste, left>>

\* answer: refused, handed over whole, or begun piece by piece.
Answer ==
  /\ Serves("request")
  /\ events' = Tail(events)
  /\ LET p == Head(events).from IN
       \/ /\ cached = 0   \* the fetch failed
          /\ paste' = [paste EXCEPT ![p] = Idle]
          /\ UNCHANGED <<cached, inFlight>>
       \/ \E large \in BOOLEAN :
            /\ cached' = IF cached = 0 THEN owner.offered ELSE cached
            /\ IF large
                 THEN /\ inFlight' = Append(inFlight, [to |-> p, data |-> cached', sent |-> 0])
                      /\ paste' = [paste EXCEPT ![p].at = "incr"]
                 ELSE /\ paste' = [paste EXCEPT ![p].at = "done",
                                     ![p].got = [i \in 1..Pieces |-> cached']]
                      /\ UNCHANGED inFlight
  /\ UNCHANGED <<daemon, copies, requests, owner, published, left, selection, notices, reported>>

\* continue_incremental: the next piece of the first transfer to that window;
\* an empty piece ends it.
Continue ==
  /\ Serves("deleted")
  /\ events' = Tail(events)
  /\ LET p == Head(events).from
         i == SelectInSeq(inFlight, LAMBDA t : t.to = p) IN
       IF i = 0 THEN UNCHANGED <<inFlight, paste>>
       ELSE LET t == inFlight[i] IN
         IF t.sent = Pieces
           THEN /\ inFlight' = RemoveAt(inFlight, i)
                /\ paste' = IF paste[p].at = "waits" THEN [paste EXCEPT ![p].at = "done"]
                                                     ELSE paste
           ELSE /\ inFlight' = [inFlight EXCEPT ![i].sent = @ + 1]
                /\ paste' = IF paste[p].at = "waits"
                              THEN [paste EXCEPT ![p].at = "incr", ![p].got = Append(@, t.data)]
                              ELSE paste
  /\ UNCHANGED <<daemon, copies, requests, owner, cached, published, left, selection, notices,
                 reported>>

\* Events that reach the connection while nothing is owned are read by the next
\* owner; requests to a window that owns nothing are answered by nobody.
-----------------------------------------------------------------------------
\* A program pastes.
Request ==
  \E p \in Pasters :
    /\ paste[p].at \in {"idle", "done"} /\ selection.owner = "us" /\ requests < MaxPastes
    /\ requests' = requests + 1
    /\ paste' = [paste EXCEPT ![p] = [at |-> "asked", got |-> <<>>, since |-> owner.offered]]
    /\ events' = Append(events, [type |-> "request", from |-> p])
    /\ UNCHANGED <<daemon, copies, ours, left, selection, notices, reported>>

\* It takes a piece and removes the property, which asks for the next.
TakePiece ==
  \E p \in Pasters :
    /\ paste[p].at = "incr"
    /\ paste' = [paste EXCEPT ![p].at = "waits"]
    /\ events' = Append(events, [type |-> "deleted", from |-> p])
    /\ UNCHANGED <<daemon, copies, requests, ours, left, selection, notices, reported>>

\* It has waited long enough.
GiveUp ==
  \E p \in Pasters :
    /\ paste[p].at \in {"incr", "waits"}
    /\ paste' = [paste EXCEPT ![p] = Idle]
    /\ left' = IF \E i \in DOMAIN inFlight : inFlight[i].to = p THEN left \cup {p} ELSE left
    /\ UNCHANGED <<daemon, copies, requests, events, ours, selection, notices, reported>>

\* next_change: what is ours is ignored; the rest is asked what it has, of
\* whoever owns the selection by then.
Watch ==
  /\ notices # <<>> /\ notices' = Tail(notices)
  /\ reported' = IF Head(notices) = published THEN reported ELSE selection.owner
  /\ UNCHANGED <<selection, daemon, copies, requests, events, ours, paste, left>>

Next ==
  \/ Command \/ Copy
  \/ HearOffer \/ Publish \/ HearRelease \/ Clear \/ Answer \/ Continue
  \/ Request \/ TakePiece \/ GiveUp \/ Watch

Spec == Init /\ [][Next]_vars

-----------------------------------------------------------------------------
\* A paste that finished is one offer's contents, every piece of it and nothing
\* else, and no older than what was on offer when it was asked for: through
\* offers that replace each other mid-transfer, programs that copy and pastes of
\* two programs at once; unless the program itself gave up on an earlier
\* transfer that was still under way.
PasteIsWhole ==
  \A p \in Pasters \ left : paste[p].at = "done" =>
    /\ Len(paste[p].got) = Pieces
    /\ \A i \in 1..Pieces : paste[p].got[i] = paste[p].got[1] /\ paste[p].got[i] >= paste[p].since

\* While the server says the selection is ours, somebody answers for it: a word
\* about an ownership that was lost before does not end the one taken since.
OwnedIsServed == selection.owner = "us" => owner.on /\ owner.owns

-----------------------------------------------------------------------------
(* What the documentation says and the code does not do.                   *)

\* "Do not report a change when the clipboard is taken by this window."
\* (platform/x11.rs:165)  The change may be looked at before the window that made
\* it is published, or after it was taken back.
OursIsNotReported == reported # "us"
=============================================================================
