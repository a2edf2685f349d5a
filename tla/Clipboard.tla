----------------------------- MODULE Clipboard -----------------------------
(***************************************************************************)
(* The clipboard of a whole desk: an Exchange on every machine, the links  *)
(* between the hub and the clients, and on each machine what               *)
(* crates/smkvm-cli/src/clipboard.rs does between the exchange, the        *)
(* machine's own clipboard and whoever pastes from it.                     *)
(*                                                                         *)
(* Copies are numbered in the order they are made, on whatever machine,    *)
(* and every piece of the contents of a copy carries its number: what a    *)
(* paste was given says which copies it was put together from.             *)
(*                                                                         *)
(* A clipboard message is never dropped from a queue (Switching has the    *)
(* queues), so a link is a sequence each way.  Files are left out, and so  *)
(* is FETCH_PATIENCE, after which whoever pastes waits no longer: an       *)
(* answer that comes later changes nothing.                                *)
(***************************************************************************)
EXTENDS Exchange

CONSTANTS
  Hub,         \* the server, one of Devices
  Sizes,       \* bound: how many pieces each copy that will be made has
  MaxFailures, \* bound: how many links fail, daemons start again or
               \* configurations change
  MaxEvents    \* bound: how many of those there are with the pastes

VARIABLES
  board,     \* what each machine's clipboard holds
  notices,   \* Sharing::changes: copies noticed there and not yet handled
  reads,     \* reads of it under way, or done and not yet handled
  pasting,   \* Sharing::wanted: pastes asked for and not yet handled
  asked,     \* by ticket, where and for what
  answers,   \* by ticket, what was given: contents, or None if refused
  link,      \* "cut", "knocking" (not yet taken in by the hub) or "open"
  up,        \* on its way from a client to the hub
  downward,  \* on its way from the hub to a client
  made,      \* the machine each copy was made on
  named,     \* the copy a ClipSeq was last given to
  failures,
  calm       \* whether no link failed, and no copy was made before the last
             \* one had reached everyone or was taken for its echo

boardVars == <<board, notices, reads, pasting, asked, answers>>
linkVars  == <<link, up, downward>>
deskVars  == <<made, named, failures, calm>>
vars == <<exchangeVars, boardVars, linkVars, deskVars>>

Clients == Devices \ {Hub}
Copies  == DOMAIN Sizes

ASSUME HubAssumption == Hub \in Devices
ASSUME SizesAssumption == Sizes \in Seq(Nat) /\ Len(Sizes) <= MaxCopies
ASSUME BoundsAssumption == {MaxFailures, MaxEvents} \subseteq Nat

Contents(n) == [i \in 1 .. Sizes[n] |-> n]

\* What a clipboard may hold: nothing, a copy made there, or an offer.
Copied(n)         == [type |-> "copy", copy |-> n]
Offering(s, fs)   == [type |-> "offer", seq |-> s, formats |-> fs]
HoldsOffer(d)     == board[d] # None /\ board[d].type = "offer"
HoldsCopy(d)      == board[d] # None /\ board[d].type = "copy"

-----------------------------------------------------------------------------
(* Sharing::apply: what comes of an exchange's outputs.                    *)

Outs(d)      == {o \in {out'[i] : i \in DOMAIN out'} : o.to = d}
OutsOf(d, t) == {o \in Outs(d) : o.type = t}
Sent(p)      ==
  LET to == {i \in DOMAIN out' : out'[i].to = p}
  IN [j \in 1 .. Cardinality(to) |->
        out'[CHOOSE i \in to : Cardinality({h \in to : h <= i}) = j]]

\* On the machine itself: an offer is put on its clipboard or taken off it, a
\* read is started beside those left, and pastes are answered.
ApplyWith(d, left) ==
  /\ board' =
       IF OutsOf(d, "OfferLocally") # {}
         THEN LET o == CHOOSE o \in OutsOf(d, "OfferLocally") : TRUE
              IN [board EXCEPT ![d] = Offering(o.seq, o.formats)]
         ELSE IF OutsOf(d, "ReleaseLocally") # {} /\ HoldsOffer(d)
           THEN [board EXCEPT ![d] = None] ELSE board
  /\ reads' = [reads EXCEPT ![d] =
       left \cup {[key |-> o.key, state |-> "started", data |-> None] :
                 o \in OutsOf(d, "ReadLocal")}]
  /\ answers' =
       LET given == OutsOf(d, "Deliver")
       IN [t \in DOMAIN answers \cup {o.ticket : o \in given} |->
             IF t \in DOMAIN answers THEN answers[t]
             ELSE (CHOOSE o \in given : o.ticket = t).data]

ApplyHere(d) == ApplyWith(d, reads[d])

\* To other machines, over the links there are.
SendFrom(d) ==
  /\ downward' = [c \in Clients |->
       IF d = Hub /\ link[c] = "open" /\ c \in peers'[Hub]
         THEN downward[c] \o Sent(c) ELSE downward[c]]
  /\ up' = [c \in Clients |->
       IF d = c /\ link[c] # "cut" THEN up[c] \o Sent(Hub) ELSE up[c]]

Apply(d) == ApplyHere(d) /\ SendFrom(d)

-----------------------------------------------------------------------------
Init ==
  /\ NoExchange
  /\ board = [d \in Devices |-> None]
  /\ notices = [d \in Devices |-> <<>>]
  /\ reads = [d \in Devices |-> {}]
  /\ pasting = [d \in Devices |-> {}]
  /\ asked = <<>>
  /\ answers = <<>>
  /\ link = [c \in Clients |-> "cut"]
  /\ up = [c \in Clients |-> <<>>]
  /\ downward = [c \in Clients |-> <<>>]
  /\ made = <<>>
  /\ named = <<>>
  /\ failures = 0
  /\ calm = TRUE

\* Everything that was said has been heard, and acted upon.
Quiet ==
  /\ \A c \in Clients : link[c] = "open" /\ c \in peers[Hub]
                        /\ up[c] = <<>> /\ downward[c] = <<>>
  /\ \A d \in Devices : notices[d] = <<>> /\ reads[d] = {} /\ pasting[d] = {}

-----------------------------------------------------------------------------
(* The people at the machines.                                             *)

\* Something is copied on d, in some of the formats.
Copy(d, fs) ==
  /\ Len(made) < Len(Sizes)
  /\ made' = Append(made, d)
  /\ board' = [board EXCEPT ![d] = Copied(Len(made'))]
  /\ notices' = [notices EXCEPT ![d] = Append(@, [copy |-> Len(made'), formats |-> fs])]
  /\ calm' = (calm /\ Quiet)
  /\ UNCHANGED <<exchangeVars, reads, pasting, asked, answers, linkVars, named,
                 failures>>

\* Something on d pastes the offer its clipboard holds.
Paste(d, f) ==
  /\ HoldsOffer(d) /\ f \in board[d].formats
  /\ Len(asked) + failures < MaxEvents
  /\ asked' = Append(asked, [at |-> d, seq |-> board[d].seq])
  /\ pasting' = [pasting EXCEPT ![d] = @ \cup
       {[ticket |-> Len(asked'), key |-> [seq |-> board[d].seq, format |-> f]]}]
  /\ UNCHANGED <<exchangeVars, board, notices, reads, answers, linkVars, deskVars>>

-----------------------------------------------------------------------------
(* Sharing::on, for what the clipboard of a machine reports.               *)

\* A client's loop runs as long as its session with the hub does.
InSession(d) == d = Hub \/ Hub \in peers[d]

\* Happened::Changed.
Notice(d, soon) ==
  /\ InSession(d)
  /\ notices[d] # <<>>
  /\ notices' = [notices EXCEPT ![d] = Tail(@)]
  /\ LocalChanged(d, Head(notices[d]).formats, soon)
  /\ named' = IF counter'[d] = counter[d] THEN named
              ELSE LET s == (CHOOSE o \in local'[d] : TRUE).seq
                   IN With(named, s, {Head(notices[d]).copy} \cup
                             (IF s \in DOMAIN named THEN named[s] ELSE {}))
  /\ calm' = (calm /\ counter'[d] # counter[d])
  /\ Apply(d)
  /\ UNCHANGED <<pasting, asked, link, made, failures>>

\* Happened::Wanted.
Want(d) ==
  /\ InSession(d)
  /\ \E p \in pasting[d] :
       /\ pasting' = [pasting EXCEPT ![d] = @ \ {p}]
       /\ Wanted(d, p.ticket, p.key)
       /\ Apply(d)
       /\ UNCHANGED <<notices, asked, link, deskVars>>

\* The thread that reads the clipboard reads what is there now.  A clipboard
\* that holds an offer of another machine's has nothing of its own to read.
Read(d) ==
  \E r \in reads[d] :
    /\ r.state = "started"
    /\ reads' = [reads EXCEPT ![d] = (@ \ {r}) \cup
         {[r EXCEPT !.state = "done",
                    !.data = IF HoldsCopy(d) THEN Contents(board[d].copy)
                                             ELSE None]}]
    /\ UNCHANGED <<exchangeVars, board, notices, pasting, asked, answers,
                   linkVars, deskVars>>

\* Happened::Read.
ReadEnds(d) ==
  /\ InSession(d)
  /\ \E r \in reads[d] :
       /\ r.state = "done"
       /\ ReadDone(d, r.key, r.data)
       /\ ApplyWith(d, reads[d] \ {r}) /\ SendFrom(d)
       /\ UNCHANGED <<notices, pasting, asked, link, deskVars>>

-----------------------------------------------------------------------------
(* Links.                                                                  *)

\* session: the client connects and offers what it has.
Connect(c) ==
  /\ link[c] = "cut" /\ Hub \notin peers[c]
  /\ PeerUp(c, Hub)
  /\ link' = [link EXCEPT ![c] = "knocking"]
  /\ up' = [up EXCEPT ![c] = Sent(Hub)]
  /\ downward' = [downward EXCEPT ![c] = <<>>]
  /\ UNCHANGED <<boardVars, deskVars>>

\* Daemon::arrived: the hub offers it what there is.
TakeIn(c) ==
  /\ link[c] = "knocking" /\ c \notin peers[Hub]
  /\ PeerUp(Hub, c)
  /\ link' = [link EXCEPT ![c] = "open"]
  /\ downward' = [downward EXCEPT ![c] = Sent(c)]
  /\ UNCHANGED <<boardVars, up, deskVars>>

\* Something goes wrong, as often as the bounds let it.
Fails ==
  /\ failures < MaxFailures /\ Len(asked) + failures < MaxEvents
  /\ failures' = failures + 1
  /\ calm' = FALSE

\* The network fails: some of what was sent either way never arrives.
Cut(c) ==
  /\ Fails
  /\ link[c] = "open"
  /\ link' = [link EXCEPT ![c] = "cut"]
  /\ \E n \in 0 .. Len(downward[c]), m \in 0 .. Len(up[c]) :
       /\ downward' = [downward EXCEPT ![c] = SubSeq(@, 1, n)]
       /\ up' = [up EXCEPT ![c] = SubSeq(@, 1, m)]
  /\ UNCHANGED <<exchangeVars, boardVars, made, named>>

\* The client has read all there was and finds the link gone.
ClientLoses(c) ==
  /\ link[c] = "cut" /\ downward[c] = <<>> /\ Hub \in peers[c]
  /\ PeerGone(c, Hub)
  /\ Apply(c)
  /\ UNCHANGED <<notices, pasting, asked, link, deskVars>>

\* Daemon::gone, and Daemon::arrived for a machine that is back before the hub
\* knew that it was gone.
HubLoses(c) ==
  /\ link[c] # "open" /\ c \in peers[Hub]
  /\ link[c] = "cut" => up[c] = <<>>
  /\ PeerGone(Hub, c)
  /\ Apply(Hub)
  /\ UNCHANGED <<notices, pasting, asked, link, deskVars>>

\* A message is handled on d, from p.
Handle(d, p, m) ==
  \/ m.type = "Offer"       /\ OfferArrived(d, p, m.seq, m.formats)
  \/ m.type = "Request"     /\ RequestArrived(d, p, m.key, m.offset)
  \/ m.type = "Chunk"       /\ ChunkArrived(d, p, m.key, m.offset, m.data, m.last)
  \/ m.type = "Unavailable" /\ UnavailableArrived(d, p, m.key)

\* The hub hears a client.
HubHears(c) ==
  /\ c \in peers[Hub] /\ link[c] # "knocking"
  /\ up[c] # <<>>
  /\ Handle(Hub, c, Head(up[c]))
  /\ ApplyHere(Hub)
  /\ up' = [up EXCEPT ![c] = Tail(@)]
  /\ downward' = [e \in Clients |->
       IF link[e] = "open" /\ e \in peers[Hub] THEN downward[e] \o Sent(e)
                                               ELSE downward[e]]
  /\ UNCHANGED <<notices, pasting, asked, link, deskVars>>

\* A client hears the hub.
ClientHears(c) ==
  /\ Hub \in peers[c]
  /\ downward[c] # <<>>
  /\ Handle(c, Hub, Head(downward[c]))
  /\ ApplyHere(c)
  /\ downward' = [downward EXCEPT ![c] = Tail(@)]
  /\ up' = IF link[c] = "cut" THEN up ELSE [up EXCEPT ![c] = @ \o Sent(Hub)]
  /\ UNCHANGED <<notices, pasting, asked, link, deskVars>>

\* A client's daemon ends and is started again.  What it offered on its
\* machine's clipboard goes with it, and its pastes fail.
Restart(c) ==
  /\ Fails
  /\ link[c] # "knocking"
  /\ Forgotten(c)
  /\ link' = [link EXCEPT ![c] = "cut"]
  /\ downward' = [downward EXCEPT ![c] = <<>>]
  /\ board' = IF HoldsOffer(c) THEN [board EXCEPT ![c] = None] ELSE board
  /\ notices' = [notices EXCEPT ![c] = <<>>]
  /\ reads' = [reads EXCEPT ![c] = {}]
  /\ pasting' = [pasting EXCEPT ![c] = {}]
  /\ answers' = [t \in DOMAIN answers \cup {u \in DOMAIN asked : asked[u].at = c} |->
                   IF t \in DOMAIN answers THEN answers[t] ELSE None]
  /\ UNCHANGED <<asked, up, made, named>>

\* Daemon::reload_config: sharing is turned on or off, or other formats
\* are allowed.
Reconfigure(on, fs) ==
  /\ <<on, fs>> # <<enabled[Hub], allowed[Hub]>>
  /\ Fails
  /\ Configure(Hub, on, fs)
  /\ UNCHANGED <<boardVars, linkVars, made, named>>

-----------------------------------------------------------------------------
\* What a machine's daemon and its reader threads do.
Own(d) == \/ \E soon \in BOOLEAN : Notice(d, soon)
          \/ Want(d) \/ Read(d) \/ ReadEnds(d)
Serves == Own(Hub) \/ \E c \in Clients : TakeIn(c) \/ HubLoses(c) \/ HubHears(c)
Follows(c) == Own(c) \/ ClientLoses(c) \/ ClientHears(c)

\* An empty list of formats does what turning sharing off does.
Next ==
  \/ Serves
  \/ \E c \in Clients : Follows(c) \/ Connect(c) \/ Cut(c) \/ Restart(c)
  \/ \E d \in Devices :
       \/ \E fs \in (SUBSET Formats) \ {{}} : Copy(d, fs)
       \/ \E f \in Formats : Paste(d, f)
  \/ \E on \in BOOLEAN, fs \in (SUBSET Formats) \ {{}} : Reconfigure(on, fs)

\* The daemons' loops and their reader threads run.  Nobody is obliged to
\* copy or paste, no link to fail, and no machine to connect.
Fairness == WF_vars(Serves) /\ \A c \in Clients : WF_vars(Follows(c))

Spec == Init /\ [][Next]_vars /\ Fairness

-----------------------------------------------------------------------------
(* Properties.                                                             *)

Given == {t \in DOMAIN answers : answers[t] # None}

\* What is pasted from an offer is the whole of one copy, the one announced
\* under its name or a later one of the same machine, however the pieces
\* travelled and whatever was copied, cut or replaced meanwhile: as long as a
\* name is given once.
PastesWhatWasCopied ==
  \A t \in Given :
    LET s == asked[t].seq
    IN Cardinality(named[s]) = 1
         => \E n \in Copies, m \in named[s] :
              answers[t] = Contents(n) /\ n >= m /\ made[n] = s.device

Unanswered(t) == /\ t \in DOMAIN asked \ DOMAIN answers
                 /\ InSession(asked[t].at)

\* A paste on a machine that stays in touch is always answered, with contents
\* or with a failure: whoever waits is remembered through replaced offers, lost
\* machines and relayed fetches.  Pastes are few, so time and again none waits.
EveryPasteEnds ==
  []<>(\A t \in 1 .. MaxEvents : ~Unanswered(t))

\* As long as people copy one at a time and no link fails, a copy comes to be
\* what every machine offers to paste.
CopiesSpread ==
  calm /\ Quiet /\ made # <<>>
    => LET d == made[Len(made)]
       IN /\ local[d] # {}
          /\ \A e \in Devices \ {d} : RemoteSeqs(e) = LocalSeqs(d)

-----------------------------------------------------------------------------
(* What the documentation says and the code does not do.                   *)

\* "Nothing is ever dropped for being out of sequence -- a stale offer simply
\* loses to a newer one, which avoids the failure where a clipboard update
\* vanishes after a reconnect."  (smkvm-proto/src/msg.rs:194)
\* Once everything has been said, some machine still offers its own copy.
NothingVanishes ==
  Quiet /\ made # <<>> => \E d \in Devices : local[d] # {}

\* "Nothing resynchronises a stream that has lost a piece, so the fetch is
\* given up rather than delivered wrong."  (smkvm-core/src/exchange.rs:580)
\* What is pasted is never put together from two copies.
PastedWhole ==
  \A t \in Given : \E n \in Copies : answers[t] = Contents(n)
=============================================================================
