------------------------------- MODULE Files -------------------------------
(***************************************************************************)
(* Files pasted from another machine: the file side of Sharing             *)
(* (crates/smkvm-cli/src/clipboard.rs) and what it reads from and writes   *)
(* to the disk (crates/smkvm-cli/src/transfer.rs), over Transfer, on the   *)
(* hub and its clients, and the links between them.                        *)
(*                                                                         *)
(* A copy is a list of files, each some pieces long; a folder and an empty *)
(* file both need none.  A manifest is carried by the clipboard exchange   *)
(* (module Clipboard): here any announced one may be pasted at any time.   *)
(***************************************************************************)
EXTENDS Transfer

CONSTANTS
  Copies,       \* what may be copied: for each copy, the pieces of its files
  MaxPieces,    \* transfer.max_bytes, in pieces
  Kept,         \* OFFERED_KEPT
  Shared,       \* whether two machines may pull the same copy at once
  MaxPastes,    \* bound: how many pastes
  MaxFailures,  \* bound: how often something goes wrong
  None

Clients == Devices \ {Hub}

ASSUME CopiesAssumption == Copies \in Seq(Seq(Nat))
ASSUME BoundsAssumption ==
  {MaxPieces, Kept, MaxPastes, MaxFailures} \subseteq Nat

\* TransferId, and what a machine keeps of the paste it is pulling for.
Ids      == [device : Devices, counter : Nat]
Incoming == [ticket : Nat, id : Ids, said : Seq(Nat), index : Nat, writing : BOOLEAN]

ASSUME NoneAssumption == None \notin Incoming

VARIABLES
  tr,        \* each machine's Transfer
  offered,   \* the copies a machine serves: [id, copy], oldest first
  counter,   \* next_transfer, on each machine
  pulls,     \* pastes of files not looked at yet
  incoming,  \* what a machine is pulling: one or None
  disk,      \* what landed for a paste: <<paste, file>> -> pieces
  enabled,   \* transfer.enabled, on the hub
  answers,   \* what pastes were told: "landed" or "failed"
  link,      \* the link of each client: "open", "cut" or "knocking"
  up, downward,  \* what is on it
  \* what happened, for the properties:
  announced, \* the copies announced so far: [id, copy]
  pasted,    \* the pastes so far: [at, id, copy]
  sizes,     \* how long each file of each copy is now
  orphans,   \* files that were being written when a daemon was killed
  failures   \* how often something went wrong

sharing == <<tr, incoming, disk, answers>>
links   == <<link, up, downward>>
vars == <<sharing, links, offered, counter, pulls, enabled, announced, pasted,
          sizes, orphans, failures>>

Owner(n) == (CHOOSE a \in announced : a.copy = n).id.device

-----------------------------------------------------------------------------
(* A turn of the loop of machine d ends in one of the three ways below,    *)
(* with the machine's Transfer t after it and what it said to others, put  *)
(* on the links beside what was left there: q.                             *)

Queues == [up |-> up, down |-> downward]

\* What of it is for p, in the order it was said in.
Said(out, p) ==
  LET to == {i \in DOMAIN out : out[i].type # "Failed" /\ out[i].to = p}
  IN [j \in 1 .. Cardinality(to) |->
        out[CHOOSE i \in to : Cardinality({h \in to : h <= i}) = j]]

Ends(d, t, said, q) == \E out \in {said} :
  /\ tr' = [tr EXCEPT ![d] = t]
  /\ up' = IF d \in Clients /\ link[d] # "cut"
             THEN [q.up EXCEPT ![d] = @ \o Said(out, Hub)] ELSE q.up
  /\ downward' = [c \in Clients |->
       IF d = Hub /\ link[c] = "open" /\ c \in tr'[Hub].peers
         THEN q.down[c] \o Said(out, c) ELSE q.down[c]]

\* Nothing changes about what is being pulled.
Passes(d, t, out, q) ==
  /\ Ends(d, t, out, q)
  /\ UNCHANGED <<incoming, disk, answers>>

\* The pull inc goes on, with these files on the disk.
Goes(d, t, inc, dsk, out, q) ==
  /\ Ends(d, t, out, q)
  /\ incoming' = [incoming EXCEPT ![d] = inc]
  /\ disk' = dsk
  /\ UNCHANGED answers

Told(n, result) ==
  answers' = IF n \in DOMAIN answers THEN answers ELSE With(answers, n, result)

Slot(inc) == <<inc.ticket, inc.index>>

\* finish_pull: the pull is over, and nothing half written is left.
Finish(d, t, inc, dsk, result, out, q) ==
  /\ Ends(d, t, out, q)
  /\ incoming' = [incoming EXCEPT ![d] = None]
  /\ disk' = IF inc.writing THEN Without(dsk, {Slot(inc)}) ELSE dsk
  /\ Told(inc.ticket, result)

\* fail_pull.
Fail(d, t, inc, dsk, q) ==
  Finish(d, Dropped(t, {inc.id}), inc, dsk, "failed", <<>>, q)

-----------------------------------------------------------------------------
\* Ask for the next piece of the file being written.
Want(d, t, inc, dsk, at, q) ==
  LET r == Pull(d, t, Piece(inc.id, inc.index, at))
  IN IF SourceOf(d, t, inc.id) # {}
       THEN Goes(d, r.t, inc, dsk, r.out, q)
       ELSE Finish(d, r.t, inc, dsk, "failed", <<>>, q)

\* The first file from the i-th on that needs bytes.
FirstLong(said, i) ==
  CHOOSE n \in i .. Len(said) + 1 : /\ \A m \in i .. n - 1 : said[m] = 0
                                    /\ n <= Len(said) => said[n] > 0

\* advance_pull, from file i on: folders and empty files are made, and the
\* next file begun.  Where ok is false the disk does not let them be made.
Advance(d, t, inc, i, dsk, ok, q) ==
  LET n    == FirstLong(inc.said, i)
      made == {<<inc.ticket, m>> : m \in i .. Min({n, Len(inc.said)})}
      now  == [x \in DOMAIN dsk \cup made |-> IF x \in made THEN <<>> ELSE dsk[x]]
      rest == [inc EXCEPT !.writing = FALSE]
  IN \/ ~ok /\ Fail(d, t, rest, dsk, q)
     \/ ok /\ n > Len(inc.said) /\ Finish(d, t, rest, now, "landed", <<>>, q)
     \/ ok /\ n <= Len(inc.said)
        /\ Want(d, t, [inc EXCEPT !.index = n, !.writing = TRUE], now, 0, q)

\* begin_pull: one set of files at a time, of no more than the limit.
Refused(d, said) ==
  \/ d = Hub /\ ~enabled
  \/ incoming[d] # None
  \/ said = <<>> \/ FoldSeq(LAMBDA x, y : x + y, 0, said) > MaxPieces

BeginPull(d, pull, ok) ==
  LET said == Copies[pull.copy]
  IN \/ /\ Refused(d, said)
        /\ Told(pull.ticket, "failed")
        /\ UNCHANGED <<tr, incoming, disk, up, downward>>
     \/ /\ ~Refused(d, said)
        /\ Advance(d, tr[d], [ticket |-> pull.ticket, id |-> pull.id, said |-> said,
                              index |-> 1, writing |-> FALSE], 1, disk, ok, Queues)

WrongSizeNever(all, said, last) == FALSE   \* mutant: the size is not looked at

\* A file that arrives larger or shorter than it was said to be.
WrongSize(all, said, last) == Len(all) > said \/ (last /\ Len(all) # said)

\* piece_arrived: a piece begins where the last one ended.
PieceArrived(d, t, m, ok, q) ==
  LET inc == incoming[d]
      all == disk[Slot(inc)] \o m.data
      dsk == [disk EXCEPT ![Slot(inc)] = all]
  IN IF ~(inc # None /\ inc.id = m.key.id /\ inc.index = m.key.index /\ inc.writing)
       THEN Passes(d, t, <<>>, q)
     ELSE IF ~ok \/ m.key.at # Len(disk[Slot(inc)])
             \/ WrongSize(all, inc.said[inc.index], m.last)
       THEN Fail(d, t, inc, dsk, q)
     ELSE IF ~m.last THEN Want(d, t, inc, dsk, Len(all), q)
     ELSE Advance(d, t, inc, inc.index + 1, dsk, TRUE, q)

\* piece_of and read_piece: the file as it is now, while its copy is served.
PieceOf(d, to, k) ==
  LET found == {i \in DOMAIN offered[d] : offered[d][i].id = k.id}
      copy  == offered[d][CHOOSE i \in found : TRUE].copy
      size  == sizes[copy][k.index]
  IN IF found = {} THEN Abort(to, k.id)
     ELSE IF k.index \notin DOMAIN sizes[copy] THEN Abort(to, k.id)
     ELSE IF k.at > size THEN Abort(to, k.id)
     ELSE Chunk(to, k, IF k.at = size THEN <<>> ELSE <<<<copy, k.index, k.at + 1>>>>,
                k.at + 1 >= size)

\* apply_transfer.
Apply(d, r, ok, q) ==
  LET first == Head(r.out)
  IN IF r.out # <<>> /\ first.type = "ReadFile"
       THEN Passes(d, r.t, <<PieceOf(d, first.to, first.key)>>, q)
     ELSE IF r.out # <<>> /\ first.type = "Chunk"
       THEN PieceArrived(d, r.t, first, ok, q)
     ELSE IF incoming[d] # None /\ \E o \in Range(r.out) : o = Failed(incoming[d].id)
       THEN Finish(d, r.t, incoming[d], disk, "failed", r.out, q)
     ELSE Passes(d, r.t, r.out, q)

-----------------------------------------------------------------------------
Init ==
  /\ tr = [d \in Devices |-> NoTransfer]
  /\ offered = [d \in Devices |-> <<>>]
  /\ counter = [d \in Devices |-> 1]
  /\ pulls = [d \in Devices |-> <<>>]
  /\ incoming = [d \in Devices |-> None]
  /\ disk = <<>>
  /\ enabled = TRUE
  /\ answers = <<>>
  /\ link = [c \in Clients |-> "cut"]
  /\ up = [c \in Clients |-> <<>>]
  /\ downward = [c \in Clients |-> <<>>]
  /\ announced = {}
  /\ pasted = <<>>
  /\ sizes = Copies
  /\ orphans = {}
  /\ failures = 0

\* manifest_for: the copy is named and served from now on, and the oldest one
\* no longer if there are too many.
Announce(d) ==
  /\ Cardinality(announced) < Len(Copies)
  /\ LET new  == [id |-> [device |-> d, counter |-> counter[d]],
                  copy |-> Cardinality(announced) + 1]
         kept == Append(offered[d], new)
     IN /\ announced' = announced \cup {new}
        /\ offered' = [offered EXCEPT ![d] =
             IF Len(kept) > Kept THEN Tail(kept) ELSE kept]
  /\ counter' = [counter EXCEPT ![d] = @ + 1]
  /\ UNCHANGED <<sharing, links, pulls, enabled, pasted, sizes, orphans, failures>>

Wanting(d, id) == \/ incoming[d] # None /\ incoming[d].id = id
                  \/ \E p \in Range(pulls[d]) : p.id = id

\* RemoteFetch::fetch: something on d pastes the files of a manifest.
Paste(d) ==
  /\ Len(pasted) < MaxPastes
  /\ \E a \in announced :
       /\ a.id.device # d
       /\ Shared \/ \A e \in Devices \ {d} : ~Wanting(e, a.id)
       /\ pasted' = Append(pasted, [at |-> d, id |-> a.id, copy |-> a.copy])
       /\ pulls' = [pulls EXCEPT ![d] = Append(@,
            [ticket |-> Len(pasted'), id |-> a.id, copy |-> a.copy])]
  /\ UNCHANGED <<sharing, links, offered, counter, enabled, announced, sizes, orphans, failures>>

\* Something goes wrong, as often as the bounds let it.
Fails == failures < MaxFailures /\ failures' = failures + 1

Troubled(ok) == IF ok THEN UNCHANGED failures ELSE Fails

\* FILES_PATIENCE runs out: the application is told, the pull goes on.
GiveUp(n) ==
  /\ Fails
  /\ n \in DOMAIN pasted \ DOMAIN answers
  /\ answers' = With(answers, n, "failed")
  /\ UNCHANGED <<tr, incoming, disk, links, offered, counter, pulls, enabled,
                 announced, pasted, sizes, orphans>>

InSession(d) == d = Hub \/ Hub \in tr[d].peers

\* Happened::PullFiles.
PullFiles(d, ok) ==
  /\ InSession(d) /\ pulls[d] # <<>>
  /\ pulls' = [pulls EXCEPT ![d] = Tail(@)]
  /\ BeginPull(d, Head(pulls[d]), ok)
  /\ Troubled(ok)
  /\ UNCHANGED <<link, offered, counter, enabled, announced, pasted, sizes, orphans>>

-----------------------------------------------------------------------------
(* Links.                                                                  *)

Elsewhere == <<offered, counter, pulls, enabled, announced, pasted, sizes, orphans>>

\* session: the client connects.
Connect(c) ==
  /\ link[c] = "cut" /\ Hub \notin tr[c].peers
  /\ tr' = [tr EXCEPT ![c] = PeerUp(@, Hub)]
  /\ link' = [link EXCEPT ![c] = "knocking"]
  /\ up' = [up EXCEPT ![c] = <<>>]
  /\ downward' = [downward EXCEPT ![c] = <<>>]
  /\ UNCHANGED <<incoming, disk, answers, Elsewhere, failures>>

\* Daemon::arrived: an old link of the machine's is let go of first.
TakeIn(c) ==
  /\ link[c] = "knocking"
  /\ LET gone == PeerGone(tr[Hub], c)
     IN Apply(Hub, [gone EXCEPT !.t = PeerUp(@, c)], TRUE, Queues)
  /\ link' = [link EXCEPT ![c] = "open"]
  /\ UNCHANGED <<Elsewhere, failures>>

\* The network fails: some of what was sent either way never arrives.
Cut(c) ==
  /\ Fails
  /\ link[c] = "open"
  /\ link' = [link EXCEPT ![c] = "cut"]
  /\ \E n \in 0 .. Len(downward[c]), m \in 0 .. Len(up[c]) :
       /\ downward' = [downward EXCEPT ![c] = SubSeq(@, 1, n)]
       /\ up' = [up EXCEPT ![c] = SubSeq(@, 1, m)]
  /\ UNCHANGED <<sharing, Elsewhere>>

\* The client has read all there was and finds the link gone.
ClientLoses(c) ==
  /\ link[c] = "cut" /\ downward[c] = <<>> /\ Hub \in tr[c].peers
  /\ Apply(c, PeerGone(tr[c], Hub), TRUE, Queues)
  /\ UNCHANGED <<link, Elsewhere, failures>>

\* Daemon::gone.
HubLoses(c) ==
  /\ link[c] = "cut" /\ up[c] = <<>> /\ c \in tr[Hub].peers
  /\ Apply(Hub, PeerGone(tr[Hub], c), TRUE, Queues)
  /\ UNCHANGED <<link, Elsewhere, failures>>

\* Sharing::peer_said.
HubHears(c, ok) ==
  /\ c \in tr[Hub].peers /\ link[c] # "knocking" /\ up[c] # <<>>
  /\ Apply(Hub, PeerSaid(Hub, tr[Hub], c, Head(up[c])), ok,
           [Queues EXCEPT !.up[c] = Tail(@)])
  /\ Troubled(ok)
  /\ UNCHANGED <<link, Elsewhere>>

ClientHears(c, ok) ==
  /\ Hub \in tr[c].peers /\ downward[c] # <<>>
  /\ Apply(c, PeerSaid(c, tr[c], Hub, Head(downward[c])), ok,
           [Queues EXCEPT !.down[c] = Tail(@)])
  /\ Troubled(ok)
  /\ UNCHANGED <<link, Elsewhere>>

-----------------------------------------------------------------------------
(* What else happens.                                                      *)

\* Whoever copied a file goes on writing to it, or makes it shorter.
Edit(n, i) ==
  /\ Fails
  /\ \E size \in 0 .. Copies[n][i] + 1 :
       /\ size # sizes[n][i]
       /\ sizes' = [sizes EXCEPT ![n][i] = size]
  /\ UNCHANGED <<sharing, links, offered, counter, pulls, enabled, announced, pasted,
                 orphans>>

\* A client's daemon is started again: its pastes fail, nothing is served, and
\* its transfers are numbered from one again.
Restart(c) ==
  /\ Fails
  /\ link[c] # "knocking"
  /\ tr' = [tr EXCEPT ![c] = NoTransfer]
  /\ incoming' = [incoming EXCEPT ![c] = None]
  /\ offered' = [offered EXCEPT ![c] = <<>>]
  /\ counter' = [counter EXCEPT ![c] = 1]
  /\ pulls' = [pulls EXCEPT ![c] = <<>>]
  /\ answers' = [n \in DOMAIN answers \cup {m \in DOMAIN pasted : pasted[m].at = c} |->
                   IF n \in DOMAIN answers THEN answers[n] ELSE "failed"]
  /\ link' = [link EXCEPT ![c] = "cut"]
  /\ downward' = [downward EXCEPT ![c] = <<>>]
  /\ orphans' = IF incoming[c] # None /\ incoming[c].writing
                  THEN orphans \cup {Slot(incoming[c])} ELSE orphans
  /\ UNCHANGED <<disk, up, enabled, announced, pasted, sizes>>

\* Daemon::reload_config turns files off or on.
Reconfigure ==
  /\ Fails
  /\ enabled' = ~enabled
  /\ UNCHANGED <<sharing, links, offered, counter, pulls, announced, pasted, sizes, orphans>>

Serves == PullFiles(Hub, TRUE) \/ \E c \in Clients : TakeIn(c) \/ HubLoses(c) \/ HubHears(c, TRUE)
Follows(c) == PullFiles(c, TRUE) \/ ClientLoses(c) \/ ClientHears(c, TRUE)

Next ==
  \/ Serves \/ PullFiles(Hub, FALSE) \/ Reconfigure
  \/ \E d \in Devices : Announce(d) \/ Paste(d)
  \/ \E c \in Clients : \/ Follows(c) \/ Connect(c) \/ Cut(c) \/ Restart(c)
                        \/ HubHears(c, FALSE) \/ PullFiles(c, FALSE)
                        \/ ClientHears(c, FALSE)
  \/ \E n \in DOMAIN pasted : GiveUp(n)
  \/ \E a \in announced : \E i \in DOMAIN Copies[a.copy] : Edit(a.copy, i)

\* The daemons' loops run.  Nobody is obliged to copy, to paste or to connect,
\* and nothing has to go wrong.
Fairness == WF_vars(Serves) /\ \A c \in Clients : WF_vars(Follows(c))

Spec == Init /\ [][Next]_vars /\ Fairness

-----------------------------------------------------------------------------
(* Properties.                                                             *)

Whole(n, i) == [j \in 1 .. Copies[n][i] |-> <<n, i, j>>]

NamedOnce(id) == Cardinality({a \in announced : a.id = id}) = 1

\* A paste that is told its files have landed finds every one of them, each the
\* pieces of the file that was copied, in order and of the length announced,
\* whatever was cut, relayed, refused, edited or asked for twice meanwhile: as
\* long as the transfer's number is given once.
LandedWhole ==
  \A n \in DOMAIN answers :
    answers[n] = "landed" /\ NamedOnce(pasted[n].id)
      => \A i \in DOMAIN Copies[pasted[n].copy] :
           <<n, i>> \in DOMAIN disk /\ disk[<<n, i>>] = Whole(pasted[n].copy, i)

\* "Whatever was half written is not left looking like a file."
\* (clipboard.rs, finish_pull)  What is on a disk and not being written now is
\* as long as was announced, however its pull ended; unless the daemon itself
\* was killed while writing.
NoHalfFiles ==
  \A x \in DOMAIN disk :
    \/ Len(disk[x]) = Copies[pasted[x[1]].copy][x[2]]
    \/ \E d \in Devices : incoming[d] # None /\ incoming[d].writing /\ Slot(incoming[d]) = x
    \/ x \in orphans

\* A file that has landed is the one that was copied, every piece of it and in
\* order, and nothing half written is left of one that has not: through relays that
\* come and go, pieces that cross with the news of a machine that left, and disks
\* that fail (core/transfer.rs, cli/clipboard.rs).
WholeOrNothing == LandedWhole /\ NoHalfFiles

\* A machine that pulls is not busy for ever, so that its next paste has a
\* chance: every pull ends, whatever fails on the way.
PullsEnd == \A d \in Devices : []<>(incoming[d] = None)

-----------------------------------------------------------------------------
(* What the documentation says and the code does not do.                   *)

\* "Requests passed on for another machine, remembered so the chunk that
\* answers each can be passed back to the one that asked."
\* (smkvm-core/src/transfer.rs:72)  A piece a client waits for is on its way,
\* or will come back through the hub's memory of who asked.
AskersAreRemembered ==
  \A c \in Clients : \A k \in tr[c].awaiting :
    \/ \E m \in Range(up[c]) : m.type = "FileRequest" /\ m.key = k
    \/ \E m \in Range(downward[c]) : \/ m.type = "FileChunk" /\ m.key = k
                                     \/ m.type = "FileAbort" /\ m.id = k.id
    \/ k \in DOMAIN tr[Hub].relays /\ tr[Hub].relays[k] = c
    \/ link[c] = "cut" \/ k.id.device = Hub
=============================================================================
