------------------------------ MODULE Transfer ------------------------------
(***************************************************************************)
(* Passing requests for files on, and pieces of them back:                 *)
(* crates/smkvm-core/src/transfer.rs, the same on every machine.           *)
(*                                                                         *)
(* A machine's part is a record t:                                         *)
(*   peers    the machines with a link                                     *)
(*   relays   requests passed on, with who asked                           *)
(*   pulling  transfers being pulled, with where each comes from           *)
(*   awaiting the pieces outstanding on them                               *)
(* An operation gives the record after it and what is to be done.          *)
(***************************************************************************)
EXTENDS Naturals, Sequences, FiniteSets, Functions, SequencesExt

CONSTANTS
  Hub,      \* the server; every other machine talks to it only
  Devices   \* all machines

ASSUME HubAssumption == Hub \in Devices

\* A request: piece `at` of file `index` of transfer `id`.
Piece(id, index, at) == [id |-> id, index |-> index, at |-> at]

Request(to, k)      == [to |-> to, type |-> "FileRequest", key |-> k]
Chunk(to, k, d, end) == [to |-> to, type |-> "FileChunk", key |-> k,
                         data |-> d, last |-> end]
Abort(to, id)       == [to |-> to, type |-> "FileAbort", id |-> id]

ReadFile(to, k)   == [type |-> "ReadFile", to |-> to, key |-> k]
Arrived(k, d, end) == [type |-> "Chunk", key |-> k, data |-> d, last |-> end]
Failed(id)        == [type |-> "Failed", id |-> id]

NoTransfer == [peers |-> {}, relays |-> <<>>, pulling |-> <<>>, awaiting |-> {}]

Done(t, out) == [t |-> t, out |-> out]

Without(f, ks) == Restrict(f, DOMAIN f \ ks)
With(f, k, v)  == [x \in DOMAIN f \cup {k} |-> IF x = k THEN v ELSE f[x]]

\* Nothing of these transfers is pulled or awaited any longer.
Dropped(t, ids) ==
  [t EXCEPT !.pulling = Without(@, ids), !.awaiting = {k \in @ : k.id \notin ids}]

\* Where a request about this transfer goes from me: to the hub, or from the
\* hub to the machine that has the files, if it is there.
SourceOf(me, t, id) ==
  IF me # Hub THEN {Hub} ELSE {id.device} \cap t.peers

-----------------------------------------------------------------------------
PeerUp(t, p) == [t EXCEPT !.peers = @ \cup {p}]

PullForgets(me, t, k) ==   \* mutant: where it comes from is not noted
  LET from == SourceOf(me, t, k.id)
  IN IF from = {} THEN Done(t, <<Failed(k.id)>>)
     ELSE Done([t EXCEPT !.awaiting = @ \cup {k}], <<Request(CHOOSE s \in from : TRUE, k)>>)

\* Input::Pull: this machine wants a piece.
Pull(me, t, k) ==
  LET from == SourceOf(me, t, k.id)
  IN IF from = {} THEN Done(t, <<Failed(k.id)>>)
     ELSE LET source == CHOOSE s \in from : TRUE
          IN Done([t EXCEPT !.pulling = With(@, k.id, source),
                            !.awaiting = @ \cup {k}],
                  <<Request(source, k)>>)

\* FileRequest: a piece of a file of this machine's, or one to pass on.
RequestArrived(me, t, p, k) ==
  LET on == SourceOf(me, t, k.id) \ {p}
  IN IF k.id.device = me THEN Done(t, <<ReadFile(p, k)>>)
     ELSE IF on # {}
       THEN Done([t EXCEPT !.relays = With(@, k, p)],
                 <<Request(CHOOSE s \in on : TRUE, k)>>)
       ELSE Done(t, <<Abort(p, k.id)>>)

\* FileChunk: for whoever asked through here, or for this machine.
ChunkArrived(t, p, k, data, last) ==
  IF k \in DOMAIN t.relays
    THEN Done([t EXCEPT !.relays = Without(@, {k})],
              <<Chunk(t.relays[k], k, data, last)>>)
    ELSE IF k \in t.awaiting /\ k.id \in DOMAIN t.pulling /\ t.pulling[k.id] = p
      THEN Done([t EXCEPT !.awaiting = @ \ {k}], <<Arrived(k, data, last)>>)
      ELSE Done(t, <<>>)

\* FileAbort: everyone waiting on this transfer through here hears of it.
AbortArrived(t, p, id) ==
  LET asked == {k \in DOMAIN t.relays : k.id = id}
      ours  == id \in DOMAIN t.pulling /\ t.pulling[id] = p
      rest  == [t EXCEPT !.relays = Without(@, asked)]
  IN Done(IF ours THEN Dropped(rest, {id}) ELSE rest,
          SetToSeq({Abort(t.relays[k], id) : k \in asked})
          \o (IF ours THEN <<Failed(id)>> ELSE <<>>))

\* Input::PeerGone: what was asked of it will not be answered, what it asked
\* for is wanted no longer, and what was pulled through it is over.
PeerGone(t, p) ==
  LET orphans == {k \in DOMAIN t.relays : k.id.device = p}
      lost    == {id \in DOMAIN t.pulling : t.pulling[id] = p}
      rest    == [t EXCEPT !.peers = @ \ {p},
                    !.relays = Without(@, {k \in DOMAIN @ : k.id.device = p \/ @[k] = p})]
  IN Done(Dropped(rest, lost),
          SetToSeq({Abort(t.relays[k], k.id) : k \in orphans})
          \o SetToSeq({Failed(id) : id \in lost}))

\* Input::FromPeer.
PeerSaid(me, t, p, m) ==
  CASE m.type = "FileRequest" -> RequestArrived(me, t, p, m.key)
    [] m.type = "FileChunk"   -> ChunkArrived(t, p, m.key, m.data, m.last)
    [] m.type = "FileAbort"   -> AbortArrived(t, p, m.id)
=============================================================================
