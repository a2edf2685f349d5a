------------------------------ MODULE Exchange ------------------------------
(***************************************************************************)
(* Carrying the clipboard between machines:                                *)
(* crates/smkvm-core/src/exchange.rs, the same on every machine.  One      *)
(* action per input of Exchange::handle, for one machine d.                *)
(*                                                                         *)
(* What is abstracted: contents are a sequence of pieces, one to a chunk;  *)
(* the reason a paste fails for is left out; ClipCancel, which every       *)
(* receiver ignores, is not sent; and whoever is waiting is kept in a set, *)
(* since a machine has one request for a format under way at a time.       *)
(***************************************************************************)
EXTENDS Naturals, Sequences, FiniteSets, Functions, SequencesExt

CONSTANTS
  Devices,   \* the machines that exchange
  Formats,   \* the formats this build knows
  MaxBytes,  \* Exchange::max_bytes, in pieces
  MaxCopies, \* bound: how often a machine's clipboard may be announced
  None       \* what a read that failed or a refused paste gives

ASSUME LimitAssumption == MaxBytes \in Nat /\ MaxCopies \in Nat

VARIABLES
  peers,     \* the machines with a link that carries clipboard traffic
  counter,   \* how many copies were announced here
  enabled,   \* whether sharing is on
  allowed,   \* the formats the configuration allows
  local,     \* the offer this machine's own clipboard makes: one or none
  remote,    \* the offer from elsewhere its clipboard holds: one or none
  cache,     \* contents that can be served straight away
  reading,   \* formats being read from this machine's clipboard
  fetching,  \* contents on their way from another machine
  waiting,   \* who is waiting for what
  out        \* what the last step returned

exchangeVars == <<peers, counter, enabled, allowed, local, remote, cache,
                  reading, fetching, waiting, out>>

\* ClipSeq: a copy is named by the machine it was made on and its number there.
Seqs == [device : Devices, counter : Nat]
Keyed == [seq : Seqs, format : Formats]

-----------------------------------------------------------------------------
(* What is asked of the others and of this machine.  An output to the      *)
(* machine itself is for its own clipboard and whoever is pasting here.    *)

Offer(to, s, fs)   == [to |-> to, type |-> "Offer", seq |-> s, formats |-> fs]
Request(to, k, n)  == [to |-> to, type |-> "Request", key |-> k, offset |-> n]
Refuse(to, k)      == [to |-> to, type |-> "Unavailable", key |-> k]
PlaceHere(d, s, fs) == [to |-> d, type |-> "OfferLocally", seq |-> s, formats |-> fs]
ReleaseHere(d)     == [to |-> d, type |-> "ReleaseLocally"]
ReadHere(d, k)     == [to |-> d, type |-> "ReadLocal", key |-> k]
Answered(d, t, data) == [to |-> d, type |-> "Deliver", ticket |-> t, data |-> data]

ChunkSkipsOne(to, k, data, n) ==   \* mutant: the first piece is left out
  LET start == Min({n + 1, Len(data)})
      end   == Min({start + 1, Len(data)})
  IN [to |-> to, type |-> "Chunk", key |-> k, offset |-> Min({n, Len(data)}),
      data |-> SubSeq(data, start + 1, end), last |-> end = Len(data)]

\* The one chunk that answers a request for the contents from the n-th on.
Chunk(to, k, data, n) ==
  LET start == Min({n, Len(data)})
      end   == Min({start + 1, Len(data)})
  IN [to |-> to, type |-> "Chunk", key |-> k, offset |-> start,
      data |-> SubSeq(data, start + 1, end), last |-> end = Len(data)]

\* A relay waits for the piece at an offset; a paste on this machine waits as
\* the machine itself, with its ticket.
Waits(k, who, n) == [key |-> k, who |-> who, at |-> n]

Served(d, ws, data) ==
  SetToSeq({IF w.who = d THEN Answered(d, w.at, data)
                         ELSE Chunk(w.who, w.key, data, w.at) : w \in ws})
Failed(d, ws) ==
  SetToSeq({IF w.who = d THEN Answered(d, w.at, None)
                         ELSE Refuse(w.who, w.key) : w \in ws})

-----------------------------------------------------------------------------
(* What a machine has.                                                     *)

LocalSeqs(d)  == {o.seq : o \in local[d]}
RemoteSeqs(d) == {o.seq : o \in remote[d]}

\* Exchange::current_offer.
Offered(d) == IF local[d] # {} THEN local[d] ELSE remote[d]

Ours(d, k) == \E o \in local[d] : k.seq = o.seq /\ k.format \in o.formats
Held(d, k) == \E o \in remote[d] : k.seq = o.seq /\ k.format \in o.formats
HeldFrom(d, p) == {o \in remote[d] : o.from = p}
Owner(d) == (CHOOSE o \in remote[d] : TRUE).from

Without(f, ks) == Restrict(f, DOMAIN f \ ks)
With(f, k, v)  == [x \in DOMAIN f \cup {k} |-> IF x = k THEN v ELSE f[x]]

WaitingOn(d, k) == {w \in waiting[d] : w.key = k}

\* Exchange::forget: nothing about these offers is asked for or answered again.
Forget(d, ss) ==
  /\ cache' = [cache EXCEPT ![d] = Without(@, {k \in DOMAIN @ : k.seq \in ss})]
  /\ reading' = [reading EXCEPT ![d] = {k \in @ : k.seq \notin ss}]
  /\ fetching' = [fetching EXCEPT ![d] =
                    Without(@, {k \in DOMAIN @ : k.seq \in ss})]
  /\ waiting' = [waiting EXCEPT ![d] = {w \in @ : w.key.seq \notin ss}]

StaleUntold(d, ss) == <<>>   \* mutant: they are forgotten without a word

\* What Forget has to say to whoever was waiting.
Stale(d, ss) == Failed(d, {w \in waiting[d] : w.key.seq \in ss})

ToPeersOwn(d, but, s, fs) ==   \* mutant: another's offer is not passed on
  IF but = {} THEN SetToSeq({Offer(p, s, fs) : p \in peers[d]}) ELSE <<>>

ToPeers(d, but, s, fs) == SetToSeq({Offer(p, s, fs) : p \in peers[d] \ but})

\* A new offer takes the place of whatever was made or held here.
Now(d, mine, theirs) ==
  /\ local' = [local EXCEPT ![d] = mine]
  /\ remote' = [remote EXCEPT ![d] = theirs]

-----------------------------------------------------------------------------
NoExchange ==
  /\ peers = [d \in Devices |-> {}]
  /\ counter = [d \in Devices |-> 0]
  /\ enabled = [d \in Devices |-> TRUE]
  /\ allowed = [d \in Devices |-> Formats]
  /\ local = [d \in Devices |-> {}]
  /\ remote = [d \in Devices |-> {}]
  /\ cache = [d \in Devices |-> <<>>]
  /\ reading = [d \in Devices |-> {}]
  /\ fetching = [d \in Devices |-> <<>>]
  /\ waiting = [d \in Devices |-> {}]
  /\ out = <<>>

\* Input::PeerUp: a machine arriving gets what is on the clipboard now.
PeerUp(d, p) ==
  /\ peers' = [peers EXCEPT ![d] = @ \cup {p}]
  /\ out' = IF enabled[d] /\ HeldFrom(d, p) = {}
              THEN SetToSeq({Offer(p, o.seq, o.formats) : o \in Offered(d)})
              ELSE <<>>
  /\ UNCHANGED <<counter, enabled, allowed, local, remote, cache, reading,
                 fetching, waiting>>

\* What cannot be had any more once a machine is gone.
Outdated(d, p) == HeldFrom(d, p)

\* Input::PeerGone: fetches from that machine fail, nobody relays to it, and
\* an offer held from it is given up.
PeerGone(d, p) ==
  LET lost == {k \in DOMAIN fetching[d] : fetching[d][k].from = p}
      past == {o.seq : o \in Outdated(d, p)}
      over == {w \in waiting[d] : w.key \in lost \/ w.key.seq \in past}
  IN /\ peers' = [peers EXCEPT ![d] = @ \ {p}]
     /\ remote' = [remote EXCEPT ![d] = @ \ Outdated(d, p)]
     /\ cache' = [cache EXCEPT ![d] =
                    Without(@, {k \in DOMAIN @ : k.seq \in past})]
     /\ reading' = [reading EXCEPT ![d] = {k \in @ : k.seq \notin past}]
     /\ fetching' = [fetching EXCEPT ![d] =
                       Without(@, {k \in DOMAIN @ : k \in lost \/ k.seq \in past})]
     /\ waiting' = [waiting EXCEPT ![d] = {w \in @ \ over : w.who # p}]
     /\ out' = Failed(d, {w \in over : w.who # p})
               \o (IF past = {} THEN <<>> ELSE <<ReleaseHere(d)>>)
     /\ UNCHANGED <<counter, enabled, allowed, local>>

\* A notice that is this machine's own offer coming back round: it comes soon
\* after the offer was placed (within ECHO_WINDOW) and is of nothing it lacks.
Echo(d, fs, soon) ==
  soon /\ \E o \in remote[d] : fs \subseteq o.formats

\* Input::LocalChanged: something was copied on this machine.
LocalChanged(d, formats, soon) ==
  LET fs == formats \cap allowed[d]
      s  == [device |-> d, counter |-> counter[d] + 1]
      past == LocalSeqs(d) \cup RemoteSeqs(d)
  IN \/ /\ enabled[d] /\ fs # {} /\ ~Echo(d, fs, soon)
        /\ counter[d] < MaxCopies
        /\ counter' = [counter EXCEPT ![d] = @ + 1]
        /\ Forget(d, past)
        /\ Now(d, {[seq |-> s, formats |-> fs]}, {})
        /\ out' = Stale(d, past) \o ToPeers(d, {}, s, fs)
        /\ UNCHANGED <<peers, enabled, allowed>>
     \/ /\ ~enabled[d] \/ fs = {} \/ Echo(d, fs, soon)
        /\ out' = <<>>
        /\ UNCHANGED <<peers, counter, enabled, allowed, local, remote, cache,
                       reading, fetching, waiting>>

-----------------------------------------------------------------------------
(* Input::FromPeer, one action for each message.                           *)

\* ClipOffer: whatever was offered or held here is superseded, and the hub
\* passes the offer on.
OfferArrived(d, p, s, formats) ==
  LET fs == formats \cap allowed[d]
      past == LocalSeqs(d) \cup (RemoteSeqs(d) \ {s})
  IN /\ \/ /\ enabled[d] /\ fs # {}
           /\ Forget(d, past)
           /\ Now(d, {}, {[seq |-> s, from |-> p, formats |-> fs]})
           /\ out' = Stale(d, past) \o <<PlaceHere(d, s, fs)>>
                     \o ToPeers(d, {p}, s, fs)
           /\ UNCHANGED <<peers, counter, enabled, allowed>>
        \/ /\ ~enabled[d] \/ fs = {}
           /\ out' = <<>>
           /\ UNCHANGED <<peers, counter, enabled, allowed, local, remote,
                          cache, reading, fetching, waiting>>

\* Exchange::start_fetch, for whoever waits: asks only once.
Fetch(d, k) ==
  IF k \in DOMAIN fetching[d] THEN UNCHANGED fetching /\ out' = <<>>
  ELSE /\ fetching' = [fetching EXCEPT ![d] =
                         With(@, k, [from |-> Owner(d), buf |-> <<>>])]
       /\ out' = <<Request(Owner(d), k, 0)>>

\* ClipRequest: served from what is at hand, from this machine's clipboard,
\* or on behalf of the asker from the machine that has it.
RequestArrived(d, p, k, n) ==
  /\ \/ /\ k \in DOMAIN cache[d]
        /\ out' = <<Chunk(p, k, cache[d][k], n)>>
        /\ UNCHANGED <<reading, fetching, waiting>>
     \/ /\ k \notin DOMAIN cache[d] /\ Ours(d, k)
        /\ waiting' = [waiting EXCEPT ![d] = @ \cup {Waits(k, p, n)}]
        /\ reading' = [reading EXCEPT ![d] = @ \cup {k}]
        /\ out' = IF k \in reading[d] THEN <<>> ELSE <<ReadHere(d, k)>>
        /\ UNCHANGED fetching
     \/ /\ k \notin DOMAIN cache[d] /\ ~Ours(d, k)
        /\ Held(d, k) /\ Owner(d) # p
        /\ waiting' = [waiting EXCEPT ![d] = @ \cup {Waits(k, p, n)}]
        /\ Fetch(d, k)
        /\ UNCHANGED reading
     \/ /\ k \notin DOMAIN cache[d] /\ ~Ours(d, k)
        /\ ~(Held(d, k) /\ Owner(d) # p)
        /\ out' = <<Refuse(p, k)>>
        /\ UNCHANGED <<reading, fetching, waiting>>
  /\ UNCHANGED <<peers, counter, enabled, allowed, local, remote, cache>>

\* Contents have come: everyone waiting is answered and they are kept.
Serve(d, k, data) ==
  /\ cache' = [cache EXCEPT ![d] = With(@, k, data)]
  /\ waiting' = [waiting EXCEPT ![d] = @ \ WaitingOn(d, k)]
  /\ out' = Served(d, WaitingOn(d, k), data)

FailUntold(d, k) ==   \* mutant: who waits is not told
  /\ out' = <<>>
  /\ UNCHANGED <<cache, waiting>>

\* They will not: everyone waiting is told.
Fail(d, k) ==
  /\ waiting' = [waiting EXCEPT ![d] = @ \ WaitingOn(d, k)]
  /\ out' = Failed(d, WaitingOn(d, k))
  /\ UNCHANGED cache

Asked(d, p, k) == k \in DOMAIN fetching[d] /\ fetching[d][k].from = p

\* ClipChunk.
ChunkArrived(d, p, k, n, data, last) ==
  LET buf  == fetching[d][k].buf
      full == buf \o data
  IN /\ \/ /\ ~Asked(d, p, k)
           /\ out' = <<>>
           /\ UNCHANGED <<cache, fetching, waiting>>
        \/ /\ Asked(d, p, k) /\ (n # Len(buf) \/ Len(full) > MaxBytes)
           /\ fetching' = [fetching EXCEPT ![d] = Without(@, {k})]
           /\ Fail(d, k)
        \/ /\ Asked(d, p, k) /\ n = Len(buf) /\ Len(full) <= MaxBytes /\ ~last
           /\ fetching' = [fetching EXCEPT ![d][k].buf = full]
           /\ out' = <<Request(p, k, Len(full))>>
           /\ UNCHANGED <<cache, waiting>>
        \/ /\ Asked(d, p, k) /\ n = Len(buf) /\ Len(full) <= MaxBytes /\ last
           /\ fetching' = [fetching EXCEPT ![d] = Without(@, {k})]
           /\ Serve(d, k, full)
     /\ UNCHANGED <<peers, counter, enabled, allowed, local, remote, reading>>

\* ClipUnavailable.
UnavailableArrived(d, p, k) ==
  /\ IF Asked(d, p, k)
       THEN /\ fetching' = [fetching EXCEPT ![d] = Without(@, {k})]
            /\ Fail(d, k)
       ELSE /\ out' = <<>>
            /\ UNCHANGED <<cache, fetching, waiting>>
  /\ UNCHANGED <<peers, counter, enabled, allowed, local, remote, reading>>

-----------------------------------------------------------------------------
(* What this machine itself does.                                          *)

\* Input::Wanted: something here pastes an offer held from elsewhere.
Wanted(d, t, k) ==
  /\ \/ /\ k \in DOMAIN cache[d]
        /\ out' = <<Answered(d, t, cache[d][k])>>
        /\ UNCHANGED <<fetching, waiting>>
     \/ /\ k \notin DOMAIN cache[d] /\ Held(d, k)
        /\ waiting' = [waiting EXCEPT ![d] = @ \cup {Waits(k, d, t)}]
        /\ Fetch(d, k)
     \/ /\ k \notin DOMAIN cache[d] /\ ~Held(d, k)
        /\ out' = <<Answered(d, t, None)>>
        /\ UNCHANGED <<fetching, waiting>>
  /\ UNCHANGED <<peers, counter, enabled, allowed, local, remote, cache,
                 reading>>

ReadDoneUnchecked(d, k, data) ==   \* mutant: what was read is kept regardless
  /\ reading' = [reading EXCEPT ![d] = @ \ {k}]
  /\ IF data # None /\ Len(data) <= MaxBytes THEN Serve(d, k, data) ELSE Fail(d, k)
  /\ UNCHANGED <<peers, counter, enabled, allowed, local, remote, fetching>>

\* Input::ReadDone: this machine's clipboard was read, or could not be (None).
ReadDone(d, k, data) ==
  /\ reading' = [reading EXCEPT ![d] = @ \ {k}]
  /\ IF data # None /\ k.seq \in LocalSeqs(d) /\ Len(data) <= MaxBytes
       THEN Serve(d, k, data) ELSE Fail(d, k)
  /\ UNCHANGED <<peers, counter, enabled, allowed, local, remote, fetching>>

\* set_enabled and set_allowed, when the configuration changes.
Configure(d, on, fs) ==
  /\ enabled' = [enabled EXCEPT ![d] = on]
  /\ allowed' = [allowed EXCEPT ![d] = fs]
  /\ out' = <<>>
  /\ UNCHANGED <<peers, counter, local, remote, cache, reading, fetching,
                 waiting>>

\* The machine's daemon starts again: nothing is remembered.
Forgotten(d) ==
  /\ peers' = [peers EXCEPT ![d] = {}]
  /\ counter' = [counter EXCEPT ![d] = 0]
  /\ local' = [local EXCEPT ![d] = {}]
  /\ remote' = [remote EXCEPT ![d] = {}]
  /\ cache' = [cache EXCEPT ![d] = <<>>]
  /\ reading' = [reading EXCEPT ![d] = {}]
  /\ fetching' = [fetching EXCEPT ![d] = <<>>]
  /\ waiting' = [waiting EXCEPT ![d] = {}]
  /\ out' = <<>>
  /\ UNCHANGED <<enabled, allowed>>

-----------------------------------------------------------------------------
\* Any input at any time, with anything in it: Clipboard says which come.  The
\* daemons hand over what a machine says only while it is known to be there.
ExchangeNext ==
  \E d \in Devices :
    \/ \E p \in Devices \ {d} : PeerUp(d, p)
    \/ \E p \in peers[d] :
         \/ PeerGone(d, p)
         \/ \E s, fs : OfferArrived(d, p, s, fs)
         \/ \E k, n : RequestArrived(d, p, k, n)
         \/ \E k, n, data, last : ChunkArrived(d, p, k, n, data, last)
         \/ \E k : UnavailableArrived(d, p, k)
    \/ \E fs : \E soon \in BOOLEAN : LocalChanged(d, fs, soon)
    \/ \E t, k : Wanted(d, t, k)
    \/ \E k, data : ReadDone(d, k, data)
    \/ Forgotten(d)
    \/ \E on \in BOOLEAN : \E fs \in SUBSET Formats : Configure(d, on, fs)

Exchanges == NoExchange /\ [][ExchangeNext]_exchangeVars

-----------------------------------------------------------------------------
(* Properties.                                                             *)

Current(d) == LocalSeqs(d) \cup RemoteSeqs(d)

\* Every variable holds what the code's types allow, and a machine makes an
\* offer or holds one, never both.
TypeOK ==
  /\ peers \in [Devices -> SUBSET Devices]
  /\ counter \in [Devices -> 0 .. MaxCopies]
  /\ enabled \in [Devices -> BOOLEAN]
  /\ allowed \in [Devices -> SUBSET Formats]
  /\ \A d \in Devices :
       /\ local[d] \subseteq [seq : Seqs, formats : SUBSET Formats]
       /\ remote[d] \subseteq [seq : Seqs, from : Devices \ {d},
                               formats : SUBSET Formats]
       /\ Cardinality(local[d]) + Cardinality(remote[d]) <= 1
       /\ DOMAIN cache[d] \cup reading[d] \cup DOMAIN fetching[d] \subseteq Keyed
       /\ waiting[d] \subseteq [key : Keyed, who : Devices, at : Nat]

\* Whatever is kept, read, fetched or waited for is of the offer made or held
\* now: a late chunk, refusal or read of an older one finds nothing to act on.
NothingOfThePast ==
  \A d \in Devices :
    /\ \A k \in DOMAIN cache[d] \cup DOMAIN fetching[d] : k.seq \in Current(d)
    /\ \A k \in reading[d] : k.seq \in LocalSeqs(d)
    /\ \A w \in waiting[d] : w.key.seq \in Current(d)

\* Whoever waits waits for something that is under way: a read of this
\* machine's clipboard, or a fetch from another.
NobodyWaitsInVain ==
  \A d \in Devices : \A w \in waiting[d] :
    w.key \in reading[d] \cup DOMAIN fetching[d]

\* What is under way is asked of a machine that is there to answer or to be
\* missed, and only of such a machine is an offer held.
AskedOfPeers ==
  \A d \in Devices :
    /\ \A o \in remote[d] : o.from \in peers[d]
    /\ \A k \in DOMAIN fetching[d] : fetching[d][k].from \in peers[d]
=============================================================================
