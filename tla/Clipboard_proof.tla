-------------------------- MODULE Clipboard_proof --------------------------
(***************************************************************************)
(* What an exchange keeps and waits for is of the offer made or held now,  *)
(* is under way, and is asked of a machine that is there: for any number   *)
(* of machines, formats and copies, whatever is said to it in whatever     *)
(* order (Exchanges), and so on every desk (Clipboard's Spec).             *)
(*                                                                         *)
(* And what a paste is given is the whole of one copy, the one announced   *)
(* under its name or a later one (PastesAlwaysWhatWasCopied).  A name may  *)
(* be given twice, by a client that was restarted and counts from nought;  *)
(* under a name given to one copy, all that is at hand, half fetched or on *)
(* its way, on any machine and in any queue, is of one copy (OneCopy), for *)
(* nothing under it is read twice (Unread).  Desk is the invariant, and a  *)
(* step is a turn of one machine (Turn): what its exchange says and has    *)
(* afterwards comes first, then what its daemon makes of it.               *)
(*                                                                         *)
(* And as long as nothing failed and copies are made one at a time, a copy *)
(* comes to be what every machine offers (CopiesAlwaysSpread): Peace says  *)
(* of every moment on the way that whoever does not hold the offer has it  *)
(* coming, from the hub or through it.                                     *)
(***************************************************************************)
EXTENDS Clipboard, FiniteSetTheorems, SequenceTheorems, TLAPS

-----------------------------------------------------------------------------
(* The inductive invariant.  Each machine is sound by itself; that every   *)
(* variable is a function on Devices is what makes a step of one machine   *)
(* leave the others alone.                                                 *)

On(f) == f = [d \in Devices |-> f[d]]

Shape == /\ On(peers) /\ On(local) /\ On(remote) /\ On(cache)
         /\ On(reading) /\ On(fetching) /\ On(waiting)

Kept(d) ==
  /\ \A k \in DOMAIN cache[d] \cup DOMAIN fetching[d] : k.seq \in Current(d)
  /\ \A k \in reading[d] : k.seq \in LocalSeqs(d)
  /\ \A w \in waiting[d] : w.key.seq \in Current(d)

UnderWay(d) == \A w \in waiting[d] : w.key \in reading[d] \cup DOMAIN fetching[d]

Reachable(d) ==
  /\ \A o \in remote[d] : o.from \in peers[d]
  /\ \A k \in DOMAIN fetching[d] :
       /\ fetching[d][k] = [from |-> fetching[d][k].from, buf |-> fetching[d][k].buf]
       /\ fetching[d][k].from \in peers[d]

Sound(d) == Kept(d) /\ UnderWay(d) /\ Reachable(d)

IInv == Shape /\ \A d \in Devices : Sound(d)

-----------------------------------------------------------------------------
(* A step of one machine.                                                  *)

\* What a step of machine d does to another: nothing.
Alone(d) == \A e \in Devices \ {d} :
  /\ peers'[e] = peers[e] /\ local'[e] = local[e] /\ remote'[e] = remote[e]
  /\ cache'[e] = cache[e] /\ reading'[e] = reading[e]
  /\ fetching'[e] = fetching[e] /\ waiting'[e] = waiting[e]

\* A step that leaves machine d sound, and the others alone, keeps the whole.
LEMMA OneMachine ==
  ASSUME IInv, NEW d \in Devices, Shape', Alone(d), Sound(d)'
  PROVE  IInv'
<1>1. ASSUME NEW e \in Devices, e # d PROVE Sound(e)'
  <2>1. Sound(e)
    BY DEF IInv
  <2> QED
    BY <1>1, <2>1 DEF Alone, Sound, Kept, UnderWay, Reachable, Current,
                      LocalSeqs, RemoteSeqs
<1> QED
  BY <1>1 DEF IInv

\* A step that touches only what the invariant does not speak of keeps it.
LEMMA Untouched ==
  ASSUME IInv,
         UNCHANGED <<peers, local, remote, cache, reading, fetching, waiting>>
  PROVE  IInv'
BY DEF IInv, Shape, On, Sound, Kept, UnderWay, Reachable, Current, LocalSeqs,
       RemoteSeqs

\* A machine that has just started is sound: it keeps nothing.
LEMMA StartsSound == ASSUME NoExchange PROVE IInv
BY DEF NoExchange, IInv, Shape, On, Sound, Kept, UnderWay, Reachable, Current,
       LocalSeqs, RemoteSeqs

\* A link that opens changes only who can be asked.
LEMMA PeerUpSound ==
  ASSUME IInv, NEW d \in Devices, NEW p, PeerUp(d, p)
  PROVE  IInv'
<1>1. Sound(d)
  BY DEF IInv
<1>2. Shape' /\ Alone(d)
  BY Zenon DEF IInv, Shape, On, Alone, PeerUp
<1>3. Sound(d)'
  BY <1>1 DEF IInv, Shape, On, PeerUp, Sound, Kept, UnderWay, Reachable, Current,
              LocalSeqs, RemoteSeqs
<1> QED
  BY <1>2, <1>3, OneMachine

\* Everything that was asked of a lost machine, or held from it, goes with it.
LEMMA PeerGoneSound ==
  ASSUME IInv, NEW d \in Devices, NEW p, PeerGone(d, p)
  PROVE  IInv'
<1> DEFINE lost == {k \in DOMAIN fetching[d] : fetching[d][k].from = p}
           past == {o.seq : o \in HeldFrom(d, p)}
<1>1. Sound(d)
  BY DEF IInv
<1>2. Shape' /\ Alone(d)
  BY Zenon DEF IInv, Shape, On, Alone, PeerGone, Outdated
<1>3. /\ peers'[d] = peers[d] \ {p}
      /\ local'[d] = local[d]
      /\ remote'[d] = remote[d] \ HeldFrom(d, p)
      /\ cache'[d] = Without(cache[d], {k \in DOMAIN cache[d] : k.seq \in past})
      /\ reading'[d] = {k \in reading[d] : k.seq \notin past}
      /\ fetching'[d] = Without(fetching[d],
           {k \in DOMAIN fetching[d] : k \in lost \/ k.seq \in past})
      /\ \A w \in waiting'[d] :
           w \in waiting[d] /\ w.key \notin lost /\ w.key.seq \notin past
  BY Zenon DEF IInv, Shape, On, PeerGone, Outdated
<1>4. /\ DOMAIN cache'[d] = {k \in DOMAIN cache[d] : k.seq \notin past}
      /\ DOMAIN fetching'[d] = {k \in DOMAIN fetching[d] : k \notin lost /\ k.seq \notin past}
      /\ \A k \in DOMAIN fetching'[d] : fetching'[d][k] = fetching[d][k]
  BY <1>3 DEF Without, Restrict
<1>5. \A q \in RemoteSeqs(d) : q \in past \/ q \in RemoteSeqs(d)'
  BY <1>3 DEF RemoteSeqs
<1>6. Kept(d)'
  BY <1>1, <1>3, <1>4, <1>5 DEF Sound, Kept, Current, LocalSeqs
<1>7. UnderWay(d)'
  BY <1>1, <1>3, <1>4 DEF Sound, UnderWay
<1>8. Reachable(d)'
  BY <1>1, <1>3, <1>4 DEF Sound, Reachable, HeldFrom
<1> QED
  BY <1>2, <1>6, <1>7, <1>8, OneMachine DEF Sound

\* What Forget leaves of a machine: what is not of those offers.
LEMMA ForgetLeaves ==
  ASSUME Shape, NEW d \in Devices, NEW ss, Forget(d, ss)
  PROVE  /\ On(cache)' /\ On(reading)' /\ On(fetching)' /\ On(waiting)'
         /\ \A e \in Devices \ {d} :
              /\ cache'[e] = cache[e] /\ reading'[e] = reading[e]
              /\ fetching'[e] = fetching[e] /\ waiting'[e] = waiting[e]
         /\ DOMAIN cache'[d] = {k \in DOMAIN cache[d] : k.seq \notin ss}
         /\ reading'[d] = {k \in reading[d] : k.seq \notin ss}
         /\ DOMAIN fetching'[d] = {k \in DOMAIN fetching[d] : k.seq \notin ss}
         /\ \A k \in DOMAIN fetching'[d] : fetching'[d][k] = fetching[d][k]
         /\ waiting'[d] = {w \in waiting[d] : w.key.seq \notin ss}
BY DEF Shape, On, Forget, Without, Restrict

\* One machine's offer is replaced, and what is of the old ones forgotten.
LEMMA OfferReplaced ==
  ASSUME Shape, NEW d \in Devices, NEW ss, NEW mine, NEW theirs,
         Forget(d, ss), Now(d, mine, theirs), UNCHANGED peers
  PROVE  Shape' /\ Alone(d)
<1>1. /\ On(cache)' /\ On(reading)' /\ On(fetching)' /\ On(waiting)'
      /\ \A e \in Devices \ {d} :
           /\ cache'[e] = cache[e] /\ reading'[e] = reading[e]
           /\ fetching'[e] = fetching[e] /\ waiting'[e] = waiting[e]
  BY ForgetLeaves
<1>2. /\ On(local)' /\ On(remote)'
      /\ \A e \in Devices \ {d} : local'[e] = local[e] /\ remote'[e] = remote[e]
  BY DEF Shape, On, Now
<1>3. On(peers)' /\ peers' = peers
  BY DEF Shape, On
<1> QED
  BY <1>1, <1>2, <1>3 DEF Shape, Alone

\* A copy made here takes the place of everything kept of the offers before it.
LEMMA LocalChangedSound ==
  ASSUME IInv, NEW d \in Devices, NEW fs, NEW soon, LocalChanged(d, fs, soon)
  PROVE  IInv'
<1>1. CASE UNCHANGED <<peers, local, remote, cache, reading, fetching, waiting>>
  BY <1>1, Untouched
<1>2. CASE /\ Forget(d, LocalSeqs(d) \cup RemoteSeqs(d))
           /\ \E mine : Now(d, mine, {})
           /\ UNCHANGED peers
  <2>1. Shape /\ Sound(d)
    BY DEF IInv
  <2>2. Shape' /\ Alone(d)
    BY <1>2, <2>1, OfferReplaced
  <2>3. remote'[d] = {} /\ peers'[d] = peers[d]
    BY <1>2, <2>1 DEF Shape, On, Now
  <2>4. /\ DOMAIN cache'[d] = {} /\ reading'[d] = {}
        /\ DOMAIN fetching'[d] = {} /\ waiting'[d] = {}
    BY <1>2, <2>1, ForgetLeaves DEF Sound, Kept, Current
  <2>5. Sound(d)'
    BY <2>3, <2>4 DEF Sound, Kept, UnderWay, Reachable
  <2> QED
    BY <2>2, <2>5, OneMachine
<1> QED
  BY <1>1, <1>2 DEF LocalChanged

\* So does an offer from elsewhere, but for what was fetched under its own name.
LEMMA OfferArrivedSound ==
  ASSUME IInv, NEW d \in Devices, NEW p \in peers[d], NEW s, NEW fs,
         OfferArrived(d, p, s, fs)
  PROVE  IInv'
<1>1. CASE UNCHANGED <<peers, local, remote, cache, reading, fetching, waiting>>
  BY <1>1, Untouched
<1>2. CASE /\ Forget(d, LocalSeqs(d) \cup (RemoteSeqs(d) \ {s}))
           /\ Now(d, {}, {[seq |-> s, from |-> p, formats |-> fs \cap allowed[d]]})
           /\ UNCHANGED peers
  <2>1. Shape /\ Sound(d)
    BY DEF IInv
  <2>2. Shape' /\ Alone(d)
    BY <1>2, <2>1, OfferReplaced
  <2>3. /\ peers'[d] = peers[d] /\ local'[d] = {}
        /\ remote'[d] = {[seq |-> s, from |-> p, formats |-> fs \cap allowed[d]]}
    BY <1>2, <2>1 DEF Shape, On, Now
  <2>4. s \in Current(d)'
    BY <2>3 DEF Current, RemoteSeqs
  <2>5. Kept(d)'
    <3>1. \A q \in Current(d) : q \notin LocalSeqs(d) \cup (RemoteSeqs(d) \ {s}) => q = s
      BY DEF Current
    <3> QED
      BY <1>2, <2>1, <2>4, <3>1, ForgetLeaves DEF Sound, Kept
  <2>6. UnderWay(d)'
    BY <1>2, <2>1, ForgetLeaves DEF Sound, UnderWay
  <2>7. Reachable(d)'
    <3>1. \A o \in remote'[d] : o.from \in peers'[d]
      BY <2>3
    <3>2. /\ DOMAIN fetching'[d] \subseteq DOMAIN fetching[d]
          /\ \A k \in DOMAIN fetching'[d] : fetching'[d][k] = fetching[d][k]
      BY <1>2, <2>1, ForgetLeaves
    <3> QED
      BY <2>1, <2>3, <3>1, <3>2 DEF Sound, Reachable
  <2> QED
    BY <2>2, <2>5, <2>6, <2>7, OneMachine DEF Sound
<1> QED
  BY <1>1, <1>2 DEF OfferArrived

\* Asking another machine, for whoever waits, for what is held from it.
LEMMA FetchAsks ==
  ASSUME IInv, NEW d \in Devices, NEW k, Held(d, k), Fetch(d, k)
  PROVE  /\ On(fetching)'
         /\ \A e \in Devices \ {d} : fetching'[e] = fetching[e]
         /\ DOMAIN fetching'[d] = DOMAIN fetching[d] \cup {k}
         /\ \A q \in DOMAIN fetching'[d] :
              /\ fetching'[d][q] = [from |-> fetching'[d][q].from,
                                    buf |-> fetching'[d][q].buf]
              /\ fetching'[d][q].from \in peers[d]
<1>1. On(fetching) /\ Sound(d)
  BY DEF IInv, Shape
<1>2. PICK o \in remote[d] : TRUE
  BY DEF Held
<1>3. Owner(d) \in peers[d]
  BY <1>1, <1>2 DEF Owner, Sound, Reachable
<1>4. CASE k \in DOMAIN fetching[d]
  BY <1>1, <1>4 DEF Fetch, On, Sound, Reachable
<1>5. CASE k \notin DOMAIN fetching[d]
  <2>1. /\ fetching' = [fetching EXCEPT ![d] =
              With(fetching[d], k, [from |-> Owner(d), buf |-> <<>>])]
    BY <1>5 DEF Fetch
  <2>2. /\ On(fetching)'
        /\ \A e \in Devices \ {d} : fetching'[e] = fetching[e]
        /\ fetching'[d] = With(fetching[d], k, [from |-> Owner(d), buf |-> <<>>])
    BY <1>1, <2>1 DEF On
  <2>3. DOMAIN fetching'[d] = DOMAIN fetching[d] \cup {k}
    BY <2>2 DEF With
  <2>4. \A q \in DOMAIN fetching'[d] :
          fetching'[d][q] = IF q = k THEN [from |-> Owner(d), buf |-> <<>>]
                                     ELSE fetching[d][q]
    BY <2>2 DEF With
  <2>5. ASSUME NEW q \in DOMAIN fetching'[d]
        PROVE  /\ fetching'[d][q] = [from |-> fetching'[d][q].from,
                                     buf |-> fetching'[d][q].buf]
               /\ fetching'[d][q].from \in peers[d]
    <3>1. CASE q = k
      BY <1>3, <2>4, <3>1
    <3>2. CASE q # k
      <4>1. q \in DOMAIN fetching[d] /\ fetching'[d][q] = fetching[d][q]
        BY <2>3, <2>4, <3>2
      <4> QED
        BY <1>1, <4>1 DEF Sound, Reachable
    <3> QED
      BY <3>1, <3>2
  <2> QED
    BY <2>2, <2>3, <2>5
<1> QED
  BY <1>4, <1>5

\* Somebody more waits for what is fetched on his behalf.
LEMMA WaitForFetchSound ==
  ASSUME IInv, NEW d \in Devices, NEW k, NEW who, NEW n, Held(d, k),
         waiting' = [waiting EXCEPT ![d] = @ \cup {Waits(k, who, n)}],
         Fetch(d, k),
         UNCHANGED <<peers, local, remote, cache, reading>>
  PROVE  IInv'
<1>1. Shape /\ Sound(d)
  BY DEF IInv
<1>2. Shape' /\ Alone(d)
  BY <1>1, FetchAsks DEF Shape, On, Alone
<1>3. waiting'[d] = waiting[d] \cup {Waits(k, who, n)}
  BY <1>1 DEF Shape, On
<1>4. k.seq \in RemoteSeqs(d) /\ Waits(k, who, n).key = k
  BY DEF Held, RemoteSeqs, Waits
<1>5. Current(d)' = Current(d) /\ LocalSeqs(d)' = LocalSeqs(d)
  BY DEF Current, LocalSeqs, RemoteSeqs
<1>6. DOMAIN fetching'[d] = DOMAIN fetching[d] \cup {k}
  BY FetchAsks
<1>7. Kept(d)'
  BY <1>1, <1>3, <1>4, <1>5, <1>6 DEF Sound, Kept, Current
<1>8. UnderWay(d)'
  BY <1>1, <1>3, <1>4, <1>6 DEF Sound, UnderWay
<1>9. Reachable(d)'
  <2>1. remote' = remote /\ peers' = peers
    OBVIOUS
  <2> QED
    BY <1>1, <2>1, FetchAsks DEF Sound, Reachable
<1> QED
  BY <1>2, <1>7, <1>8, <1>9, OneMachine DEF Sound

\* Another machine's request is answered, or waits on a read or a fetch.
LEMMA RequestArrivedSound ==
  ASSUME IInv, NEW d \in Devices, NEW p, NEW k, NEW n,
         RequestArrived(d, p, k, n)
  PROVE  IInv'
<1>1. CASE UNCHANGED <<reading, fetching, waiting>>
  BY <1>1, Untouched DEF RequestArrived
<1>2. CASE /\ Held(d, k) /\ Fetch(d, k) /\ UNCHANGED reading
           /\ waiting' = [waiting EXCEPT ![d] = @ \cup {Waits(k, p, n)}]
  BY <1>2, WaitForFetchSound DEF RequestArrived
<1>3. CASE /\ Ours(d, k) /\ UNCHANGED fetching
           /\ waiting' = [waiting EXCEPT ![d] = @ \cup {Waits(k, p, n)}]
           /\ reading' = [reading EXCEPT ![d] = @ \cup {k}]
  <2>1. Shape /\ Sound(d) /\ UNCHANGED <<peers, local, remote, cache>>
    BY DEF IInv, RequestArrived
  <2>2. Shape' /\ Alone(d)
    BY <1>3, <2>1 DEF Shape, On, Alone
  <2>3. /\ waiting'[d] = waiting[d] \cup {Waits(k, p, n)}
        /\ reading'[d] = reading[d] \cup {k}
    BY <1>3, <2>1 DEF Shape, On
  <2>4. k.seq \in LocalSeqs(d) /\ Waits(k, p, n).key = k
    BY <1>3 DEF Ours, LocalSeqs, Waits
  <2>5. Current(d)' = Current(d) /\ LocalSeqs(d)' = LocalSeqs(d)
    BY <2>1 DEF Current, LocalSeqs, RemoteSeqs
  <2>6. Kept(d)'
    BY <1>3, <2>1, <2>3, <2>4, <2>5 DEF Sound, Kept, Current
  <2>7. UnderWay(d)'
    BY <1>3, <2>1, <2>3, <2>4 DEF Sound, UnderWay
  <2>8. Reachable(d)'
    BY <1>3, <2>1 DEF Sound, Reachable
  <2> QED
    BY <2>2, <2>6, <2>7, <2>8, OneMachine DEF Sound
<1> QED
  BY <1>1, <1>2, <1>3 DEF RequestArrived

\* A paste here is answered, or waits on a fetch.
LEMMA WantedSound ==
  ASSUME IInv, NEW d \in Devices, NEW t, NEW k, Wanted(d, t, k)
  PROVE  IInv'
<1>1. CASE UNCHANGED <<fetching, waiting>>
  BY <1>1, Untouched DEF Wanted
<1>2. CASE /\ Held(d, k) /\ Fetch(d, k)
           /\ waiting' = [waiting EXCEPT ![d] = @ \cup {Waits(k, d, t)}]
  BY <1>2, WaitForFetchSound DEF Wanted
<1> QED
  BY <1>1, <1>2 DEF Wanted

\* Nobody waits for k any more, whether it came or will not: that is sound if
\* nothing but k went from what is under way, and what was kept is current.
LEMMA SettledSound ==
  ASSUME IInv, NEW d \in Devices, NEW k,
         Shape', Alone(d), UNCHANGED <<peers, local, remote>>,
         waiting'[d] = {w \in waiting[d] : w.key # k},
         DOMAIN cache'[d] \subseteq DOMAIN cache[d] \cup {q \in {k} : q.seq \in Current(d)},
         \/ reading'[d] = reading[d] /\ fetching'[d] = Without(fetching[d], {k})
         \/ reading'[d] = reading[d] \ {k} /\ fetching'[d] = fetching[d]
  PROVE  IInv'
<1>1. Sound(d)
  BY DEF IInv
<1>2. /\ DOMAIN fetching'[d] \subseteq DOMAIN fetching[d]
      /\ \A q \in DOMAIN fetching[d] : q # k => q \in DOMAIN fetching'[d]
      /\ \A q \in DOMAIN fetching'[d] : fetching'[d][q] = fetching[d][q]
  BY DEF Without, Restrict
<1>3. /\ reading'[d] \subseteq reading[d]
      /\ \A q \in reading[d] : q # k => q \in reading'[d]
  OBVIOUS
<1>4. Current(d)' = Current(d) /\ LocalSeqs(d)' = LocalSeqs(d)
  BY DEF Current, LocalSeqs, RemoteSeqs
<1>5. Kept(d)'
  BY <1>1, <1>2, <1>3, <1>4 DEF Sound, Kept
<1>6. UnderWay(d)'
  BY <1>1, <1>2, <1>3 DEF Sound, UnderWay
<1>7. Reachable(d)'
  <2>1. remote' = remote /\ peers' = peers
    OBVIOUS
  <2> QED
    BY <1>1, <1>2, <2>1 DEF Sound, Reachable
<1> QED
  BY <1>5, <1>6, <1>7, OneMachine DEF Sound

\* What Serve and Fail do.
LEMMA ServeSettles ==
  ASSUME Shape, NEW d \in Devices, NEW k, NEW data, Serve(d, k, data)
  PROVE  /\ On(cache)' /\ On(waiting)'
         /\ \A e \in Devices \ {d} : cache'[e] = cache[e] /\ waiting'[e] = waiting[e]
         /\ waiting'[d] = {w \in waiting[d] : w.key # k}
         /\ DOMAIN cache'[d] = DOMAIN cache[d] \cup {k}
BY DEF Shape, On, Serve, WaitingOn, With

\* The same for those who are refused.
LEMMA FailSettles ==
  ASSUME Shape, NEW d \in Devices, NEW k, Fail(d, k)
  PROVE  /\ On(cache)' /\ On(waiting)'
         /\ \A e \in Devices \ {d} : cache'[e] = cache[e] /\ waiting'[e] = waiting[e]
         /\ waiting'[d] = {w \in waiting[d] : w.key # k}
         /\ DOMAIN cache'[d] = DOMAIN cache[d]
BY DEF Shape, On, Fail, WaitingOn

\* A fetch is over, with the contents or without.
LEMMA FetchOverSound ==
  ASSUME IInv, NEW d \in Devices, NEW k, NEW data, k \in DOMAIN fetching[d],
         fetching' = [fetching EXCEPT ![d] = Without(@, {k})],
         Serve(d, k, data) \/ Fail(d, k),
         UNCHANGED <<peers, local, remote, reading>>
  PROVE  IInv'
<1>1. Shape /\ Sound(d)
  BY DEF IInv
<1>2. k.seq \in Current(d)
  BY <1>1 DEF Sound, Kept
<1>3. /\ On(cache)' /\ On(waiting)'
      /\ \A e \in Devices \ {d} : cache'[e] = cache[e] /\ waiting'[e] = waiting[e]
      /\ waiting'[d] = {w \in waiting[d] : w.key # k}
      /\ DOMAIN cache'[d] \subseteq DOMAIN cache[d] \cup {k}
  BY <1>1, ServeSettles, FailSettles
<1>4. /\ On(fetching)' /\ fetching'[d] = Without(fetching[d], {k})
      /\ \A e \in Devices \ {d} : fetching'[e] = fetching[e]
  BY <1>1 DEF Shape, On
<1>5. Shape' /\ Alone(d)
  BY <1>1, <1>3, <1>4 DEF Shape, On, Alone
<1> QED
  BY <1>2, <1>3, <1>4, <1>5, SettledSound

\* A chunk that is not the one asked for changes nothing or ends its fetch.
LEMMA ChunkArrivedSound ==
  ASSUME IInv, NEW d \in Devices, NEW p, NEW k, NEW n, NEW data, NEW last,
         ChunkArrived(d, p, k, n, data, last)
  PROVE  IInv'
<1>1. CASE UNCHANGED <<cache, fetching, waiting>>
  BY <1>1, Untouched DEF ChunkArrived
<1>2. CASE /\ Asked(d, p, k)
           /\ fetching' = [fetching EXCEPT ![d] = Without(@, {k})]
           /\ Fail(d, k) \/ Serve(d, k, fetching[d][k].buf \o data)
  BY <1>2, FetchOverSound DEF ChunkArrived, Asked
<1>3. CASE /\ Asked(d, p, k) /\ UNCHANGED <<cache, waiting>>
           /\ fetching' = [fetching EXCEPT ![d][k].buf = fetching[d][k].buf \o data]
  <2>1. Shape /\ Sound(d) /\ UNCHANGED <<peers, local, remote, reading>>
    BY DEF IInv, ChunkArrived
  <2>2. Shape' /\ Alone(d)
    BY <1>3, <2>1 DEF Shape, On, Alone
  <2>3. fetching'[d] = [fetching[d] EXCEPT ![k].buf = fetching[d][k].buf \o data]
    BY <1>3, <2>1 DEF Shape, On
  <2>4. /\ DOMAIN fetching'[d] = DOMAIN fetching[d]
        /\ \A q \in DOMAIN fetching[d] :
             fetching'[d][q] = IF q = k THEN [fetching[d][q] EXCEPT !.buf = fetching[d][k].buf \o data]
                                        ELSE fetching[d][q]
    BY <2>3
  <2>5. Current(d)' = Current(d) /\ LocalSeqs(d)' = LocalSeqs(d)
    BY <2>1 DEF Current, LocalSeqs, RemoteSeqs
  <2>6. Kept(d)' /\ UnderWay(d)'
    BY <1>3, <2>1, <2>4, <2>5 DEF Sound, Kept, UnderWay
  <2>7. ASSUME NEW q \in DOMAIN fetching'[d]
        PROVE  /\ fetching'[d][q] = [from |-> fetching'[d][q].from,
                                     buf |-> fetching'[d][q].buf]
               /\ fetching'[d][q].from \in peers[d]
    BY <2>1, <2>4 DEF Sound, Reachable
  <2>8. Reachable(d)'
    BY <2>1, <2>7 DEF Sound, Reachable
  <2> QED
    BY <2>2, <2>6, <2>8, OneMachine DEF Sound
<1> QED
  BY <1>1, <1>2, <1>3, Zenon DEF ChunkArrived

\* A refusal ends the fetch it is about.
LEMMA UnavailableArrivedSound ==
  ASSUME IInv, NEW d \in Devices, NEW p, NEW k, UnavailableArrived(d, p, k)
  PROVE  IInv'
<1>1. CASE UNCHANGED <<cache, fetching, waiting>>
  BY <1>1, Untouched DEF UnavailableArrived
<1>2. CASE /\ Asked(d, p, k) /\ Fail(d, k)
           /\ fetching' = [fetching EXCEPT ![d] = Without(@, {k})]
  BY <1>2, FetchOverSound DEF UnavailableArrived, Asked
<1> QED
  BY <1>1, <1>2 DEF UnavailableArrived

\* A read that ends answers whoever waited on it and nobody else.
LEMMA ReadDoneSound ==
  ASSUME IInv, NEW d \in Devices, NEW k, NEW data, ReadDone(d, k, data)
  PROVE  IInv'
<1>1. Shape /\ Sound(d) /\ UNCHANGED <<peers, local, remote, fetching>>
  BY DEF IInv, ReadDone
<1>2. /\ On(cache)' /\ On(waiting)'
      /\ \A e \in Devices \ {d} : cache'[e] = cache[e] /\ waiting'[e] = waiting[e]
      /\ waiting'[d] = {w \in waiting[d] : w.key # k}
      /\ DOMAIN cache'[d] \subseteq DOMAIN cache[d] \cup {q \in {k} : q.seq \in Current(d)}
  <2>1. CASE Serve(d, k, data) /\ k.seq \in LocalSeqs(d)
    BY <1>1, <2>1, ServeSettles DEF Current
  <2>2. CASE Fail(d, k)
    BY <1>1, <2>2, FailSettles
  <2> QED
    BY <2>1, <2>2 DEF ReadDone
<1>3. /\ On(reading)' /\ reading'[d] = reading[d] \ {k}
      /\ \A e \in Devices \ {d} : reading'[e] = reading[e]
  BY <1>1 DEF Shape, On, ReadDone
<1>4. Shape' /\ Alone(d)
  BY <1>1, <1>2, <1>3 DEF Shape, On, Alone
<1> QED
  BY <1>1, <1>2, <1>3, <1>4, SettledSound

\* A machine that starts again forgets everything.
LEMMA ForgottenSound ==
  ASSUME IInv, NEW d \in Devices, Forgotten(d)
  PROVE  IInv'
<1>1. Shape' /\ Alone(d)
  BY DEF IInv, Shape, On, Alone, Forgotten
<1>2. /\ DOMAIN cache'[d] = {} /\ reading'[d] = {} /\ DOMAIN fetching'[d] = {}
      /\ waiting'[d] = {} /\ remote'[d] = {}
  BY DEF IInv, Shape, On, Forgotten
<1>3. Sound(d)'
  BY <1>2 DEF Sound, Kept, UnderWay, Reachable
<1> QED
  BY <1>1, <1>3, OneMachine

-----------------------------------------------------------------------------
(* The theorems.                                                           *)

\* Every step of every machine's exchange keeps the invariant.
LEMMA StepSound == ASSUME IInv, [ExchangeNext]_exchangeVars PROVE IInv'
<1>1. CASE UNCHANGED exchangeVars
  BY <1>1, Untouched DEF exchangeVars
<1>2. CASE ExchangeNext
  <2>1. PICK d \in Devices :
          \/ \E p \in Devices \ {d} : PeerUp(d, p)
          \/ \E p \in peers[d] :
               \/ PeerGone(d, p)
               \/ \E s, fs : OfferArrived(d, p, s, fs)
               \/ \E k, n : RequestArrived(d, p, k, n)
               \/ \E k, n, data, last : ChunkArrived(d, p, k, n, data, last)
               \/ \E k : UnavailableArrived(d, p, k)
          \/ \E fs : \E soon \in BOOLEAN : LocalChanged(d, fs, soon)
          \/ \E t, k : Wanted(d, t, k)
          \/ \E k, data : ReadDone(d, k, data)
          \/ Forgotten(d)
          \/ \E on \in BOOLEAN : \E fs \in SUBSET Formats : Configure(d, on, fs)
    BY <1>2 DEF ExchangeNext
  <2>2. CASE \E p \in Devices \ {d} : PeerUp(d, p)
    BY <2>2, PeerUpSound
  <2>3. ASSUME NEW p \in peers[d], PeerGone(d, p) PROVE IInv'
    BY <2>3, PeerGoneSound
  <2>4. ASSUME NEW p \in peers[d], NEW s, NEW fs, OfferArrived(d, p, s, fs)
        PROVE  IInv'
    BY <2>4, OfferArrivedSound
  <2>5. ASSUME NEW p, NEW k, NEW n, RequestArrived(d, p, k, n) PROVE IInv'
    BY <2>5, RequestArrivedSound
  <2>6. ASSUME NEW p, NEW k, NEW n, NEW data, NEW last,
               ChunkArrived(d, p, k, n, data, last)
        PROVE  IInv'
    BY <2>6, ChunkArrivedSound
  <2>7. ASSUME NEW p, NEW k, UnavailableArrived(d, p, k) PROVE IInv'
    BY <2>7, UnavailableArrivedSound
  <2>8. ASSUME NEW fs, NEW soon, LocalChanged(d, fs, soon) PROVE IInv'
    BY <2>8, LocalChangedSound
  <2>9. CASE \E t, k : Wanted(d, t, k)
    BY <2>9, WantedSound
  <2>10. CASE \E k, data : ReadDone(d, k, data)
    BY <2>10, ReadDoneSound
  <2>11. CASE Forgotten(d)
    BY <2>11, ForgottenSound
  <2>12. ASSUME NEW on, NEW fs, Configure(d, on, fs) PROVE IInv'
    BY <2>12, Untouched DEF Configure
  <2> QED
    BY <2>1, <2>2, <2>3, <2>4, <2>5, <2>6, <2>7, <2>8, <2>9, <2>10, <2>11, <2>12
<1> QED
  BY <1>1, <1>2

\* The invariant gives the three properties.
LEMMA IInvShows == IInv => NothingOfThePast /\ NobodyWaitsInVain /\ AskedOfPeers
BY DEF IInv, Sound, Kept, UnderWay, Reachable, NothingOfThePast,
       NobodyWaitsInVain, AskedOfPeers

\* Whatever an exchange is told, in whatever order, it stays sound.
THEOREM ExchangesSound == Exchanges => []IInv
BY StartsSound, StepSound, PTL DEF Exchanges

\* A step of a desk is a step of some exchange, or of none.
LEMMA StepImplements == ASSUME [Next]_vars PROVE [ExchangeNext]_exchangeVars
<1>1. CASE UNCHANGED vars
  BY <1>1 DEF vars, exchangeVars
<1>2. ASSUME NEW d \in Devices, Own(d) PROVE [ExchangeNext]_exchangeVars
  <2>1. ASSUME NEW soon \in BOOLEAN, Notice(d, soon) PROVE ExchangeNext
    BY <2>1 DEF Notice, ExchangeNext
  <2>2. CASE Want(d)
    BY <2>2 DEF Want, ExchangeNext
  <2>3. CASE Read(d)
    BY <2>3 DEF Read
  <2>4. CASE ReadEnds(d)
    BY <2>4 DEF ReadEnds, ExchangeNext
  <2> QED
    BY <1>2, <2>1, <2>2, <2>3, <2>4 DEF Own
<1>3. ASSUME NEW d \in Devices, NEW p \in peers[d], NEW m, Handle(d, p, m)
      PROVE  ExchangeNext
  BY <1>3 DEF Handle, ExchangeNext
<1>4. ASSUME NEW c \in Clients,
             \/ TakeIn(c) \/ HubLoses(c) \/ HubHears(c) \/ ClientLoses(c)
             \/ ClientHears(c) \/ Connect(c) \/ Cut(c) \/ Restart(c)
      PROVE  [ExchangeNext]_exchangeVars
  <2>1. c \in Devices \ {Hub} /\ Hub \in Devices \ {c}
    BY HubAssumption DEF Clients
  <2>2. CASE TakeIn(c)
    BY <2>1, <2>2 DEF TakeIn, ExchangeNext
  <2>3. CASE Connect(c)
    BY <2>1, <2>3 DEF Connect, ExchangeNext
  <2>4. CASE HubLoses(c)
    BY <2>1, <2>4 DEF HubLoses, ExchangeNext
  <2>5. CASE ClientLoses(c)
    BY <2>1, <2>5 DEF ClientLoses, ExchangeNext
  <2>6. CASE HubHears(c)
    BY <1>3, <2>1, <2>6 DEF HubHears
  <2>7. CASE ClientHears(c)
    BY <1>3, <2>1, <2>7 DEF ClientHears
  <2>8. CASE Cut(c)
    BY <2>8 DEF Cut
  <2>9. CASE Restart(c)
    BY <2>1, <2>9 DEF Restart, ExchangeNext
  <2> QED
    BY <1>4, <2>2, <2>3, <2>4, <2>5, <2>6, <2>7, <2>8, <2>9
<1>5. ASSUME NEW d \in Devices,
             \/ \E fs \in (SUBSET Formats) \ {{}} : Copy(d, fs)
             \/ \E f \in Formats : Paste(d, f)
      PROVE  UNCHANGED exchangeVars
  BY <1>5 DEF Copy, Paste
<1>6. ASSUME NEW on \in BOOLEAN, NEW fs \in (SUBSET Formats) \ {{}}, Reconfigure(on, fs)
      PROVE  ExchangeNext
  BY <1>6, HubAssumption DEF Reconfigure, ExchangeNext
<1>7. CASE Next
  BY <1>2, <1>4, <1>5, <1>6, <1>7, HubAssumption DEF Next, Serves, Follows, Clients
<1> QED
  BY <1>1, <1>7

\* Every desk's machines are exchanges: nothing the daemons do to them goes
\* round their inputs.
THEOREM DeskOfExchanges == Spec => Exchanges
<1>1. Init => NoExchange
  BY DEF Init
<1> QED
  BY <1>1, StepImplements, PTL DEF Spec, Exchanges

\* On every desk, whatever is kept or under way is of the offer made or held
\* now: a late chunk, refusal or read finds nothing to act on.
THEOREM NothingOfThePastKept == Spec => []NothingOfThePast
BY DeskOfExchanges, ExchangesSound, IInvShows, PTL

\* On every desk, whoever waits waits for something that is under way.
THEOREM NobodyForgotten == Spec => []NobodyWaitsInVain
BY DeskOfExchanges, ExchangesSound, IInvShows, PTL

\* On every desk, what is under way or held is of a machine that is there.
THEOREM AskedOfThosePresent == Spec => []AskedOfPeers
BY DeskOfExchanges, ExchangesSound, IInvShows, PTL

-----------------------------------------------------------------------------
(* Sequences, and sets put in order.                                       *)

Elems(q) == {q[i] : i \in DOMAIN q}
IsSeq(q) == q \in Seq(Elems(q))

\* A sequence, and what it is made of.
LEMMA SeqIs ==
  ASSUME NEW q, IsSeq(q)
  PROVE  /\ Len(q) \in Nat /\ DOMAIN q = 1 .. Len(q)
         /\ \A i \in 1 .. Len(q) : q[i] \in Elems(q)
BY LenProperties DEF IsSeq, Elems

\* Any sequence of anything is one.
LEMMA IsOne ==
  ASSUME NEW S, NEW q \in Seq(S)
  PROVE  IsSeq(q) /\ Elems(q) \subseteq S
<1>1. q \in [1 .. Len(q) -> S] /\ Len(q) \in Nat /\ DOMAIN q = 1 .. Len(q)
  BY LenProperties
<1>2. \A i \in 1 .. Len(q) : q[i] \in Elems(q)
  BY <1>1 DEF Elems
<1>3. q \in [1 .. Len(q) -> Elems(q)]
  BY <1>1, <1>2
<1>4. q \in Seq(Elems(q))
  BY <1>1, <1>3, SeqDef
<1> QED
  BY <1>1, <1>4 DEF IsSeq, Elems

\* Two sequences joined are one, of what they are made of.
LEMMA JoinedIs ==
  ASSUME NEW q, NEW r, IsSeq(q), IsSeq(r)
  PROVE  IsSeq(q \o r) /\ Elems(q \o r) \subseteq Elems(q) \cup Elems(r)
<1>1. q \in Seq(Elems(q) \cup Elems(r)) /\ r \in Seq(Elems(q) \cup Elems(r))
  BY SeqMonotonic DEF IsSeq
<1>2. q \o r \in Seq(Elems(q) \cup Elems(r))
  BY <1>1, ConcatProperties
<1> QED
  BY <1>2, IsOne

\* What is left of a sequence once its head is taken.
LEMMA TailIs ==
  ASSUME NEW q, IsSeq(q), q # <<>>
  PROVE  /\ IsSeq(Tail(q)) /\ Elems(Tail(q)) \subseteq Elems(q)
         /\ Head(q) \in Elems(q)
BY HeadTailProperties, IsOne DEF IsSeq

\* The beginning of a sequence.
LEMMA CutIs ==
  ASSUME NEW q, IsSeq(q), NEW n \in 0 .. Len(q)
  PROVE  IsSeq(SubSeq(q, 1, n)) /\ Elems(SubSeq(q, 1, n)) \subseteq Elems(q)
<1>1. \A i \in 1 .. n : q[i] \in Elems(q)
  BY SeqIs
<1>2. n \in Int /\ 1 \in Int
  BY SeqIs
<1>3. SubSeq(q, 1, n) \in Seq(Elems(q))
  BY <1>1, <1>2, SubSeqProperties
<1> QED
  BY <1>3, IsOne

\* The empty sequence, and a sequence of one.
LEMMA FewIs ==
  /\ IsSeq(<<>>) /\ Elems(<<>>) = {}
  /\ \A x : IsSeq(<<x>>) /\ Elems(<<x>>) = {x}
<1>1. \A x : <<x>> \in Seq({x}) /\ DOMAIN <<x>> = 1 .. 1 /\ <<x>>[1] = x
  OBVIOUS
<1>2. <<>> \in Seq({}) /\ DOMAIN <<>> = {}
  OBVIOUS
<1> QED
  BY <1>1, <1>2 DEF IsSeq, Elems

\* A finite set put in some order.
LEMMA ListedIs ==
  ASSUME NEW S, IsFiniteSet(S)
  PROVE  IsSeq(SetToSeq(S)) /\ Elems(SetToSeq(S)) \subseteq S
<1>1. Cardinality(S) \in Nat /\ Bijection(1 .. Cardinality(S), S) # {}
  BY FS_CardinalityType DEF ExistsBijection
<1>2. PICK f \in Bijection(1 .. Cardinality(S), S) : TRUE
  BY <1>1
<1>3. f \in [1 .. Cardinality(S) -> S] /\ IsInjective(f)
  BY <1>2 DEF Bijection, Injection
<1>4. SetToSeq(S) \in [1 .. Cardinality(S) -> S]
  BY <1>3 DEF SetToSeq
<1>5. SetToSeq(S) \in Seq(S)
  BY <1>1, <1>4, SeqDef
<1> QED
  BY <1>5, IsOne

\* What a function makes of a finite set is finite.
LEMMA ImageFinite ==
  ASSUME NEW S, IsFiniteSet(S), NEW f, DOMAIN f = S
  PROVE  IsFiniteSet({f[x] : x \in S})
<1>1. [x \in S |-> f[x]] \in Surjection(S, {f[x] : x \in S})
  BY DEF Surjection
<1> QED
  BY <1>1, FS_Surjection

\* The elements of a finite set of numbers, counted from the least.
LEMMA Ranks ==
  ASSUME NEW S \in SUBSET Nat, IsFiniteSet(S), NEW j \in 1 .. Cardinality(S)
  PROVE  \E i \in S : Cardinality({h \in S : h <= i}) = j
<1> DEFINE f == [i \in S |-> Cardinality({h \in S : h <= i})]
           n == Cardinality(S)
<1>1. n \in Nat /\ IsFiniteSet(1 .. n) /\ Cardinality(1 .. n) = n
  BY FS_CardinalityType, FS_Interval
<1>2. ASSUME NEW i \in S
      PROVE  /\ IsFiniteSet({h \in S : h <= i})
             /\ Cardinality({h \in S : h <= i}) \in 1 .. n
  <2>1. {h \in S : h <= i} \in SUBSET S
    OBVIOUS
  <2>2. /\ IsFiniteSet({h \in S : h <= i})
        /\ Cardinality({h \in S : h <= i}) <= n
    BY <2>1, FS_Subset
  <2>3. i \in {h \in S : h <= i}
    OBVIOUS
  <2>4. Cardinality({h \in S : h <= i}) \in Nat /\ Cardinality({h \in S : h <= i}) # 0
    BY <2>2, <2>3, FS_CardinalityType, FS_EmptySet
  <2> QED
    BY <2>2, <2>4, <1>1
<1>3. f \in [S -> 1 .. n]
  BY <1>2
<1>4. ASSUME NEW a \in S, NEW b \in S, a < b PROVE f[a] # f[b]
  <2>1. {h \in S : h <= a} \in SUBSET {h \in S : h <= b}
    <3>1. a \in Nat /\ b \in Nat /\ \A h \in S : h \in Nat
      OBVIOUS
    <3>2. \A h \in S : h <= a => h <= b
      BY <1>4, <3>1
    <3> QED
      BY <3>2
  <2>2. b \in {h \in S : h <= b} /\ b \notin {h \in S : h <= a}
    BY <1>4
  <2>3. Cardinality({h \in S : h <= a}) # Cardinality({h \in S : h <= b})
    BY <1>2, <2>1, <2>2, FS_Subset
  <2> QED
    BY <2>3
<1>5. IsInjective(f)
  <2>1. \A a, b \in S : a \in Nat /\ b \in Nat /\ (a # b => a < b \/ b < a)
    OBVIOUS
  <2> QED
    BY <1>4, <2>1 DEF IsInjective
<1>6. f \in Injection(S, 1 .. n)
  BY <1>3, <1>5 DEF Injection
<1>7. f \in Surjection(S, 1 .. n)
  BY <1>1, <1>6, FS_Injection
<1>8. PICK i \in S : f[i] = j
  BY <1>7 DEF Surjection
<1> QED
  BY <1>8

\* What a step has said to a machine is some of what it has said.
LEMMA SentIs ==
  ASSUME IsSeq(out'), NEW p
  PROVE  /\ IsSeq(Sent(p))
         /\ \A o \in Elems(Sent(p)) : o \in Elems(out') /\ o.to = p
<1> DEFINE to == {i \in DOMAIN out' : out'[i].to = p}
           At(j) == CHOOSE i \in to : Cardinality({h \in to : h <= i}) = j
<1>1. /\ DOMAIN out' = 1 .. Len(out') /\ Len(out') \in Nat
      /\ \A i \in 1 .. Len(out') : out'[i] \in Elems(out')
  BY SeqIs
<1>2. to \in SUBSET Nat /\ to \in SUBSET (1 .. Len(out'))
  BY <1>1
<1>3. IsFiniteSet(to)
  <2>1. IsFiniteSet(1 .. Len(out'))
    BY <1>1, FS_Interval
  <2> HIDE DEF to
  <2> QED
    BY <1>2, <2>1, FS_Subset
<1>4. Cardinality(to) \in Nat
  BY <1>3, FS_CardinalityType
<1>5. ASSUME NEW j \in 1 .. Cardinality(to) PROVE At(j) \in to
  <2> HIDE DEF to
  <2>1. \E i \in to : Cardinality({h \in to : h <= i}) = j
    BY <1>2, <1>3, Ranks
  <2> QED
    BY <2>1
<1> DEFINE S == {out'[i] : i \in to}
<1>6. \A j \in 1 .. Cardinality(to) : out'[At(j)] \in S
  BY <1>5
<1>7. Sent(p) = [j \in 1 .. Cardinality(to) |-> out'[At(j)]]
  BY DEF Sent
<1>8. Sent(p) \in [1 .. Cardinality(to) -> S]
  <2> HIDE DEF to, At, S
  <2> QED
    BY <1>6, <1>7
<1>9. Sent(p) \in Seq(S)
  <2> HIDE DEF to, S
  <2> QED
    BY <1>4, <1>8, SeqDef
<1>10. IsSeq(Sent(p)) /\ Elems(Sent(p)) \subseteq S
  BY <1>9, IsOne
<1>11. \A o \in S : o \in Elems(out') /\ o.to = p
  BY <1>1
<1> QED
  BY <1>10, <1>11

-----------------------------------------------------------------------------
(* Contents, and who has how much of them.                                 *)

\* A piece of copy n from a place on, and all of it.
Piece(data, at, n) == data \in Seq({n}) /\ at \in Nat /\ at + Len(data) <= Sizes[n]
Whole(data, n)     == data \in Seq({n}) /\ Len(data) = Sizes[n]

\* Machine d has nothing under k that is not of copy n, and no message has.
HoldsAt(d, k, n) ==
  /\ k \in DOMAIN cache[d] => Whole(cache[d][k], n)
  /\ k \in DOMAIN fetching[d] => Piece(fetching[d][k].buf, 0, n)

Fits(o, k, n) ==
  o.type = "Chunk" /\ o.key = k =>
    /\ Piece(o.data, o.offset, n)
    /\ o.last => o.offset + Len(o.data) = Sizes[n]

Mail == UNION {Elems(up[c]) \cup Elems(downward[c]) : c \in Clients}

Holds(k, n) == /\ \A d \in Devices : HoldsAt(d, k, n)
               /\ \A o \in Mail : Fits(o, k, n)

\* Where machine d has something that was read once.
CarriedAt(d) == DOMAIN cache[d] \cup {k \in DOMAIN fetching[d] : fetching[d][k].buf # <<>>}

Chunks == {o \in Mail : o.type = "Chunk"}

Carried == (UNION {CarriedAt(d) : d \in Devices}) \cup {o.key : o \in Chunks}

\* The exchange of machine d: it makes an offer, named last, or holds one; and
\* whoever pastes and waits for it pasted that.
Here(d) ==
  /\ counter[d] \in Nat
  /\ local[d] = {} \/ remote[d] = {}
  /\ \A s \in LocalSeqs(d) : s = [device |-> d, counter |-> counter[d]]
  /\ IsFiniteSet(peers[d]) /\ IsFiniteSet(local[d]) /\ IsFiniteSet(remote[d])
  /\ IsFiniteSet(waiting[d])
  /\ \A k \in reading[d] : k \notin DOMAIN cache[d]
  /\ \A k \in DOMAIN fetching[d] : k.seq \in RemoteSeqs(d)
  /\ \A w \in waiting[d] :
       /\ w.at \in Nat
       /\ w.who = d => w.at \in DOMAIN asked /\ w.key.seq = asked[w.at].seq

\* What a step of machine d may say: of what it has, and has now.
Sayable(d, o) ==
  /\ o.type = "Offer" => o.seq \in Current(d)'
  /\ o.type = "OfferLocally" => o.seq \in RemoteSeqs(d)'
  /\ o.type = "ReadLocal" => o.key \in reading'[d] \ reading[d]
  /\ o.type = "Request" => o.offset \in Nat
  /\ o.type = "Chunk" => /\ o.key \in DOMAIN cache'[d]
                         /\ \E at \in Nat : o = Chunk(o.to, o.key, cache'[d][o.key], at)
  /\ o.type = "Deliver" =>
       /\ o.ticket \in DOMAIN asked
       /\ o.data # None => \E k \in DOMAIN cache'[d] :
                              o.data = cache'[d][k] /\ k.seq = asked[o.ticket].seq

Tells(d) == IsSeq(out') /\ \A o \in Elems(out') : Sayable(d, o)

\* Contents are in pieces.
InPieces(d) == /\ \A k \in DOMAIN cache[d] : IsSeq(cache[d][k])
               /\ \A k \in DOMAIN fetching[d] : IsSeq(fetching[d][k].buf)

\* A step of machine d, as far as contents go: under a name it has nothing but
\* what there was under it before.
PassesOn(d, k) == /\ k \in CarriedAt(d)' => k \in Carried
                  /\ \A n \in Copies : Holds(k, n) => HoldsAt(d, k, n)'

Passes(d) == (\A k : PassesOn(d, k)) /\ (InPieces(d) => InPieces(d)')

\* What it offers of its own is what it offered, and it goes on with that.
Stands(d) ==
  /\ counter'[d] = counter[d] /\ LocalSeqs(d)' \subseteq LocalSeqs(d)
  /\ \A k \in DOMAIN cache[d] : k \in DOMAIN cache'[d] \/ k.seq \notin LocalSeqs(d)'
  /\ \A k \in reading[d] : k \in reading'[d] \/ k.seq \notin LocalSeqs(d)'

GainsNothing(d) ==
  /\ \A k \in DOMAIN cache'[d] : k \in DOMAIN cache[d] /\ cache'[d][k] = cache[d][k]
  /\ \A k \in DOMAIN fetching'[d] :
       \/ k \in DOMAIN fetching[d] /\ fetching'[d][k].buf = fetching[d][k].buf
       \/ fetching'[d][k].buf = <<>>

\* What is in a chunk on its way is carried.
LEMMA ChunkCarries == ASSUME NEW m \in Mail, m.type = "Chunk" PROVE m.key \in Carried
<1>1. m \in Chunks
  BY DEF Chunks
<1> QED
  BY <1>1 DEF Carried

\* The size of a copy is a number.
LEMMA SizesAre == ASSUME NEW n \in Copies PROVE Sizes[n] \in Nat
BY SizesAssumption DEF Copies

\* Who only drops, or begins what is empty, carries nothing new.
LEMMA GainsNothingPasses ==
  ASSUME NEW d \in Devices, GainsNothing(d)
  PROVE  Passes(d)
<1>1. ASSUME NEW n \in Copies PROVE Piece(<<>>, 0, n)
  BY SizesAre DEF Piece
<1>2. \A k \in CarriedAt(d)' : k \in CarriedAt(d)
  BY DEF GainsNothing, CarriedAt
<1>3. \A k : \A n \in Copies : HoldsAt(d, k, n) => HoldsAt(d, k, n)'
  BY <1>1 DEF GainsNothing, HoldsAt
<1>4. InPieces(d) => InPieces(d)'
  BY FewIs DEF GainsNothing, InPieces
<1> QED
  BY <1>2, <1>3, <1>4 DEF Passes, PassesOn, Carried, Holds

\* A chunk of something is a part of it, and says when it is the last.
LEMMA ChunkIs ==
  ASSUME NEW S, NEW data \in Seq(S), NEW at \in Nat, NEW to, NEW k
  PROVE  /\ Chunk(to, k, data, at).data \in Seq(S)
         /\ Chunk(to, k, data, at).offset \in Nat
         /\ Chunk(to, k, data, at).offset + Len(Chunk(to, k, data, at).data) <= Len(data)
         /\ Chunk(to, k, data, at).last
              => Chunk(to, k, data, at).offset + Len(Chunk(to, k, data, at).data) = Len(data)
<1> DEFINE start == Min({at, Len(data)})
           end == Min({start + 1, Len(data)})
<1>1. Len(data) \in Nat
  BY LenProperties
<1>2. \A a, b \in Nat : Min({a, b}) \in Nat /\ Min({a, b}) <= a /\ Min({a, b}) <= b
                        /\ (Min({a, b}) = a \/ Min({a, b}) = b)
  <2> SUFFICES ASSUME NEW a \in Nat, NEW b \in Nat
               PROVE  /\ Min({a, b}) \in Nat /\ Min({a, b}) <= a /\ Min({a, b}) <= b
                      /\ (Min({a, b}) = a \/ Min({a, b}) = b)
    OBVIOUS
  <2>1. \E x \in {a, b} : \A y \in {a, b} : x =< y
    OBVIOUS
  <2>2. Min({a, b}) \in {a, b} /\ \A y \in {a, b} : Min({a, b}) =< y
    BY <2>1 DEF Min
  <2> QED
    BY <2>2
<1>3. start \in Nat /\ start <= Len(data)
  BY <1>1, <1>2
<1>4. end \in Nat /\ end <= Len(data) /\ start <= end
  <2> HIDE DEF start
  <2>1. start + 1 \in Nat
    BY <1>3
  <2>2. end \in Nat /\ end <= Len(data) /\ (end = start + 1 \/ end = Len(data))
    BY <1>1, <1>2, <2>1
  <2> HIDE DEF end
  <2> QED
    BY <1>1, <1>3, <2>2
<1> DEFINE c == Chunk(to, k, data, at)
<1>5. c.offset = start /\ c.data = SubSeq(data, start + 1, end)
  BY DEF Chunk
<1>6. c.last = (end = Len(data))
  BY Zenon DEF Chunk
<1> HIDE DEF start, end, c
<1>7. /\ SubSeq(data, start + 1, end) \in Seq(S)
      /\ Len(SubSeq(data, start + 1, end)) = end - start
  <2>1. \A i \in start + 1 .. end : data[i] \in S
    BY <1>1, <1>3, <1>4, ElementOfSeq
  <2>2. start + 1 \in Int /\ end \in Int
    BY <1>3, <1>4
  <2>3. /\ SubSeq(data, start + 1, end) \in Seq(S)
        /\ Len(SubSeq(data, start + 1, end))
             = IF start + 1 <= end THEN end - (start + 1) + 1 ELSE 0
    BY <2>1, <2>2, SubSeqProperties
  <2> QED
    BY <2>3, <1>3, <1>4
<1>8. /\ c.data \in Seq(S) /\ c.offset \in Nat
      /\ c.offset + Len(c.data) = end
  BY <1>3, <1>4, <1>5, <1>7
<1> QED
  BY <1>4, <1>6, <1>8 DEF c

\* A chunk of all of a copy is a piece of it.
LEMMA ChunkFits ==
  ASSUME NEW n \in Copies, NEW data, Whole(data, n), NEW at \in Nat, NEW to, NEW k
  PROVE  Fits(Chunk(to, k, data, at), k, n)
<1> DEFINE c == Chunk(to, k, data, at)
<1>1. data \in Seq({n}) /\ Len(data) = Sizes[n]
  BY DEF Whole
<1>2. /\ c.data \in Seq({n}) /\ c.offset \in Nat
      /\ c.offset + Len(c.data) <= Sizes[n]
      /\ c.last => c.offset + Len(c.data) = Sizes[n]
  BY <1>1, ChunkIs
<1> HIDE DEF c
<1> QED
  BY <1>2 DEF Fits, Piece, c

-----------------------------------------------------------------------------
(* What is said.                                                           *)

\* What fail says: refusals, and answers with nothing.
LEMMA FailedIs ==
  ASSUME NEW d \in Devices, Here(d), NEW ws \in SUBSET waiting[d]
  PROVE  IsSeq(Failed(d, ws)) /\ \A o \in Elems(Failed(d, ws)) : Sayable(d, o)
<1> DEFINE f == [w \in ws |-> IF w.who = d THEN Answered(d, w.at, None)
                                           ELSE Refuse(w.who, w.key)]
<1>1. IsFiniteSet({f[w] : w \in ws})
  <2>1. IsFiniteSet(ws)
    BY FS_Subset DEF Here
  <2>2. DOMAIN f = ws
    OBVIOUS
  <2> HIDE DEF f
  <2> QED
    BY <2>1, <2>2, ImageFinite
<1>2. Failed(d, ws) = SetToSeq({f[w] : w \in ws})
  BY DEF Failed
<1>3. \A o \in {f[w] : w \in ws} : Sayable(d, o)
  BY DEF Sayable, Here, Answered, Refuse
<1> HIDE DEF f
<1> QED
  BY <1>1, <1>2, <1>3, ListedIs

\* What serve says: chunks and answers of what has been put at hand.
LEMMA ServedIs ==
  ASSUME NEW d \in Devices, Here(d), NEW k, NEW data,
         k \in DOMAIN cache'[d], cache'[d][k] = data
  PROVE  /\ IsSeq(Served(d, WaitingOn(d, k), data))
         /\ \A o \in Elems(Served(d, WaitingOn(d, k), data)) : Sayable(d, o)
<1> DEFINE ws == WaitingOn(d, k)
           f == [w \in ws |-> IF w.who = d THEN Answered(d, w.at, data)
                                           ELSE Chunk(w.who, w.key, data, w.at)]
<1>1. IsFiniteSet({f[w] : w \in ws})
  <2>1. IsFiniteSet(ws)
    BY FS_Subset DEF Here, WaitingOn
  <2>2. DOMAIN f = ws
    OBVIOUS
  <2> HIDE DEF f, ws
  <2> QED
    BY <2>1, <2>2, ImageFinite
<1>2. Served(d, ws, data) = SetToSeq({f[w] : w \in ws})
  BY DEF Served
<1>3. ASSUME NEW w \in ws PROVE Sayable(d, f[w])
  <2>1. w \in waiting[d] /\ w.key = k /\ w.at \in Nat
    BY DEF WaitingOn, Here
  <2>2. CASE w.who = d
    <3>1. f[w] = Answered(d, w.at, data)
      BY <2>2
    <3> QED
      BY <3>1, <2>1, <2>2 DEF Sayable, Here, Answered
  <2>3. CASE w.who # d
    <3>1. f[w] = Chunk(w.who, k, data, w.at)
      BY <2>1, <2>3
    <3>2. f[w].type = "Chunk" /\ f[w].key = k /\ f[w].to = w.who
      BY <3>1 DEF Chunk
    <3> HIDE DEF f
    <3> QED
      BY <3>1, <3>2, <2>1 DEF Sayable
  <2> QED
    BY <2>2, <2>3
<1> HIDE DEF f
<1> QED
  BY <1>1, <1>2, <1>3, ListedIs

\* One offer for every peer.
LEMMA OffersAre ==
  ASSUME NEW d \in Devices, NEW ps, IsFiniteSet(ps), NEW s, NEW fs
  PROVE  /\ IsSeq(SetToSeq({Offer(p, s, fs) : p \in ps}))
         /\ \A o \in Elems(SetToSeq({Offer(p, s, fs) : p \in ps})) :
              s \in Current(d)' => Sayable(d, o)
<1> DEFINE f == [p \in ps |-> Offer(p, s, fs)]
<1>1. DOMAIN f = ps /\ {f[p] : p \in ps} = {Offer(p, s, fs) : p \in ps}
  OBVIOUS
<1>2. \A o \in {f[p] : p \in ps} : s \in Current(d)' => Sayable(d, o)
  BY DEF Sayable, Offer
<1> HIDE DEF f
<1>3. IsFiniteSet({f[p] : p \in ps})
  BY <1>1, ImageFinite
<1> QED
  BY <1>1, <1>2, <1>3, ListedIs

\* One thing, and one list after another.
LEMMA TellsOne ==
  ASSUME NEW d \in Devices, NEW x, out' = <<x>>, Sayable(d, x)
  PROVE  Tells(d)
BY FewIs DEF Tells

\* Nothing said.
LEMMA TellsNothing ==
  ASSUME NEW d \in Devices, out' = <<>>
  PROVE  Tells(d)
BY FewIs DEF Tells

\* One list after another may be said when both may.
LEMMA TellsBoth ==
  ASSUME NEW d \in Devices, NEW q, NEW r, IsSeq(q), IsSeq(r),
         \A o \in Elems(q) \cup Elems(r) : Sayable(d, o)
  PROVE  IsSeq(q \o r) /\ \A o \in Elems(q \o r) : Sayable(d, o)
BY JoinedIs

\* A step of machine d by itself.
Behaves(d) == Here(d)' /\ Tells(d) /\ Passes(d) /\ Stands(d)

\* A peer comes: it is told what is offered here, or held here.
LEMMA PeerUpBehaves ==
  ASSUME IInv, NEW d \in Devices, Here(d), UNCHANGED asked, NEW p, PeerUp(d, p)
  PROVE  Behaves(d) /\ RemoteSeqs(d)' = RemoteSeqs(d)
<1>1. peers'[d] = peers[d] \cup {p} /\ UNCHANGED <<counter, local, remote, cache, reading, fetching, waiting>>
  BY DEF PeerUp, IInv, Shape, On
<1>2. Here(d)'
  <2>1. IsFiniteSet(peers[d])
    BY DEF Here
  <2>2. IsFiniteSet(peers[d] \cup {p})
    BY <2>1, FS_AddElement
  <2>3. IsFiniteSet(peers'[d])
    BY <1>1, <2>2
  <2> QED
    BY <1>1, <2>3 DEF Here, LocalSeqs, RemoteSeqs
<1>3. Tells(d)
  <2>1. CASE out' = <<>>
    BY <2>1, TellsNothing
  <2>2. CASE out' = SetToSeq({Offer(p, o.seq, o.formats) : o \in Offered(d)})
    <3> DEFINE f == [o \in Offered(d) |-> Offer(p, o.seq, o.formats)]
    <3>1. DOMAIN f = Offered(d) /\ {f[o] : o \in Offered(d)} = {Offer(p, o.seq, o.formats) : o \in Offered(d)}
      OBVIOUS
    <3>2. IsFiniteSet(Offered(d))
      BY DEF Offered, Here
    <3>3. \A o \in {f[q] : q \in Offered(d)} : Sayable(d, o)
      <4> SUFFICES ASSUME NEW q \in Offered(d) PROVE Sayable(d, f[q])
        OBVIOUS
      <4>1. q.seq \in Current(d)'
        BY <1>1 DEF Offered, Current, LocalSeqs, RemoteSeqs
      <4>2. f[q].type = "Offer" /\ f[q].seq = q.seq
        BY DEF Offer
      <4> QED
        BY <4>1, <4>2 DEF Sayable
    <3> HIDE DEF f
    <3>4. IsFiniteSet({f[o] : o \in Offered(d)})
      BY <3>1, <3>2, ImageFinite
    <3> QED
      BY <2>2, <3>1, <3>3, <3>4, ListedIs DEF Tells
  <2> QED
    BY <2>1, <2>2 DEF PeerUp
<1>4. Passes(d) /\ Stands(d)
  BY <1>1, GainsNothingPasses DEF GainsNothing, Stands, LocalSeqs
<1> QED
  BY <1>1, <1>2, <1>3, <1>4 DEF Behaves, RemoteSeqs

\* A peer goes: what was asked of it, and its offers, are given up.
LEMMA PeerGoneBehaves ==
  ASSUME IInv, NEW d \in Devices, Here(d), UNCHANGED asked, NEW p, PeerGone(d, p)
  PROVE  Behaves(d) /\ RemoteSeqs(d)' \subseteq RemoteSeqs(d)
<1> DEFINE lost == {k \in DOMAIN fetching[d] : fetching[d][k].from = p}
           past == {o.seq : o \in HeldFrom(d, p)}
           over == {w \in waiting[d] : w.key \in lost \/ w.key.seq \in past}
<1>1. /\ peers'[d] = peers[d] \ {p}
      /\ counter' = counter /\ local' = local
      /\ remote'[d] = remote[d] \ HeldFrom(d, p)
      /\ cache'[d] = Without(cache[d], {k \in DOMAIN cache[d] : k.seq \in past})
      /\ reading'[d] = {k \in reading[d] : k.seq \notin past}
      /\ fetching'[d] = Without(fetching[d],
           {k \in DOMAIN fetching[d] : k \in lost \/ k.seq \in past})
      /\ waiting'[d] \subseteq waiting[d]
      /\ out' = Failed(d, {w \in over : w.who # p})
                \o (IF past = {} THEN <<>> ELSE <<ReleaseHere(d)>>)
  BY Zenon DEF IInv, Shape, On, PeerGone, Outdated
<1>2. /\ DOMAIN cache'[d] = {k \in DOMAIN cache[d] : k.seq \notin past}
      /\ \A k \in DOMAIN cache'[d] : cache'[d][k] = cache[d][k]
      /\ DOMAIN fetching'[d] = {k \in DOMAIN fetching[d] : k \notin lost /\ k.seq \notin past}
      /\ \A k \in DOMAIN fetching'[d] : fetching'[d][k] = fetching[d][k]
  BY <1>1, Zenon DEF Without, Restrict
<1>3. \A s \in RemoteSeqs(d) : s \in past \/ s \in RemoteSeqs(d)'
  BY <1>1, Zenon DEF RemoteSeqs
<1>4. past \subseteq RemoteSeqs(d) /\ RemoteSeqs(d)' \subseteq RemoteSeqs(d)
  BY <1>1, Zenon DEF RemoteSeqs, HeldFrom
<1>5. \A s \in LocalSeqs(d)' : s \in LocalSeqs(d) /\ s \notin past
  BY <1>1, <1>4, Zenon DEF Here, LocalSeqs, RemoteSeqs
<1>6. Here(d)'
  <2>1. /\ IsFiniteSet(peers'[d]) /\ IsFiniteSet(remote'[d]) /\ IsFiniteSet(waiting'[d])
        /\ IsFiniteSet(local'[d])
    BY <1>1, FS_Subset, Zenon DEF Here
  <2>2. \A k \in DOMAIN fetching'[d] : k.seq \in RemoteSeqs(d)'
    BY <1>2, <1>3 DEF Here
  <2>3. local'[d] = {} \/ remote'[d] = {}
    BY <1>1, Zenon DEF Here
  <2>4. \A k \in reading'[d] : k \notin DOMAIN cache'[d]
    BY <1>1, <1>2, Zenon DEF Here
  <2> HIDE DEF past, lost, over
  <2> QED
    BY <1>1, <2>1, <2>2, <2>3, <2>4 DEF Here, LocalSeqs
<1>7. Tells(d)
  <2> DEFINE ws == {w \in over : w.who # p}
             r == IF past = {} THEN <<>> ELSE <<ReleaseHere(d)>>
  <2>1. ws \in SUBSET waiting[d]
    OBVIOUS
  <2>2. IsSeq(r) /\ \A o \in Elems(r) : Sayable(d, o)
    <3>1. Sayable(d, ReleaseHere(d))
      BY DEF Sayable, ReleaseHere
    <3> HIDE DEF past
    <3> QED
      BY <3>1, FewIs
  <2>3. out' = Failed(d, ws) \o r
    BY <1>1
  <2> HIDE DEF ws, r
  <2>4. IsSeq(Failed(d, ws)) /\ \A o \in Elems(Failed(d, ws)) : Sayable(d, o)
    BY <2>1, FailedIs
  <2> QED
    BY <2>2, <2>3, <2>4, TellsBoth DEF Tells
<1>8. Passes(d)
  BY <1>2, GainsNothingPasses DEF GainsNothing
<1>9. Stands(d)
  <2>1. \A k \in DOMAIN cache[d] : k \in DOMAIN cache'[d] \/ k.seq \notin LocalSeqs(d)'
    BY <1>2, <1>5
  <2>2. \A k \in reading[d] : k \in reading'[d] \/ k.seq \notin LocalSeqs(d)'
    BY <1>1, <1>5
  <2> QED
    BY <1>1, <1>5, <2>1, <2>2 DEF Stands
<1> QED
  BY <1>4, <1>6, <1>7, <1>8, <1>9 DEF Behaves

\* An offer arrives: what was there is forgotten, and it is passed on.
LEMMA OfferArrivedBehaves ==
  ASSUME IInv, NEW d \in Devices, Here(d), UNCHANGED asked, NEW p, NEW s, NEW fs,
         OfferArrived(d, p, s, fs)
  PROVE  Behaves(d) /\ RemoteSeqs(d)' \subseteq RemoteSeqs(d) \cup {s}
<1> DEFINE past == LocalSeqs(d) \cup (RemoteSeqs(d) \ {s})
           some == fs \cap allowed[d]
<1>1. CASE /\ out' = <<>>
           /\ UNCHANGED <<peers, counter, local, remote, cache, reading, fetching, waiting>>
  <2>1. Here(d)'
    BY <1>1 DEF Here, LocalSeqs, RemoteSeqs
  <2>2. Passes(d) /\ Stands(d)
    BY <1>1, GainsNothingPasses DEF GainsNothing, Stands, LocalSeqs
  <2> QED
    BY <1>1, <2>1, <2>2, TellsNothing DEF Behaves, RemoteSeqs
<1>2. CASE /\ Forget(d, past)
           /\ Now(d, {}, {[seq |-> s, from |-> p, formats |-> some]})
           /\ out' = Stale(d, past) \o <<PlaceHere(d, s, some)>> \o ToPeers(d, {p}, s, some)
           /\ UNCHANGED <<peers, counter>>
  <2>0. Shape
    BY DEF IInv
  <2>1. /\ local'[d] = {} /\ remote'[d] = {[seq |-> s, from |-> p, formats |-> some]}
        /\ peers' = peers /\ counter' = counter
    BY <1>2, <2>0 DEF Shape, On, Now
  <2>2. LocalSeqs(d)' = {} /\ RemoteSeqs(d)' = {s}
    BY <2>1 DEF LocalSeqs, RemoteSeqs
  <2>3. /\ DOMAIN cache'[d] = {k \in DOMAIN cache[d] : k.seq \notin past}
        /\ reading'[d] = {k \in reading[d] : k.seq \notin past}
        /\ DOMAIN fetching'[d] = {k \in DOMAIN fetching[d] : k.seq \notin past}
        /\ \A k \in DOMAIN fetching'[d] : fetching'[d][k] = fetching[d][k]
        /\ waiting'[d] = {w \in waiting[d] : w.key.seq \notin past}
    BY <1>2, <2>0, ForgetLeaves
  <2>4. \A k \in DOMAIN cache'[d] : cache'[d][k] = cache[d][k]
    BY <1>2, <2>0 DEF Forget, Without, Restrict, Shape, On
  <2>5. Here(d)'
    <3>0. IsFiniteSet({[seq |-> s, from |-> p, formats |-> some]})
      BY FS_Singleton
    <3>1. IsFiniteSet(peers'[d]) /\ IsFiniteSet(local'[d]) /\ IsFiniteSet(remote'[d])
      <4>1. IsFiniteSet(peers[d])
        BY DEF Here
      <4>2. IsFiniteSet({})
        BY FS_EmptySet
      <4> QED
        BY <2>1, <3>0, <4>1, <4>2
    <3>2. IsFiniteSet(waiting'[d])
      BY <2>3, FS_Subset DEF Here
    <3>3. \A k \in DOMAIN fetching'[d] : k.seq \in RemoteSeqs(d)'
      BY <2>2, <2>3 DEF Here
    <3>4. \A k \in reading'[d] : k \notin DOMAIN cache'[d]
      BY <2>3 DEF Here
    <3> HIDE DEF past, some
    <3> QED
      BY <2>1, <2>2, <2>3, <3>1, <3>2, <3>3, <3>4 DEF Here
  <2>6. Tells(d)
    <3>1. s \in Current(d)' /\ s \in RemoteSeqs(d)'
      BY <2>2 DEF Current
    <3>2. Stale(d, past) = Failed(d, {w \in waiting[d] : w.key.seq \in past})
      BY DEF Stale
    <3>3. {w \in waiting[d] : w.key.seq \in past} \in SUBSET waiting[d]
      OBVIOUS
    <3>4. IsFiniteSet(peers[d] \ {p})
      BY FS_Difference DEF Here
    <3> HIDE DEF past, some
    <3>5. IsSeq(Stale(d, past)) /\ \A o \in Elems(Stale(d, past)) : Sayable(d, o)
      BY <3>2, <3>3, FailedIs
    <3>6. /\ IsSeq(ToPeers(d, {p}, s, some))
          /\ \A o \in Elems(ToPeers(d, {p}, s, some)) : Sayable(d, o)
      <4> DEFINE ps == peers[d] \ {p}
                 q == SetToSeq({Offer(x, s, some) : x \in ps})
      <4>2. ToPeers(d, {p}, s, some) = q
        BY DEF ToPeers
      <4>3. IsSeq(q) /\ \A o \in Elems(q) : s \in Current(d)' => Sayable(d, o)
        BY <3>4, OffersAre
      <4> HIDE DEF q
      <4> QED
        BY <3>1, <4>2, <4>3
    <3>7. Sayable(d, PlaceHere(d, s, some))
      BY <3>1 DEF Sayable, PlaceHere
    <3>8. /\ IsSeq(Stale(d, past) \o <<PlaceHere(d, s, some)>>)
          /\ \A o \in Elems(Stale(d, past) \o <<PlaceHere(d, s, some)>>) : Sayable(d, o)
      BY <3>5, <3>7, FewIs, TellsBoth
    <3> QED
      BY <1>2, <3>6, <3>8, TellsBoth DEF Tells
  <2>7. Passes(d)
    BY <2>3, <2>4, GainsNothingPasses DEF GainsNothing
  <2>8. Stands(d)
    BY <2>1, <2>2 DEF Stands
  <2> QED
    BY <2>2, <2>5, <2>6, <2>7, <2>8 DEF Behaves
<1> QED
  BY <1>1, <1>2 DEF OfferArrived

\* Asking another machine changes nothing but that it was asked.
LEMMA FetchBehaves ==
  ASSUME IInv, NEW d \in Devices, Here(d), NEW k, Held(d, k), Fetch(d, k)
  PROVE  /\ Tells(d)
         /\ DOMAIN fetching'[d] = DOMAIN fetching[d] \cup {k}
         /\ \A q \in DOMAIN fetching'[d] :
              \/ q \in DOMAIN fetching[d] /\ fetching'[d][q] = fetching[d][q]
              \/ fetching'[d][q].buf = <<>>
<1>1. CASE k \in DOMAIN fetching[d]
  BY <1>1, TellsNothing DEF Fetch
<1>2. CASE k \notin DOMAIN fetching[d]
  <2>1. /\ out' = <<Request(Owner(d), k, 0)>>
        /\ fetching'[d] = With(fetching[d], k, [from |-> Owner(d), buf |-> <<>>])
    BY <1>2 DEF Fetch, IInv, Shape, On
  <2>2. Sayable(d, Request(Owner(d), k, 0))
    BY DEF Sayable, Request
  <2> QED
    BY <2>1, <2>2, TellsOne DEF With
<1> QED
  BY <1>1, <1>2

\* A step that adds somebody who waits, and asks for what he waits for.
LEMMA AskingBehaves ==
  ASSUME IInv, NEW d \in Devices, Here(d), UNCHANGED asked, NEW w, w.at \in Nat,
         w.who = d => w.at \in DOMAIN asked /\ w.key.seq = asked[w.at].seq,
         waiting'[d] = waiting[d] \cup {w} \/ waiting'[d] = waiting[d],
         UNCHANGED <<peers, counter, local, remote, cache>>,
         NEW k, Held(d, k) \/ fetching' = fetching,
         \A q \in DOMAIN fetching'[d] :
              \/ q \in DOMAIN fetching[d] /\ fetching'[d][q] = fetching[d][q]
              \/ fetching'[d][q].buf = <<>>,
         DOMAIN fetching'[d] \subseteq DOMAIN fetching[d] \cup {k},
         reading[d] \subseteq reading'[d],
         \A q \in reading'[d] : q \notin DOMAIN cache[d]
  PROVE  Here(d)' /\ Passes(d) /\ Stands(d) /\ RemoteSeqs(d)' = RemoteSeqs(d)
<1>1. LocalSeqs(d)' = LocalSeqs(d) /\ RemoteSeqs(d)' = RemoteSeqs(d)
  BY DEF LocalSeqs, RemoteSeqs
<1>2. IsFiniteSet(waiting'[d])
  <2>1. IsFiniteSet(waiting[d])
    BY DEF Here
  <2>2. IsFiniteSet(waiting[d] \cup {w})
    BY <2>1, FS_AddElement
  <2> QED
    BY <2>1, <2>2
<1>3. \A q \in DOMAIN fetching'[d] : q.seq \in RemoteSeqs(d)'
  BY <1>1 DEF Here, Held, RemoteSeqs
<1>4. Here(d)'
  BY <1>1, <1>2, <1>3 DEF Here
<1>5. Passes(d)
  BY GainsNothingPasses DEF GainsNothing
<1> QED
  BY <1>1, <1>4, <1>5 DEF Stands

\* A request arrives: it is answered, or waits for a read or a fetch.
LEMMA RequestArrivedBehaves ==
  ASSUME IInv, NEW d \in Devices, Here(d), UNCHANGED asked, NEW p, p # d, NEW k,
         NEW n \in Nat, RequestArrived(d, p, k, n)
  PROVE  Behaves(d) /\ RemoteSeqs(d)' = RemoteSeqs(d)
<1>1. UNCHANGED <<peers, counter, local, remote, cache>> /\ Shape
  BY DEF RequestArrived, IInv
<1>2. Waits(k, p, n).at = n /\ Waits(k, p, n).who = p /\ Waits(k, p, n).key = k
  BY DEF Waits
<1> DEFINE w == Waits(k, p, n)
<1>3. \A q \in reading[d] : q \notin DOMAIN cache[d]
  BY DEF Here
<1>4. CASE /\ k \in DOMAIN cache[d] /\ out' = <<Chunk(p, k, cache[d][k], n)>>
           /\ UNCHANGED <<reading, fetching, waiting>>
  <2>1. Chunk(p, k, cache[d][k], n).type = "Chunk"
        /\ Chunk(p, k, cache[d][k], n).key = k /\ Chunk(p, k, cache[d][k], n).to = p
    BY DEF Chunk
  <2>2. Sayable(d, Chunk(p, k, cache[d][k], n))
    BY <1>1, <1>4, <2>1 DEF Sayable
  <2>3. Tells(d)
    BY <1>4, <2>2, TellsOne
  <2> HIDE DEF w
  <2>4. Here(d)' /\ Passes(d) /\ Stands(d) /\ RemoteSeqs(d)' = RemoteSeqs(d)
    BY <1>1, <1>4, GainsNothingPasses
       DEF Here, LocalSeqs, RemoteSeqs, Stands, GainsNothing
  <2> QED
    BY <2>3, <2>4 DEF Behaves
<1>5. CASE /\ k \notin DOMAIN cache[d] /\ Ours(d, k)
           /\ waiting' = [waiting EXCEPT ![d] = @ \cup {w}]
           /\ reading' = [reading EXCEPT ![d] = @ \cup {k}]
           /\ out' = IF k \in reading[d] THEN <<>> ELSE <<ReadHere(d, k)>>
           /\ UNCHANGED fetching
  <2>1. waiting'[d] = waiting[d] \cup {w} /\ reading'[d] = reading[d] \cup {k}
    BY <1>1, <1>5 DEF Shape, On
  <2>2. Tells(d)
    <3>1. CASE k \in reading[d]
      BY <1>5, <3>1, TellsNothing
    <3>2. CASE k \notin reading[d]
      <4>1. Sayable(d, ReadHere(d, k))
        BY <2>1, <3>2 DEF Sayable, ReadHere
      <4> QED
        BY <1>5, <3>2, <4>1, TellsOne
    <3> QED
      BY <3>1, <3>2
  <2> HIDE DEF w
  <2>3. Here(d)' /\ Passes(d) /\ Stands(d) /\ RemoteSeqs(d)' = RemoteSeqs(d)
    <3>1. \A q \in reading'[d] : q \notin DOMAIN cache[d]
      BY <1>3, <1>5, <2>1
    <3> QED
      BY <1>1, <1>2, <1>5, <2>1, <3>1, AskingBehaves DEF w
  <2> QED
    BY <2>2, <2>3 DEF Behaves
<1>6. CASE /\ k \notin DOMAIN cache[d] /\ Held(d, k)
           /\ waiting' = [waiting EXCEPT ![d] = @ \cup {w}]
           /\ Fetch(d, k) /\ UNCHANGED reading
  <2>1. waiting'[d] = waiting[d] \cup {w}
    BY <1>1, <1>6 DEF Shape, On
  <2>2. Tells(d) /\ DOMAIN fetching'[d] = DOMAIN fetching[d] \cup {k}
        /\ \A q \in DOMAIN fetching'[d] :
              \/ q \in DOMAIN fetching[d] /\ fetching'[d][q] = fetching[d][q]
              \/ fetching'[d][q].buf = <<>>
    BY <1>6, FetchBehaves
  <2>3. Here(d)' /\ Passes(d) /\ Stands(d) /\ RemoteSeqs(d)' = RemoteSeqs(d)
    BY <1>1, <1>2, <1>3, <1>6, <2>1, <2>2, AskingBehaves DEF w
  <2> QED
    BY <2>2, <2>3 DEF Behaves
<1>7. CASE out' = <<Refuse(p, k)>> /\ UNCHANGED <<reading, fetching, waiting>>
  <2>1. Sayable(d, Refuse(p, k))
    BY DEF Sayable, Refuse
  <2>2. Tells(d)
    BY <1>7, <2>1, TellsOne
  <2>3. Here(d)' /\ Passes(d) /\ Stands(d) /\ RemoteSeqs(d)' = RemoteSeqs(d)
    BY <1>1, <1>7, GainsNothingPasses
       DEF Here, LocalSeqs, RemoteSeqs, Stands, GainsNothing
  <2> QED
    BY <2>2, <2>3 DEF Behaves
<1> QED
  BY <1>4, <1>5, <1>6, <1>7 DEF RequestArrived

\* Contents that came for k, or did not.
LEMMA FetchOver ==
  ASSUME IInv, NEW d \in Devices, Here(d), NEW k \in DOMAIN fetching[d],
         fetching' = [fetching EXCEPT ![d] = Without(@, {k})],
         UNCHANGED <<asked, peers, counter, local, remote, reading>>
  PROVE  /\ DOMAIN fetching'[d] = DOMAIN fetching[d] \ {k}
         /\ \A q \in DOMAIN fetching'[d] : fetching'[d][q] = fetching[d][q]
         /\ LocalSeqs(d) = {} /\ reading[d] = {}
         /\ LocalSeqs(d)' = LocalSeqs(d) /\ RemoteSeqs(d)' = RemoteSeqs(d)
<1>1. fetching'[d] = Without(fetching[d], {k})
  BY DEF IInv, Shape, On
<1>2. k.seq \in RemoteSeqs(d)
  BY DEF Here
<1>3. local[d] = {}
  BY <1>2 DEF Here, RemoteSeqs
<1>4. reading[d] \subseteq {q \in reading[d] : q.seq \in LocalSeqs(d)}
  BY DEF IInv, Sound, Kept
<1> QED
  BY <1>1, <1>3, <1>4 DEF Without, Restrict, LocalSeqs, RemoteSeqs

\* Everyone is told that they will not come.
LEMMA FailBehaves ==
  ASSUME IInv, NEW d \in Devices, Here(d), NEW k, Fail(d, k),
         UNCHANGED <<asked, peers, counter, local, remote>>,
         DOMAIN fetching'[d] \subseteq DOMAIN fetching[d],
         \A q \in DOMAIN fetching'[d] : fetching'[d][q] = fetching[d][q],
         reading'[d] \subseteq reading[d]
  PROVE  Here(d)' /\ Tells(d) /\ Passes(d)
<1>1. /\ waiting'[d] = waiting[d] \ WaitingOn(d, k)
      /\ cache' = cache /\ out' = Failed(d, WaitingOn(d, k))
  BY DEF Fail, IInv, Shape, On
<1>2. WaitingOn(d, k) \in SUBSET waiting[d]
  BY DEF WaitingOn
<1>3. Tells(d)
  BY <1>1, <1>2, FailedIs DEF Tells
<1>4. IsFiniteSet(waiting'[d])
  BY <1>1, FS_Subset DEF Here
<1>5. Here(d)'
  BY <1>1, <1>4 DEF Here, LocalSeqs, RemoteSeqs
<1>6. Passes(d)
  BY <1>1, GainsNothingPasses DEF GainsNothing
<1> QED
  BY <1>3, <1>5, <1>6

\* Everyone is given them, and they are kept.
LEMMA ServeBehaves ==
  ASSUME IInv, NEW d \in Devices, Here(d), NEW k, NEW data, Serve(d, k, data),
         UNCHANGED <<asked, peers, counter, local, remote>>,
         DOMAIN fetching'[d] \subseteq DOMAIN fetching[d],
         reading'[d] \subseteq reading[d] \ {k}
  PROVE  /\ Here(d)' /\ Tells(d)
         /\ DOMAIN cache'[d] = DOMAIN cache[d] \cup {k} /\ cache'[d][k] = data
         /\ \A q \in DOMAIN cache[d] \ {k} : cache'[d][q] = cache[d][q]
<1>1. /\ waiting'[d] = waiting[d] \ WaitingOn(d, k)
      /\ cache'[d] = With(cache[d], k, data)
      /\ out' = Served(d, WaitingOn(d, k), data)
  BY DEF Serve, IInv, Shape, On
<1>2. /\ DOMAIN cache'[d] = DOMAIN cache[d] \cup {k} /\ cache'[d][k] = data
      /\ \A q \in DOMAIN cache[d] \ {k} : cache'[d][q] = cache[d][q]
  BY <1>1 DEF With
<1>3. Tells(d)
  BY <1>1, <1>2, ServedIs DEF Tells
<1>4. IsFiniteSet(waiting'[d])
  BY <1>1, FS_Subset DEF Here
<1>5. Here(d)'
  BY <1>1, <1>2, <1>4 DEF Here, LocalSeqs, RemoteSeqs
<1> QED
  BY <1>2, <1>3, <1>5

\* A fetch is refused.
LEMMA UnavailableArrivedBehaves ==
  ASSUME IInv, NEW d \in Devices, Here(d), UNCHANGED asked, NEW p, NEW k,
         UnavailableArrived(d, p, k)
  PROVE  Behaves(d) /\ RemoteSeqs(d)' = RemoteSeqs(d)
<1>1. UNCHANGED <<peers, counter, local, remote, reading>>
  BY DEF UnavailableArrived
<1>2. CASE /\ k \in DOMAIN fetching[d] /\ Fail(d, k)
           /\ fetching' = [fetching EXCEPT ![d] = Without(@, {k})]
  <2>1. /\ DOMAIN fetching'[d] = DOMAIN fetching[d] \ {k}
        /\ \A q \in DOMAIN fetching'[d] : fetching'[d][q] = fetching[d][q]
        /\ LocalSeqs(d)' = LocalSeqs(d) /\ RemoteSeqs(d)' = RemoteSeqs(d)
    BY <1>1, <1>2, FetchOver
  <2>2. Here(d)' /\ Tells(d) /\ Passes(d)
    BY <1>1, <1>2, <2>1, FailBehaves
  <2>3. Stands(d)
    BY <1>1, <1>2, <2>1 DEF Stands, Fail
  <2> QED
    BY <2>1, <2>2, <2>3 DEF Behaves
<1>3. CASE out' = <<>> /\ UNCHANGED <<cache, fetching, waiting>>
  <2>1. Here(d)' /\ Passes(d) /\ Stands(d) /\ RemoteSeqs(d)' = RemoteSeqs(d)
    BY <1>1, <1>3, GainsNothingPasses
       DEF Here, LocalSeqs, RemoteSeqs, Stands, GainsNothing
  <2> QED
    BY <1>3, <2>1, TellsNothing DEF Behaves
<1> QED
  BY <1>2, <1>3 DEF UnavailableArrived, Asked

\* A paste on the machine itself asks.
LEMMA WantedBehaves ==
  ASSUME IInv, NEW d \in Devices, Here(d), UNCHANGED asked, NEW t, NEW k,
         t \in DOMAIN asked, t \in Nat, k.seq = asked[t].seq, Wanted(d, t, k)
  PROVE  Behaves(d) /\ RemoteSeqs(d)' = RemoteSeqs(d)
<1>1. UNCHANGED <<peers, counter, local, remote, cache, reading>> /\ Shape
  BY DEF Wanted, IInv
<1>2. Waits(k, d, t).at = t /\ Waits(k, d, t).who = d /\ Waits(k, d, t).key = k
  BY DEF Waits
<1> DEFINE w == Waits(k, d, t)
<1>3. \A q \in reading[d] : q \notin DOMAIN cache[d]
  BY DEF Here
<1>4. ASSUME NEW data, out' = <<Answered(d, t, data)>>,
             UNCHANGED <<fetching, waiting>>,
             data = None \/ (k \in DOMAIN cache[d] /\ data = cache[d][k])
      PROVE  Behaves(d) /\ RemoteSeqs(d)' = RemoteSeqs(d)
  <2>1. Sayable(d, Answered(d, t, data))
    BY <1>1, <1>4 DEF Sayable, Answered
  <2>2. Tells(d)
    BY <1>4, <2>1, TellsOne
  <2> HIDE DEF w
  <2>3. Here(d)' /\ Passes(d) /\ Stands(d) /\ RemoteSeqs(d)' = RemoteSeqs(d)
    BY <1>1, <1>4, GainsNothingPasses
       DEF Here, LocalSeqs, RemoteSeqs, Stands, GainsNothing
  <2> QED
    BY <2>2, <2>3 DEF Behaves
<1>5. CASE /\ k \notin DOMAIN cache[d] /\ Held(d, k)
           /\ waiting' = [waiting EXCEPT ![d] = @ \cup {w}]
           /\ Fetch(d, k)
  <2>1. waiting'[d] = waiting[d] \cup {w}
    BY <1>1, <1>5 DEF Shape, On
  <2>2. Tells(d) /\ DOMAIN fetching'[d] = DOMAIN fetching[d] \cup {k}
        /\ \A q \in DOMAIN fetching'[d] :
              \/ q \in DOMAIN fetching[d] /\ fetching'[d][q] = fetching[d][q]
              \/ fetching'[d][q].buf = <<>>
    BY <1>5, FetchBehaves
  <2>3. Here(d)' /\ Passes(d) /\ Stands(d) /\ RemoteSeqs(d)' = RemoteSeqs(d)
    BY <1>1, <1>2, <1>3, <1>5, <2>1, <2>2, AskingBehaves DEF w
  <2> QED
    BY <2>2, <2>3 DEF Behaves
<1> QED
  BY <1>4, <1>5 DEF Wanted

\* What may be shared is changed.
LEMMA ConfigureBehaves ==
  ASSUME NEW d \in Devices, Here(d), UNCHANGED asked, NEW on, NEW fs,
         Configure(d, on, fs)
  PROVE  Behaves(d) /\ RemoteSeqs(d)' = RemoteSeqs(d)
<1>1. Here(d)' /\ Passes(d) /\ Stands(d) /\ RemoteSeqs(d)' = RemoteSeqs(d)
  BY GainsNothingPasses
     DEF Here, LocalSeqs, RemoteSeqs, Stands, GainsNothing, Configure
<1> QED
  BY <1>1, TellsNothing DEF Behaves, Configure

\* A daemon starts again, with an exchange that knows nothing.
LEMMA ForgottenBehaves ==
  ASSUME IInv, On(counter), NEW d \in Devices, Here(d), UNCHANGED asked, Forgotten(d)
  PROVE  Here(d)' /\ Tells(d) /\ Passes(d) /\ Current(d)' = {}
<1>1. /\ peers'[d] = {} /\ counter'[d] = 0 /\ local'[d] = {} /\ remote'[d] = {}
      /\ cache'[d] = <<>> /\ reading'[d] = {} /\ fetching'[d] = <<>>
      /\ waiting'[d] = {} /\ out' = <<>>
  BY DEF Forgotten, IInv, Shape, On
<1>2. IsFiniteSet({})
  BY FS_EmptySet
<1>3. LocalSeqs(d)' = {} /\ RemoteSeqs(d)' = {} /\ Current(d)' = {}
  BY <1>1 DEF Current, LocalSeqs, RemoteSeqs
<1>4. Here(d)'
  BY <1>1, <1>2, <1>3 DEF Here
<1>5. Passes(d)
  BY <1>1, GainsNothingPasses DEF GainsNothing
<1> QED
  BY <1>1, <1>3, <1>4, <1>5, TellsNothing

\* A piece after the pieces there are.
LEMMA PieceAfter ==
  ASSUME NEW n \in Copies, NEW buf, NEW data, Piece(buf, 0, n), Piece(data, Len(buf), n)
  PROVE  /\ Piece(buf \o data, 0, n)
         /\ Len(buf) + Len(data) = Sizes[n] => Whole(buf \o data, n)
<1>1. buf \in Seq({n}) /\ data \in Seq({n})
  BY DEF Piece
<1>2. buf \o data \in Seq({n}) /\ Len(buf \o data) = Len(buf) + Len(data)
  BY <1>1, ConcatProperties
<1>3. Len(buf) \in Nat /\ Len(data) \in Nat /\ Sizes[n] \in Nat
  BY <1>1, SizesAre, LenProperties
<1> QED
  BY <1>2, <1>3 DEF Piece, Whole

\* A chunk arrives: in its place, out of place, or the last.
LEMMA ChunkArrivedBehaves ==
  ASSUME IInv, NEW d \in Devices, Here(d), InPieces(d), UNCHANGED asked, NEW p,
         NEW o \in Mail, o.type = "Chunk", IsSeq(o.data),
         ChunkArrived(d, p, o.key, o.offset, o.data, o.last)
  PROVE  Behaves(d) /\ RemoteSeqs(d)' = RemoteSeqs(d)
<1> DEFINE k == o.key
           buf == fetching[d][k].buf
           full == buf \o o.data
<1>1. UNCHANGED <<peers, counter, local, remote, reading>> /\ Shape
  BY DEF ChunkArrived, IInv
<1>2. CASE out' = <<>> /\ UNCHANGED <<cache, fetching, waiting>>
  <2>1. Here(d)' /\ Passes(d) /\ Stands(d) /\ RemoteSeqs(d)' = RemoteSeqs(d)
    BY <1>1, <1>2, GainsNothingPasses
       DEF Here, LocalSeqs, RemoteSeqs, Stands, GainsNothing
  <2> QED
    BY <1>2, <2>1, TellsNothing DEF Behaves
<1>3. CASE /\ k \in DOMAIN fetching[d] /\ Fail(d, k)
           /\ fetching' = [fetching EXCEPT ![d] = Without(@, {k})]
  <2>1. /\ DOMAIN fetching'[d] = DOMAIN fetching[d] \ {k}
        /\ \A q \in DOMAIN fetching'[d] : fetching'[d][q] = fetching[d][q]
        /\ LocalSeqs(d)' = LocalSeqs(d) /\ RemoteSeqs(d)' = RemoteSeqs(d)
    BY <1>1, <1>3, FetchOver
  <2>2. Here(d)' /\ Tells(d) /\ Passes(d)
    BY <1>1, <1>3, <2>1, FailBehaves
  <2>3. Stands(d)
    BY <1>1, <1>3, <2>1 DEF Stands, Fail
  <2> QED
    BY <2>1, <2>2, <2>3 DEF Behaves
<1>4. k \in Carried
  BY ChunkCarries
<1>5. ASSUME k \in DOMAIN fetching[d], o.offset = Len(buf)
      PROVE  /\ IsSeq(full)
             /\ \A n \in Copies : Holds(k, n) =>
                  Piece(full, 0, n) /\ (o.last => Whole(full, n))
  <2>1. IsSeq(buf)
    BY <1>5 DEF InPieces
  <2>2. ASSUME NEW n \in Copies, Holds(k, n)
        PROVE  /\ Piece(buf, 0, n) /\ Piece(o.data, Len(buf), n)
               /\ o.last => Len(buf) + Len(o.data) = Sizes[n]
    BY <1>5, <2>2 DEF Holds, HoldsAt, Fits
  <2> HIDE DEF k, buf
  <2> QED
    BY <2>1, <2>2, JoinedIs, PieceAfter
<1>6. CASE /\ k \in DOMAIN fetching[d] /\ o.offset = Len(buf)
           /\ fetching' = [fetching EXCEPT ![d][k].buf = full]
           /\ out' = <<Request(p, k, Len(full))>>
           /\ UNCHANGED <<cache, waiting>>
  <2>1. fetching'[d] = [fetching[d] EXCEPT ![k].buf = full]
    BY <1>1, <1>6 DEF Shape, On
  <2>2. fetching[d][k] = [from |-> fetching[d][k].from, buf |-> fetching[d][k].buf]
    BY <1>6 DEF IInv, Sound, Reachable
  <2>3. /\ DOMAIN fetching'[d] = DOMAIN fetching[d]
        /\ fetching'[d][k].buf = full
        /\ \A q \in DOMAIN fetching[d] \ {k} : fetching'[d][q] = fetching[d][q]
    <3>1. /\ DOMAIN fetching'[d] = DOMAIN fetching[d]
          /\ \A q \in DOMAIN fetching[d] :
               fetching'[d][q] = IF q = k THEN [fetching[d][q] EXCEPT !.buf = full]
                                          ELSE fetching[d][q]
      BY <2>1, Zenon
    <3>2. fetching'[d][k] = [fetching[d][k] EXCEPT !.buf = full]
      BY <1>6, <3>1, Zenon
    <3>3. fetching'[d][k].buf = full
      BY <2>2, <3>2, Zenon
    <3> QED
      BY <3>1, <3>3, Zenon
  <2>4. IsSeq(full) /\ \A n \in Copies : Holds(k, n) => Piece(full, 0, n)
    BY <1>5, <1>6
  <2> HIDE DEF k, full
  <2>5. Len(full) \in Nat
    BY <2>4, SeqIs
  <2>6. Sayable(d, Request(p, k, Len(full)))
    BY <2>5 DEF Sayable, Request
  <2>7. Tells(d)
    BY <1>6, <2>6, TellsOne
  <2>8. Here(d)' /\ Stands(d) /\ RemoteSeqs(d)' = RemoteSeqs(d)
    BY <1>1, <1>6, <2>3 DEF Here, LocalSeqs, RemoteSeqs, Stands
  <2>9. ASSUME NEW q PROVE PassesOn(d, q)
    <3>1. CASE q = k
      BY <1>4, <1>6, <2>3, <2>4, <3>1 DEF PassesOn, Holds, HoldsAt
    <3>2. CASE q # k
      <4>1. q \in CarriedAt(d)' => q \in CarriedAt(d)
        BY <1>6, <2>3, <3>2 DEF CarriedAt
      <4>2. ASSUME NEW n \in Copies, Holds(q, n) PROVE HoldsAt(d, q, n)'
        BY <1>6, <2>3, <3>2, <4>2 DEF Holds, HoldsAt
      <4> QED
        BY <4>1, <4>2 DEF PassesOn, Carried
    <3> QED
      BY <3>1, <3>2
  <2>10. InPieces(d)'
    BY <1>6, <2>3, <2>4 DEF InPieces
  <2> QED
    BY <2>7, <2>8, <2>9, <2>10 DEF Behaves, Passes
<1>7. CASE /\ k \in DOMAIN fetching[d] /\ o.offset = Len(buf) /\ o.last
           /\ fetching' = [fetching EXCEPT ![d] = Without(@, {k})]
           /\ Serve(d, k, full)
  <2>1. /\ DOMAIN fetching'[d] = DOMAIN fetching[d] \ {k}
        /\ \A q \in DOMAIN fetching'[d] : fetching'[d][q] = fetching[d][q]
        /\ LocalSeqs(d) = {} /\ reading[d] = {}
        /\ LocalSeqs(d)' = LocalSeqs(d) /\ RemoteSeqs(d)' = RemoteSeqs(d)
    BY <1>1, <1>7, FetchOver
  <2>2. IsSeq(full) /\ \A n \in Copies : Holds(k, n) => Whole(full, n)
    BY <1>5, <1>7
  <2> HIDE DEF k, full
  <2>3. /\ Here(d)' /\ Tells(d)
        /\ DOMAIN cache'[d] = DOMAIN cache[d] \cup {k} /\ cache'[d][k] = full
        /\ \A q \in DOMAIN cache[d] \ {k} : cache'[d][q] = cache[d][q]
    BY <1>1, <1>7, <2>1, ServeBehaves
  <2>4. Stands(d)
    BY <1>1, <2>1, <2>3 DEF Stands
  <2>5. ASSUME NEW q PROVE PassesOn(d, q)
    <3>1. CASE q = k
      BY <1>4, <2>1, <2>2, <2>3, <3>1 DEF PassesOn, Holds, HoldsAt
    <3>2. CASE q # k
      <4>1. q \in CarriedAt(d)' => q \in CarriedAt(d)
        BY <2>1, <2>3, <3>2 DEF CarriedAt
      <4>2. ASSUME NEW n \in Copies, Holds(q, n) PROVE HoldsAt(d, q, n)'
        BY <2>1, <2>3, <3>2, <4>2 DEF Holds, HoldsAt
      <4> QED
        BY <4>1, <4>2 DEF PassesOn, Carried
    <3> QED
      BY <3>1, <3>2
  <2>6. InPieces(d)'
    BY <2>1, <2>2, <2>3 DEF InPieces
  <2> QED
    BY <2>1, <2>3, <2>4, <2>5, <2>6 DEF Behaves, Passes
<1> QED
  BY <1>2, <1>3, <1>6, <1>7, Zenon DEF ChunkArrived, Asked

\* What machine d has read of its own, and nobody had.
LEMMA ReadDoneBehaves ==
  ASSUME IInv, NEW d \in Devices, Here(d), UNCHANGED asked, NEW k, NEW data,
         data = None \/ IsSeq(data), ReadDone(d, k, data)
  PROVE  /\ Here(d)' /\ Tells(d) /\ (InPieces(d) => InPieces(d)')
         /\ counter' = counter /\ reading'[d] = reading[d] \ {k}
         /\ LocalSeqs(d)' = LocalSeqs(d) /\ RemoteSeqs(d)' = RemoteSeqs(d)
         /\ \A q \in DOMAIN cache[d] : q \in DOMAIN cache'[d]
         /\ \A q : \/ PassesOn(d, q)
                   \/ /\ q = k /\ k.seq \in LocalSeqs(d) /\ data # None
                      /\ k \in DOMAIN cache'[d] /\ cache'[d][k] = data
                      /\ k \notin DOMAIN fetching'[d]
<1>1. /\ UNCHANGED <<peers, counter, local, remote, fetching>>
      /\ reading'[d] = reading[d] \ {k}
  BY DEF ReadDone, IInv, Shape, On
<1>2. LocalSeqs(d)' = LocalSeqs(d) /\ RemoteSeqs(d)' = RemoteSeqs(d)
  BY <1>1 DEF LocalSeqs, RemoteSeqs
<1>3. CASE Fail(d, k)
  <2>1. Here(d)' /\ Tells(d) /\ Passes(d)
    BY <1>1, <1>3, FailBehaves
  <2>2. cache' = cache
    BY <1>3 DEF Fail
  <2> QED
    BY <1>1, <1>2, <2>1, <2>2 DEF Passes
<1>4. CASE data # None /\ k.seq \in LocalSeqs(d) /\ Serve(d, k, data)
  <2>1. /\ Here(d)' /\ Tells(d)
        /\ DOMAIN cache'[d] = DOMAIN cache[d] \cup {k} /\ cache'[d][k] = data
        /\ \A q \in DOMAIN cache[d] \ {k} : cache'[d][q] = cache[d][q]
    BY <1>1, <1>4, ServeBehaves
  <2>2. k \notin DOMAIN fetching[d]
    <3>1. local[d] # {}
      BY <1>4 DEF LocalSeqs
    <3> QED
      BY <3>1 DEF Here, RemoteSeqs
  <2>3. InPieces(d) => InPieces(d)'
    BY <1>1, <1>4, <2>1 DEF InPieces
  <2>4. ASSUME NEW q, q # k PROVE PassesOn(d, q)
    <3>1. q \in CarriedAt(d)' => q \in CarriedAt(d)
      BY <1>1, <2>1, <2>4 DEF CarriedAt
    <3>2. ASSUME NEW n \in Copies, Holds(q, n) PROVE HoldsAt(d, q, n)'
      BY <1>1, <2>1, <2>4, <3>2 DEF Holds, HoldsAt
    <3> QED
      BY <3>1, <3>2 DEF PassesOn, Carried
  <2> QED
    BY <1>1, <1>2, <1>4, <2>1, <2>2, <2>3, <2>4
<1> QED
  BY <1>3, <1>4 DEF ReadDone

\* A copy made here is announced, or is not.
LEMMA LocalChangedBehaves ==
  ASSUME IInv, On(counter), NEW d \in Devices, Here(d), UNCHANGED asked,
         NEW fs, NEW soon, LocalChanged(d, fs, soon)
  PROVE  \/ Behaves(d) /\ UNCHANGED <<local, remote, counter>>
         \/ /\ Here(d)' /\ Tells(d) /\ Passes(d)
            /\ counter'[d] = counter[d] + 1
            /\ RemoteSeqs(d)' = {} /\ local'[d] # {}
            /\ \A o \in local'[d] : o.seq = [device |-> d, counter |-> counter'[d]]
            /\ reading'[d] \subseteq reading[d]
<1> DEFINE some == fs \cap allowed[d]
           s == [device |-> d, counter |-> counter[d] + 1]
           past == LocalSeqs(d) \cup RemoteSeqs(d)
<1>1. CASE /\ out' = <<>>
           /\ UNCHANGED <<peers, counter, local, remote, cache, reading, fetching, waiting>>
  <2>1. Here(d)'
    BY <1>1 DEF Here, LocalSeqs, RemoteSeqs
  <2>2. Passes(d) /\ Stands(d)
    BY <1>1, GainsNothingPasses DEF GainsNothing, Stands, LocalSeqs
  <2> QED
    BY <1>1, <2>1, <2>2, TellsNothing DEF Behaves
<1>2. CASE /\ counter' = [counter EXCEPT ![d] = @ + 1]
           /\ Forget(d, past)
           /\ Now(d, {[seq |-> s, formats |-> some]}, {})
           /\ out' = Stale(d, past) \o ToPeers(d, {}, s, some)
           /\ UNCHANGED peers
  <2>0. Shape
    BY DEF IInv
  <2>1. /\ local'[d] = {[seq |-> s, formats |-> some]} /\ remote'[d] = {}
        /\ peers' = peers /\ counter'[d] = counter[d] + 1
    BY <1>2, <2>0 DEF Shape, On, Now
  <2>2. LocalSeqs(d)' = {s} /\ RemoteSeqs(d)' = {}
    BY <2>1 DEF LocalSeqs, RemoteSeqs
  <2>3. /\ DOMAIN cache'[d] = {k \in DOMAIN cache[d] : k.seq \notin past}
        /\ reading'[d] = {k \in reading[d] : k.seq \notin past}
        /\ DOMAIN fetching'[d] = {k \in DOMAIN fetching[d] : k.seq \notin past}
        /\ \A k \in DOMAIN fetching'[d] : fetching'[d][k] = fetching[d][k]
        /\ waiting'[d] = {w \in waiting[d] : w.key.seq \notin past}
    BY <1>2, <2>0, ForgetLeaves
  <2>4. \A k \in DOMAIN cache'[d] : cache'[d][k] = cache[d][k]
    BY <1>2, <2>0 DEF Forget, Without, Restrict, Shape, On
  <2>5. Here(d)'
    <3>0. IsFiniteSet({[seq |-> s, formats |-> some]}) /\ IsFiniteSet({})
      BY FS_Singleton, FS_EmptySet
    <3>1. IsFiniteSet(peers[d]) /\ counter[d] \in Nat
      BY DEF Here
    <3>2. IsFiniteSet(waiting'[d])
      BY <2>3, FS_Subset DEF Here
    <3>3. DOMAIN fetching'[d] = {}
      BY <2>3 DEF Here
    <3>4. \A k \in reading'[d] : k \notin DOMAIN cache'[d]
      BY <2>3 DEF Here
    <3>5. \A q \in LocalSeqs(d)' : q = [device |-> d, counter |-> counter'[d]]
      BY <2>1, <2>2
    <3>6. IsFiniteSet(local'[d]) /\ IsFiniteSet(remote'[d]) /\ IsFiniteSet(peers'[d])
      BY <2>1, <3>0, <3>1
    <3> HIDE DEF past, some, s
    <3> QED
      BY <2>1, <2>3, <3>1, <3>2, <3>3, <3>4, <3>5, <3>6 DEF Here
  <2>6. Tells(d)
    <3>1. s \in Current(d)'
      BY <2>2 DEF Current
    <3>2. Stale(d, past) = Failed(d, {w \in waiting[d] : w.key.seq \in past})
      BY DEF Stale
    <3>3. {w \in waiting[d] : w.key.seq \in past} \in SUBSET waiting[d]
      OBVIOUS
    <3>4. IsFiniteSet(peers[d])
      BY DEF Here
    <3> HIDE DEF past, some, s
    <3>5. IsSeq(Stale(d, past)) /\ \A o \in Elems(Stale(d, past)) : Sayable(d, o)
      BY <3>2, <3>3, FailedIs
    <3>6. /\ IsSeq(ToPeers(d, {}, s, some))
          /\ \A o \in Elems(ToPeers(d, {}, s, some)) : Sayable(d, o)
      <4> DEFINE ps == peers[d] \ {}
                 q == SetToSeq({Offer(x, s, some) : x \in ps})
      <4>1. IsFiniteSet(ps)
        <5>1. ps = peers[d]
          OBVIOUS
        <5> QED
          BY <3>4, <5>1
      <4>2. ToPeers(d, {}, s, some) = q
        BY DEF ToPeers
      <4> HIDE DEF ps
      <4>3. IsSeq(q) /\ \A o \in Elems(q) : s \in Current(d)' => Sayable(d, o)
        BY <4>1, OffersAre
      <4> HIDE DEF q
      <4> QED
        BY <3>1, <4>2, <4>3
    <3> QED
      BY <1>2, <3>5, <3>6, TellsBoth DEF Tells
  <2>7. Passes(d)
    BY <2>3, <2>4, GainsNothingPasses DEF GainsNothing
  <2> QED
    BY <2>1, <2>2, <2>3, <2>5, <2>6, <2>7
<1> QED
  BY <1>1, <1>2 DEF LocalChanged

-----------------------------------------------------------------------------
(* The desk.                                                               *)

\* A name that was given to one copy only.
Once(s) == \A m, n \in named[s] : m = n

MadeOn(d, n) == n \in 1 .. Len(made) /\ made[n] = d

\* Copy n may be had under the name s: it is of the machine that gave the name,
\* and not older than what was announced under it.
Suits(n, s) == MadeOn(s.device, n) /\ \A m \in named[s] : m <= n

Named == DOMAIN named

OnClients(f) == f = [c \in Clients |-> f[c]]

Functions ==
  /\ On(counter) /\ On(board) /\ On(notices) /\ On(reads) /\ On(pasting)
  /\ OnClients(up) /\ OnClients(downward)

Copying ==
  /\ made \in Seq(Devices) /\ Len(made) <= Len(Sizes)
  /\ \A s \in Named : named[s] # {} /\ \A n \in named[s] : MadeOn(s.device, n)

\* What machine d has copied last, and what it has not announced yet.
Boards(d) ==
  /\ HoldsCopy(d) => /\ MadeOn(d, board[d].copy)
                     /\ \A n \in 1 .. Len(made) : made[n] = d => n <= board[d].copy
  /\ HoldsOffer(d) => board[d].seq \in Named

Noticed(d) ==
  /\ IsSeq(notices[d])
  /\ \A i \in DOMAIN notices[d] :
       /\ MadeOn(d, notices[d][i].copy)
       /\ \A s \in Named : notices[d][i].copy \notin named[s]
       /\ \A j \in DOMAIN notices[d] :
            i # j => notices[d][i].copy # notices[d][j].copy

\* What is read on machine d is read for an offer it made, and once.
ReadRight(d, r) ==
  /\ r = [key |-> r.key, state |-> r.state, data |-> r.data]
  /\ r.key.seq \in Named /\ r.key.seq.device = d
  /\ r.key.seq.counter \in 0 .. counter[d]
  /\ r.key.seq \in LocalSeqs(d) =>
       /\ r.key \in reading[d]
       /\ \A q \in reads[d] : q.key = r.key => q = r
  /\ r.data # None => IsSeq(r.data)
  /\ r.data # None /\ Once(r.key.seq) =>
       \E n \in Copies : r.data = Contents(n) /\ Suits(n, r.key.seq)

ReadsRight(d) == \A r \in reads[d] : ReadRight(d, r)

Pastes(d) ==
  \A p \in pasting[d] : p.ticket \in DOMAIN asked /\ p.key.seq = asked[p.ticket].seq

Queues == \A c \in Clients : IsSeq(up[c]) /\ IsSeq(downward[c])

Carries(o) ==
  /\ o.type = "Offer" => o.seq \in Named
  /\ o.type = "Request" => o.offset \in Nat
  /\ o.type = "Chunk" => o.key.seq \in Named /\ IsSeq(o.data)

Asking ==
  /\ IsSeq(asked) /\ DOMAIN answers \subseteq DOMAIN asked
  /\ \A t \in DOMAIN asked : asked[t].seq \in Named

\* What a machine has read of an offer it still makes, it has at hand: nothing
\* under a name is read twice.
Unread == \A d \in Devices : \A k \in Carried :
  Once(k.seq) /\ k.seq \in LocalSeqs(d) => k \in DOMAIN cache[d]

\* Whatever the machines and the messages have under a name is of one copy.
OneCopy == \A k \in Carried : Once(k.seq) =>
  \E n \in Copies : Suits(n, k.seq) /\ Holds(k, n)

Right == \A t \in DOMAIN answers :
  answers[t] # None /\ Once(asked[t].seq) =>
    \E n \in Copies : answers[t] = Contents(n) /\ Suits(n, asked[t].seq)

Machine(d) == /\ Here(d) /\ InPieces(d) /\ Current(d) \subseteq Named
              /\ Boards(d) /\ Noticed(d) /\ ReadsRight(d) /\ Pastes(d)

Desk == /\ IInv /\ Functions /\ Copying /\ Asking
        /\ \A d \in Devices : Machine(d)
        /\ Queues /\ \A o \in Mail : Carries(o)
        /\ Unread /\ OneCopy /\ Right

-----------------------------------------------------------------------------
(* A turn of machine d.                                                    *)

\* It has something nobody had: a copy that suits its name.
Brings(d, k) ==
  /\ k \notin Carried
  /\ k \in DOMAIN cache'[d] /\ k \notin DOMAIN fetching'[d]
  /\ k.seq \in LocalSeqs(d)'
  /\ \E n \in Copies : Suits(n, k.seq)' /\ Whole(cache'[d][k], n)

\* A name is given to another copy, or is not, or it is a new one.
Renames == \A s \in Named : s \in DOMAIN named' /\ (named'[s] = named[s] \/ ~Once(s)')

Turn(d) ==
  /\ Alone(d) /\ Here(d)' /\ InPieces(d)'
  /\ UNCHANGED <<asked, made>> /\ Renames
  /\ \A k : Once(k.seq)' => PassesOn(d, k) \/ Brings(d, k)
  /\ \A s \in LocalSeqs(d)' :
       \/ s \in LocalSeqs(d) /\ \A k \in DOMAIN cache[d] : k.seq = s => k \in DOMAIN cache'[d]
       \/ s \notin Named \/ ~Once(s)'
  /\ \A o \in Mail' : o \in Mail \/ Sayable(d, o)

\* Nothing is on anyone's way under a name nobody was given.
LEMMA CarriedNamed == ASSUME Desk, NEW k \in Carried PROVE k.seq \in Named
<1>1. ASSUME NEW d \in Devices, k \in CarriedAt(d) PROVE k.seq \in Named
  <2>1. k.seq \in Current(d)
    BY <1>1 DEF Desk, IInv, Sound, Kept, CarriedAt
  <2>2. Machine(d)
    BY DEF Desk
  <2> QED
    BY <2>1, <2>2 DEF Machine
<1>2. ASSUME NEW o \in Chunks, k = o.key PROVE k.seq \in Named
  BY <1>2 DEF Chunks, Desk, Carries
<1> QED
  BY <1>1, <1>2 DEF Carried

\* What a turn of d leaves alone on the other machines.
LEMMA NobodyElse ==
  ASSUME NEW d \in Devices, Alone(d), NEW e \in Devices, e # d
  PROVE  /\ CarriedAt(e)' = CarriedAt(e) /\ LocalSeqs(e)' = LocalSeqs(e)
         /\ RemoteSeqs(e)' = RemoteSeqs(e)
         /\ cache'[e] = cache[e] /\ fetching'[e] = fetching[e]
         /\ peers'[e] = peers[e] /\ local'[e] = local[e] /\ remote'[e] = remote[e]
         /\ reading'[e] = reading[e] /\ waiting'[e] = waiting[e]
BY DEF Alone, CarriedAt, LocalSeqs, RemoteSeqs

\* After a turn, something is under a name where it was, or where the turn was.
LEMMA CarriedWhence ==
  ASSUME NEW d \in Devices, Turn(d), NEW k \in Carried'
  PROVE  k \in Carried \/ k \in CarriedAt(d)'
<1>1. ASSUME NEW e \in Devices, k \in CarriedAt(e)'
      PROVE  k \in Carried \/ k \in CarriedAt(d)'
  <2>1. CASE e = d
    BY <1>1, <2>1
  <2>2. CASE e # d
    BY <1>1, <2>2, NobodyElse DEF Turn, Carried
  <2> QED
    BY <2>1, <2>2
<1>2. ASSUME NEW m \in Mail', m.type = "Chunk", k = m.key
      PROVE  k \in Carried \/ k \in CarriedAt(d)'
  <2>1. CASE m \in Mail
    BY <1>2, <2>1, ChunkCarries
  <2>2. CASE Sayable(d, m)
    BY <1>2, <2>2 DEF Sayable, CarriedAt
  <2> QED
    BY <2>1, <2>2 DEF Turn
<1>3. k \in (UNION {CarriedAt(e)' : e \in Devices}) \cup {o.key : o \in Chunks'}
  BY DEF Carried
<1>4. CASE k \in {o.key : o \in Chunks'}
  BY <1>2, <1>4 DEF Chunks
<1> QED
  BY <1>1, <1>3, <1>4

\* Where nothing is under a name, nothing is but what may be.
LEMMA NothingHolds ==
  ASSUME NEW k, k \notin Carried, NEW n \in Copies
  PROVE  Holds(k, n)
<1>1. Piece(<<>>, 0, n)
  BY SizesAre DEF Piece
<1>2. ASSUME NEW d \in Devices PROVE HoldsAt(d, k, n)
  <2>1. k \notin CarriedAt(d)
    BY DEF Carried
  <2> QED
    BY <1>1, <2>1 DEF CarriedAt, HoldsAt
<1>3. \A o \in Mail : o.type = "Chunk" => o.key # k
  BY ChunkCarries
<1> QED
  BY <1>2, <1>3 DEF Holds, Fits

\* What was of one copy is so after a turn that keeps to it.
LEMMA HoldsAfter ==
  ASSUME NEW d \in Devices, Turn(d), NEW k, NEW n \in Copies, Holds(k, n),
         HoldsAt(d, k, n)'
  PROVE  Holds(k, n)'
<1>1. ASSUME NEW e \in Devices PROVE HoldsAt(e, k, n)'
  <2>1. CASE e = d
    BY <2>1
  <2>2. CASE e # d
    <3>1. HoldsAt(e, k, n)
      BY DEF Holds
    <3> QED
      BY <2>2, <3>1, NobodyElse DEF Turn, HoldsAt
  <2> QED
    BY <2>1, <2>2
<1>2. ASSUME NEW o \in Mail' PROVE Fits(o, k, n)
  <2>1. CASE o \in Mail
    BY <2>1 DEF Holds
  <2>2. CASE Sayable(d, o) /\ o.type = "Chunk" /\ o.key = k
    <3>2. PICK at \in Nat : o = Chunk(o.to, k, cache'[d][k], at)
      BY <2>2 DEF Sayable
    <3>3. k \in DOMAIN cache'[d]
      BY <2>2 DEF Sayable
    <3>4. Whole(cache'[d][k], n)
      BY <3>3 DEF HoldsAt
    <3>5. Fits(Chunk(o.to, k, cache'[d][k], at), k, n)
      BY <3>4, ChunkFits
    <3> QED
      BY <3>2, <3>5
  <2>3. CASE ~(o.type = "Chunk" /\ o.key = k)
    BY <2>3 DEF Fits
  <2> QED
    BY <2>1, <2>2, <2>3 DEF Turn
<1> QED
  BY <1>1, <1>2 DEF Holds

\* A copy that suits a name goes on doing so.
LEMMA SuitsAfter ==
  ASSUME NEW s \in Named, Renames, UNCHANGED made, Once(s)'
  PROVE  named'[s] = named[s] /\ Once(s) /\ \A n : Suits(n, s) => Suits(n, s)'
BY DEF Renames, Suits, MadeOn, Once

\* Everything under one name is of one copy, after a turn as before.
LEMMA OneCopyAfter ==
  ASSUME Desk, NEW d \in Devices, Turn(d), NEW k \in Carried', Once(k.seq)'
  PROVE  \E n \in Copies : Suits(n, k.seq)' /\ Holds(k, n)'
<1>1. CASE PassesOn(d, k)
  <2>1. k \in Carried
    BY <1>1, CarriedWhence DEF PassesOn
  <2>2. /\ k.seq \in Named /\ Once(k.seq)
        /\ \A n : Suits(n, k.seq) => Suits(n, k.seq)'
    BY <2>1, CarriedNamed, SuitsAfter DEF Turn
  <2>3. PICK n \in Copies : Suits(n, k.seq) /\ Holds(k, n)
    BY <2>1, <2>2 DEF Desk, OneCopy
  <2>4. HoldsAt(d, k, n)'
    BY <1>1, <2>3 DEF PassesOn
  <2>5. Holds(k, n)'
    BY <2>3, <2>4, HoldsAfter
  <2> QED
    BY <2>2, <2>3, <2>5
<1>2. CASE Brings(d, k)
  <2>1. PICK n \in Copies : Suits(n, k.seq)' /\ Whole(cache'[d][k], n)
    BY <1>2 DEF Brings
  <2>2. HoldsAt(d, k, n)'
    BY <1>2, <2>1 DEF Brings, HoldsAt
  <2>3. Holds(k, n)'
    BY <1>2, <2>2, NothingHolds, HoldsAfter DEF Brings
  <2> QED
    BY <2>1, <2>3
<1> QED
  BY <1>1, <1>2 DEF Turn

\* What was read for an offer stays at hand, after a turn as before.
LEMMA UnreadAfter ==
  ASSUME Desk, NEW d \in Devices, Turn(d), NEW e \in Devices, NEW k \in Carried',
         Once(k.seq)', k.seq \in LocalSeqs(e)'
  PROVE  k \in DOMAIN cache'[e]
<1>1. CASE k \notin Carried
  <2>1. Brings(d, k)
    BY <1>1, CarriedWhence DEF Turn, PassesOn
  <2>2. k.seq.device = d
    BY <2>1 DEF Turn, Here, Brings
  <2>3. CASE e # d
    <3>1. k.seq \in LocalSeqs(e)
      BY <2>3, NobodyElse DEF Turn
    <3>2. k.seq.device = e
      BY <3>1 DEF Desk, Machine, Here
    <3> QED
      BY <2>2, <2>3, <3>2
  <2>4. CASE e = d
    BY <2>1, <2>4 DEF Brings
  <2> QED
    BY <2>3, <2>4
<1>2. CASE k \in Carried
  <2>1. k.seq \in Named /\ Once(k.seq)
    BY <1>2, CarriedNamed, SuitsAfter DEF Turn
  <2>2. CASE e # d
    <3>1. k.seq \in LocalSeqs(e) /\ cache'[e] = cache[e]
      BY <2>2, NobodyElse DEF Turn
    <3> QED
      BY <1>2, <2>1, <3>1 DEF Desk, Unread
  <2>3. CASE e = d
    <3>1. /\ k.seq \in LocalSeqs(d)
          /\ k \in DOMAIN cache[d] => k \in DOMAIN cache'[d]
      BY <2>1, <2>3 DEF Turn
    <3>2. k \in DOMAIN cache[d]
      BY <1>2, <2>1, <3>1 DEF Desk, Unread
    <3> QED
      BY <2>3, <3>1, <3>2
  <2> QED
    BY <2>2, <2>3
<1> QED
  BY <1>1, <1>2

\* What comes of a turn on the machine itself: its clipboard holds what it held,
\* an offer or nothing; a read it knows of goes on, or one starts for what was
\* not being read; and what is given to a paste is what the machine has.
Shows(d) ==
  /\ \A e \in Devices \ {d} : board'[e] = board[e]
  /\ HoldsCopy(d)' => board'[d] = board[d]
  /\ HoldsOffer(d)' => board'[d].seq \in Named'

GoesOn(d, r) ==
  /\ r \in reads[d] /\ r.key.seq.counter \in 0 .. counter'[d]
  /\ r.key.seq \in LocalSeqs(d)' => r.key.seq \in LocalSeqs(d) /\ r.key \in reading'[d]

Begins(d, r) == /\ r = [key |-> r.key, state |-> "started", data |-> None]
                /\ r.key \in reading'[d] \ reading[d]

ReadsOn(d) ==
  /\ \A e \in Devices \ {d} : reads'[e] = reads[e]
  /\ \A r \in reads'[d] : GoesOn(d, r) \/ Begins(d, r)

Gives(d) ==
  \A t \in DOMAIN answers' :
    /\ t \in DOMAIN asked
    /\ \/ t \in DOMAIN answers /\ answers'[t] = answers[t]
       \/ answers'[t] = None
       \/ \E k \in DOMAIN cache'[d] : answers'[t] = cache'[d][k] /\ k.seq = asked[t].seq

\* What a turn leaves of the rest of the desk.
Leaves(d) ==
  /\ Functions' /\ Copying' /\ Queues'
  /\ \A e \in Devices \ {d} : counter'[e] = counter[e]
  /\ \A e \in Devices : Noticed(e)' /\ pasting'[e] \subseteq pasting[e]

\* What a machine offers or holds has a name.
LEMMA SeqsNamed ==
  ASSUME Desk, NEW d \in Devices, NEW s \in Current(d)
  PROVE  s \in Named
<1>1. Machine(d)
  BY DEF Desk
<1> QED
  BY <1>1 DEF Machine

\* Another machine is as it was.
LEMMA OthersAfter ==
  ASSUME Desk, NEW d \in Devices, Turn(d), Shows(d), ReadsOn(d), Leaves(d),
         NEW e \in Devices, e # d
  PROVE  Machine(e)'
<1>1. Machine(e)
  BY DEF Desk
<1>2. /\ LocalSeqs(e)' = LocalSeqs(e) /\ RemoteSeqs(e)' = RemoteSeqs(e)
      /\ cache'[e] = cache[e] /\ fetching'[e] = fetching[e]
      /\ peers'[e] = peers[e] /\ local'[e] = local[e] /\ remote'[e] = remote[e]
      /\ reading'[e] = reading[e] /\ waiting'[e] = waiting[e]
  BY NobodyElse DEF Turn
<1>3. counter'[e] = counter[e] /\ asked' = asked /\ made' = made
  BY DEF Leaves, Turn
<1>4. \A s \in Named : s \in Named'
  BY DEF Turn, Renames, Named
<1>5. Here(e)' /\ InPieces(e)' /\ Current(e)' \subseteq Named'
  BY <1>1, <1>2, <1>3, <1>4 DEF Machine, Here, InPieces, Current
<1>6. Boards(e)'
  BY <1>1, <1>3, <1>4 DEF Machine, Boards, Shows, HoldsCopy, HoldsOffer, MadeOn
<1>7. ReadsRight(e)'
  <2> SUFFICES ASSUME NEW r \in reads[e] PROVE ReadRight(e, r)'
    BY DEF ReadsOn, ReadsRight
  <2>1. /\ r.key.seq \in Named
        /\ Once(r.key.seq)' => /\ Once(r.key.seq)
                               /\ \A n : Suits(n, r.key.seq) => Suits(n, r.key.seq)'
    BY <1>1, SuitsAfter DEF Machine, ReadsRight, ReadRight, Turn
  <2> QED
    BY <1>1, <1>2, <1>3, <1>4, <2>1 DEF Machine, ReadsRight, ReadRight, ReadsOn
<1>8. Noticed(e)' /\ Pastes(e)'
  BY <1>1, <1>3 DEF Machine, Leaves, Pastes
<1> QED
  BY <1>5, <1>6, <1>7, <1>8 DEF Machine

\* The reads of the machine whose turn it is.
LEMMA ReadsAfter ==
  ASSUME Desk, IInv', NEW d \in Devices, Turn(d), ReadsOn(d), Leaves(d),
         Current(d)' \subseteq Named'
  PROVE  ReadsRight(d)'
<1>1. Machine(d) /\ Here(d)'
  BY DEF Desk, Turn
<1>2. \A k \in reading'[d] : k.seq \in LocalSeqs(d)' /\ k.seq \in Named'
  BY DEF IInv, Sound, Kept, Current
<1> SUFFICES ASSUME NEW r \in reads'[d] PROVE ReadRight(d, r)'
  BY DEF ReadsRight
<1>3. ASSUME NEW q \in reads'[d], GoesOn(d, q), q.key.seq \in LocalSeqs(d)'
      PROVE  q.key \in reading[d]
  BY <1>1, <1>3 DEF GoesOn, Machine, ReadsRight, ReadRight
<1>4. CASE GoesOn(d, r)
  <2>1. /\ r.key.seq \in Named
        /\ Once(r.key.seq)' => /\ Once(r.key.seq)
                               /\ \A n : Suits(n, r.key.seq) => Suits(n, r.key.seq)'
    BY <1>1, <1>4, SuitsAfter DEF GoesOn, Machine, ReadsRight, ReadRight, Turn
  <2>2. r.key.seq \in Named'
    BY <2>1 DEF Turn, Renames, Named
  <2>3. ASSUME r.key.seq \in LocalSeqs(d)', NEW q \in reads'[d], q.key = r.key
        PROVE  q = r
    <3>1. ~Begins(d, q)
      BY <1>3, <1>4, <2>3 DEF Begins
    <3>2. GoesOn(d, q)
      BY <3>1 DEF ReadsOn
    <3> QED
      BY <1>1, <1>4, <2>3, <3>2 DEF GoesOn, Machine, ReadsRight, ReadRight
  <2> QED
    BY <1>1, <1>4, <2>1, <2>2, <2>3 DEF GoesOn, Machine, ReadsRight, ReadRight
<1>5. CASE Begins(d, r)
  <2>1. r.key.seq = [device |-> d, counter |-> counter'[d]] /\ counter'[d] \in Nat
    BY <1>1, <1>2, <1>5 DEF Begins, Here
  <2>2. r.data = None /\ r = [key |-> r.key, state |-> r.state, data |-> r.data]
    BY <1>5 DEF Begins
  <2>3. r.key \in reading'[d] /\ r.key.seq \in Named'
    BY <1>2, <1>5 DEF Begins
  <2>4. ASSUME NEW q \in reads'[d], q.key = r.key PROVE q = r
    <3>1. ~GoesOn(d, q)
      BY <1>2, <1>3, <1>5, <2>3, <2>4 DEF Begins
    <3>2. Begins(d, q)
      BY <3>1 DEF ReadsOn
    <3> QED
      BY <1>5, <2>4, <3>2 DEF Begins
  <2> QED
    BY <2>1, <2>2, <2>3, <2>4 DEF ReadRight
<1> QED
  BY <1>4, <1>5 DEF ReadsOn

\* Contents that are whole are those of the copy.
LEMMA WholeIs ==
  ASSUME NEW n \in Copies, NEW data, Whole(data, n)
  PROVE  data = Contents(n)
<1>1. /\ data \in [1 .. Sizes[n] -> {n}]
  BY LenProperties DEF Whole
<1> QED
  BY <1>1 DEF Contents

\* What has been given is of one copy.
LEMMA RightAfter ==
  ASSUME Desk, NEW d \in Devices, Turn(d), Gives(d)
  PROVE  Right'
<1> SUFFICES ASSUME NEW t \in DOMAIN answers', answers'[t] # None,
                    NEW s, s = asked'[t].seq, Once(s)'
             PROVE  \E n \in Copies : answers'[t] = Contents(n) /\ Suits(n, s)'
  BY DEF Right, Once, Suits, MadeOn
<1>1. s = asked[t].seq /\ t \in DOMAIN asked
  BY DEF Turn, Gives
<1>2. CASE t \in DOMAIN answers /\ answers'[t] = answers[t]
  <2>1. s \in Named
    BY <1>1 DEF Desk, Asking
  <2>2. Once(s) /\ \A n : Suits(n, s) => Suits(n, s)'
    BY <2>1, SuitsAfter DEF Turn
  <2> QED
    BY <1>1, <1>2, <2>2 DEF Desk, Right
<1>3. ASSUME NEW k \in DOMAIN cache'[d], answers'[t] = cache'[d][k], k.seq = s
      PROVE  \E n \in Copies : answers'[t] = Contents(n) /\ Suits(n, s)'
  <2>1. k \in Carried'
    BY DEF Carried, CarriedAt
  <2>2. PICK n \in Copies : Suits(n, k.seq)' /\ Holds(k, n)'
    BY <1>3, <2>1, OneCopyAfter
  <2>3. Whole(cache'[d][k], n)
    BY <2>2 DEF Holds, HoldsAt
  <2> QED
    BY <1>3, <2>2, <2>3, WholeIs
<1> QED
  BY <1>1, <1>2, <1>3 DEF Gives

\* What is on its way.
LEMMA CarriesAfter ==
  ASSUME Desk, IInv', NEW d \in Devices, Turn(d), Current(d)' \subseteq Named',
         NEW o \in Mail'
  PROVE  Carries(o)'
<1>1. \A s \in Named : s \in Named'
  BY DEF Turn, Renames, Named
<1>2. CASE o \in Mail
  BY <1>1, <1>2 DEF Desk, Carries
<1>3. CASE Sayable(d, o)
  <2>2. ASSUME o.type = "Chunk" PROVE o.key.seq \in Named' /\ IsSeq(o.data)
    <3>1. o.key \in DOMAIN cache'[d]
      BY <1>3, <2>2 DEF Sayable
    <3>2. PICK at \in Nat : o = Chunk(o.to, o.key, cache'[d][o.key], at)
      BY <1>3, <2>2 DEF Sayable
    <3>3. o.key.seq \in Current(d)'
      BY <3>1 DEF IInv, Sound, Kept
    <3>4. cache'[d][o.key] \in Seq(Elems(cache'[d][o.key]))
      BY <3>1 DEF Turn, InPieces, IsSeq
    <3>5. Chunk(o.to, o.key, cache'[d][o.key], at).data \in Seq(Elems(cache'[d][o.key]))
      BY <3>4, ChunkIs
    <3>6. IsSeq(o.data)
      BY <3>2, <3>5, IsOne
    <3> QED
      BY <3>3, <3>6
  <2>3. (o.type = "Offer" => o.seq \in Named') /\ (o.type = "Request" => o.offset \in Nat)
    BY <1>3 DEF Sayable
  <2> QED
    BY <2>2, <2>3 DEF Carries
<1> QED
  BY <1>2, <1>3 DEF Turn

\* A turn keeps the desk.
LEMMA TurnKeeps ==
  ASSUME Desk, IInv', NEW d \in Devices, Turn(d), Shows(d), ReadsOn(d), Gives(d),
         Leaves(d), Current(d)' \subseteq Named'
  PROVE  Desk'
<1>1. \A s \in Named : s \in Named'
  BY DEF Turn, Renames, Named
<1>2. Machine(d)'
  <2>1. Machine(d)
    BY DEF Desk
  <2>2. Here(d)' /\ InPieces(d)' /\ Noticed(d)'
    BY DEF Turn, Leaves
  <2>3. Boards(d)'
    BY <2>1 DEF Machine, Boards, Shows, HoldsCopy, HoldsOffer, MadeOn, Turn
  <2>4. ReadsRight(d)'
    BY ReadsAfter
  <2>5. Pastes(d)'
    BY <2>1 DEF Machine, Pastes, Leaves, Turn
  <2> QED
    BY <2>2, <2>3, <2>4, <2>5 DEF Machine
<1>3. \A e \in Devices : Machine(e)'
  BY <1>2, OthersAfter
<1>4. Asking'
  BY <1>1 DEF Desk, Asking, Gives, Turn
<1>5. Unread'
  BY UnreadAfter DEF Unread
<1>6. OneCopy'
  BY OneCopyAfter DEF OneCopy
<1>7. \A o \in Mail' : Carries(o)'
  BY CarriesAfter
<1> QED
  BY <1>3, <1>4, <1>5, <1>6, <1>7, RightAfter DEF Desk, Leaves

-----------------------------------------------------------------------------
(* What the daemons do with what their exchange says.                      *)

\* A queue holds what was on its way, or what has just been said.
Grown(q) == IsSeq(q) /\ \A o \in Elems(q) : o \in Mail \/ o \in Elems(out')

\* What is sent to p has just been said.
LEMMA SentGrown == ASSUME NEW d, Tells(d), NEW p PROVE Grown(Sent(p))
BY SentIs DEF Tells, Grown

\* Queues joined.
LEMMA JoinedGrown == ASSUME NEW q, NEW r, Grown(q), Grown(r) PROVE Grown(q \o r)
BY JoinedIs DEF Grown

\* An emptied queue.
LEMMA EmptyGrown == Grown(<<>>)
BY FewIs DEF Grown

\* What may be done to a queue: taken from its head, cut short, left.
LEMMA QueuesGrown ==
  ASSUME Queues, NEW c \in Clients
  PROVE  /\ Grown(up[c]) /\ Grown(downward[c])
         /\ up[c] # <<>> => Grown(Tail(up[c])) /\ Head(up[c]) \in Mail
         /\ downward[c] # <<>> => Grown(Tail(downward[c])) /\ Head(downward[c]) \in Mail
         /\ \A n \in 0 .. Len(up[c]) : Grown(SubSeq(up[c], 1, n))
         /\ \A n \in 0 .. Len(downward[c]) : Grown(SubSeq(downward[c], 1, n))
<1>1. IsSeq(up[c]) /\ IsSeq(downward[c])
  BY DEF Queues
<1>2. \A o : o \in Elems(up[c]) \/ o \in Elems(downward[c]) => o \in Mail
  BY DEF Mail
<1>3. up[c] # <<>> => Grown(Tail(up[c])) /\ Head(up[c]) \in Mail
  BY <1>1, <1>2, TailIs DEF Grown
<1>4. downward[c] # <<>> => Grown(Tail(downward[c])) /\ Head(downward[c]) \in Mail
  BY <1>1, <1>2, TailIs DEF Grown
<1>5. \A n \in 0 .. Len(up[c]) : Grown(SubSeq(up[c], 1, n))
  BY <1>1, <1>2, CutIs DEF Grown
<1>6. \A n \in 0 .. Len(downward[c]) : Grown(SubSeq(downward[c], 1, n))
  BY <1>1, <1>2, CutIs DEF Grown
<1> QED
  BY <1>1, <1>2, <1>3, <1>4, <1>5, <1>6 DEF Grown

\* No message comes from nowhere.
LEMMA MailAfter ==
  ASSUME \A c \in Clients : Grown(up'[c]) /\ Grown(downward'[c])
  PROVE  Queues' /\ \A o \in Mail' : o \in Mail \/ o \in Elems(out')
BY DEF Grown, Queues, Mail

\* The daemon of d puts what its exchange said in its queues.
LEMMA SendFromGrows ==
  ASSUME Queues, OnClients(up), OnClients(downward), NEW d, Tells(d), SendFrom(d)
  PROVE  /\ OnClients(up)' /\ OnClients(downward)'
         /\ \A c \in Clients : Grown(up'[c]) /\ Grown(downward'[c])
<1>1. OnClients(up)' /\ OnClients(downward)'
  BY DEF SendFrom, OnClients
<1>2. ASSUME NEW c \in Clients PROVE Grown(up'[c]) /\ Grown(downward'[c])
  <2>1. Grown(up[c]) /\ Grown(downward[c])
    BY QueuesGrown
  <2>2. Grown(up[c] \o Sent(Hub)) /\ Grown(downward[c] \o Sent(c))
    BY <2>1, SentGrown, JoinedGrown
  <2>3. up'[c] = up[c] \/ up'[c] = up[c] \o Sent(Hub)
    BY DEF SendFrom
  <2>4. downward'[c] = downward[c] \/ downward'[c] = downward[c] \o Sent(c)
    BY DEF SendFrom
  <2> QED
    BY <2>1, <2>2, <2>3, <2>4
<1> QED
  BY <1>1, <1>2

\* Outputs that are for the machine itself.
LEMMA OutsAre ==
  ASSUME NEW d \in Devices, Tells(d), NEW t, NEW o \in OutsOf(d, t)
  PROVE  Sayable(d, o) /\ o.type = t
BY DEF OutsOf, Outs, Tells, Elems

\* The clipboard, once the offers have been put on it.
LEMMA BoardAfter ==
  ASSUME Desk, NEW d \in Devices, Tells(d), NEW left, ApplyWith(d, left),
         Renames, Current(d)' \subseteq Named'
  PROVE  On(board)' /\ Shows(d)
<1>1. On(board)
  BY DEF Desk, Functions
<1>2. CASE OutsOf(d, "OfferLocally") # {}
  <2>1. PICK o \in OutsOf(d, "OfferLocally") : board' = [board EXCEPT ![d] = Offering(o.seq, o.formats)]
    BY <1>2 DEF ApplyWith
  <2>2. o.seq \in Named'
    BY <2>1, OutsAre DEF Sayable, Current
  <2> DEFINE x == Offering(o.seq, o.formats)
  <2>3. x.type = "offer" /\ x.seq = o.seq
    BY DEF Offering
  <2>4. board' = [board EXCEPT ![d] = x]
    BY <2>1
  <2> HIDE DEF x
  <2>5. board'[d] = x /\ On(board)' /\ \A e \in Devices \ {d} : board'[e] = board[e]
    BY <1>1, <2>4 DEF On
  <2> QED
    BY <2>2, <2>3, <2>5 DEF Shows, HoldsCopy, HoldsOffer
<1>3. CASE board' = [board EXCEPT ![d] = None]
  <2>1. board'[d] = None /\ On(board)' /\ \A e \in Devices \ {d} : board'[e] = board[e]
    BY <1>1, <1>3 DEF On
  <2> QED
    BY <2>1 DEF Shows, HoldsCopy, HoldsOffer
<1>4. CASE board' = board
  <2>1. Machine(d) /\ \A s \in Named : s \in Named'
    BY DEF Desk, Renames, Named
  <2> QED
    BY <1>1, <1>4, <2>1 DEF Machine, Boards, Shows, On, HoldsCopy, HoldsOffer
<1> QED
  BY <1>2, <1>3, <1>4 DEF ApplyWith

\* The reads, once those the exchange asks for have started.
LEMMA ReadsApplied ==
  ASSUME Desk, NEW d \in Devices, Tells(d), NEW left, ApplyWith(d, left),
         \A r \in left : GoesOn(d, r)
  PROVE  On(reads)' /\ ReadsOn(d)
<1> DEFINE new == {[key |-> o.key, state |-> "started", data |-> None] :
                     o \in OutsOf(d, "ReadLocal")}
<1>1. On(reads)
  BY DEF Desk, Functions
<1>2. reads' = [reads EXCEPT ![d] = left \cup new]
  BY DEF ApplyWith
<1>3. ASSUME NEW r \in new PROVE Begins(d, r)
  <2>1. PICK o \in OutsOf(d, "ReadLocal") :
          r = [key |-> o.key, state |-> "started", data |-> None]
    OBVIOUS
  <2>2. o.key \in reading'[d] \ reading[d]
    BY OutsAre DEF Sayable
  <2>3. r.key = o.key
    BY <2>1
  <2> HIDE DEF new
  <2> QED
    BY <2>1, <2>2, <2>3 DEF Begins
<1> HIDE DEF new
<1>4. /\ On(reads)' /\ reads'[d] = left \cup new
      /\ \A e \in Devices \ {d} : reads'[e] = reads[e]
  BY <1>1, <1>2 DEF On
<1> QED
  BY <1>3, <1>4 DEF ReadsOn

\* The pastes that are answered.
LEMMA AnswersApplied ==
  ASSUME Desk, NEW d \in Devices, Tells(d), NEW left, ApplyWith(d, left)
  PROVE  Gives(d)
<1> DEFINE given == OutsOf(d, "Deliver")
<1>1. ASSUME NEW t \in DOMAIN answers, t \in DOMAIN answers'
      PROVE  t \in DOMAIN asked /\ answers'[t] = answers[t]
  BY DEF Desk, Asking, ApplyWith
<1>2. ASSUME NEW t \in DOMAIN answers', t \notin DOMAIN answers
      PROVE  /\ t \in DOMAIN asked
             /\ \/ answers'[t] = None
                \/ \E k \in DOMAIN cache'[d] :
                     answers'[t] = cache'[d][k] /\ k.seq = asked[t].seq
  <2>1. /\ \E o \in given : o.ticket = t
        /\ answers'[t] = (CHOOSE o \in given : o.ticket = t).data
    BY <1>2 DEF ApplyWith
  <2> HIDE DEF given
  <2>2. PICK o \in given : o.ticket = t /\ answers'[t] = o.data
    BY <2>1
  <2>3. Sayable(d, o) /\ o.type = "Deliver"
    BY OutsAre DEF given
  <2> QED
    BY <2>2, <2>3 DEF Sayable
<1> QED
  BY <1>1, <1>2 DEF Gives

\* A read that was under way goes on as long as the machine's own offer stands.
LEMMA StandingReadsGoOn ==
  ASSUME Desk, NEW d \in Devices, Stands(d), NEW r \in reads[d]
  PROVE  GoesOn(d, r)
<1>1. Machine(d)
  BY DEF Desk
<1> QED
  BY <1>1 DEF Machine, ReadsRight, ReadRight, Stands, GoesOn

\* A step that shows nothing on the machine.
LEMMA NothingApplied ==
  ASSUME Desk, NEW d \in Devices, UNCHANGED <<board, reads, answers, named>>,
         \A r \in reads[d] : GoesOn(d, r)
  PROVE  On(board)' /\ On(reads)' /\ Shows(d) /\ ReadsOn(d) /\ Gives(d)
<1>1. On(board)' /\ On(reads)'
  BY DEF Desk, Functions, On
<1>2. Machine(d)
  BY DEF Desk
<1>3. Shows(d)
  BY <1>2 DEF Shows, Machine, Boards, HoldsCopy, HoldsOffer, Named
<1>4. Gives(d)
  BY DEF Gives, Desk, Asking
<1> QED
  BY <1>1, <1>3, <1>4 DEF ReadsOn

\* A turn that leaves the machine's own offer as it was.
LEMMA OrdinaryTurn ==
  ASSUME Desk, IInv', NEW d \in Devices, Behaves(d), Alone(d),
         RemoteSeqs(d)' \subseteq Named,
         ApplyHere(d) \/ UNCHANGED <<board, reads, answers>>,
         OnClients(up)', OnClients(downward)',
         \A c \in Clients : Grown(up'[c]) /\ Grown(downward'[c]),
         On(notices)', On(pasting)',
         \A e \in Devices : Noticed(e)' /\ pasting'[e] \subseteq pasting[e],
         UNCHANGED <<counter, asked, made, named>>
  PROVE  Desk'
<1>1. Machine(d)
  BY DEF Desk
<1>2. \A r \in reads[d] : GoesOn(d, r)
  BY StandingReadsGoOn DEF Behaves
<1>3. Current(d)' \subseteq Named'
  BY <1>1 DEF Behaves, Stands, Current, Machine, Named
<1>4. On(board)' /\ On(reads)' /\ Shows(d) /\ ReadsOn(d) /\ Gives(d)
  <2>1. CASE ApplyHere(d)
    <3>1. Renames
      BY DEF Renames, Named
    <3> QED
      BY <1>2, <1>3, <2>1, <3>1, BoardAfter, ReadsApplied, AnswersApplied
         DEF ApplyHere, Behaves
  <2>2. CASE UNCHANGED <<board, reads, answers>>
    BY <1>2, <2>2, NothingApplied
  <2> QED
    BY <2>1, <2>2
<1>5. Queues' /\ \A o \in Mail' : o \in Mail \/ Sayable(d, o)
  BY MailAfter DEF Behaves, Tells
<1>6. Turn(d)
  <2>1. Renames
    BY DEF Renames, Named
  <2>2. \A s \in LocalSeqs(d)' :
          s \in LocalSeqs(d) /\ \A k \in DOMAIN cache[d] : k.seq = s => k \in DOMAIN cache'[d]
    BY DEF Behaves, Stands
  <2> QED
    BY <1>1, <1>5, <2>1, <2>2 DEF Turn, Behaves, Passes, Machine
<1>7. Leaves(d)
  <2>1. On(counter)' /\ Copying'
    BY DEF Desk, Functions, On, Copying, Named, MadeOn
  <2> QED
    BY <1>4, <1>5, <2>1 DEF Leaves, Functions
<1> QED
  BY <1>3, <1>4, <1>6, <1>7, TurnKeeps

-----------------------------------------------------------------------------
(* A machine that takes its turn takes it alone.                           *)

\* A step of no exchange.
LEMMA NobodyMoves ==
  ASSUME NEW d, UNCHANGED <<peers, local, remote, cache, reading, fetching, waiting>>
  PROVE  Alone(d)
BY DEF Alone

\* A link comes or goes for one machine only,
LEMMA LinkAlone ==
  ASSUME IInv, NEW d \in Devices, NEW p, PeerUp(d, p) \/ PeerGone(d, p) \/ Forgotten(d)
  PROVE  Alone(d)
<1>1. Shape
  BY DEF IInv
<1>2. CASE PeerUp(d, p)
  BY <1>1, <1>2 DEF Shape, On, PeerUp, Alone
<1>3. CASE PeerGone(d, p)
  BY <1>1, <1>3, Zenon DEF Shape, On, PeerGone, Outdated, Alone
<1>4. CASE Forgotten(d)
  BY <1>1, <1>4 DEF Shape, On, Forgotten, Alone
<1> QED
  BY <1>2, <1>3, <1>4

\* an offer is taken in or made by one,
LEMMA OfferAlone ==
  ASSUME IInv, NEW d \in Devices, NEW p, NEW s, NEW fs, NEW soon,
         OfferArrived(d, p, s, fs) \/ LocalChanged(d, fs, soon)
  PROVE  Alone(d)
<1>1. ASSUME NEW ss, NEW mine, NEW theirs, Forget(d, ss), Now(d, mine, theirs),
             UNCHANGED peers
      PROVE  Alone(d)
  BY <1>1, OfferReplaced DEF IInv
<1>2. CASE OfferArrived(d, p, s, fs)
  BY <1>1, <1>2, NobodyMoves DEF OfferArrived
<1>3. CASE LocalChanged(d, fs, soon)
  BY <1>1, <1>3, NobodyMoves DEF LocalChanged
<1> QED
  BY <1>2, <1>3

\* a request or a paste is taken in by one,
LEMMA AskingAlone ==
  ASSUME IInv, NEW d \in Devices, NEW p, NEW k, NEW n,
         RequestArrived(d, p, k, n) \/ Wanted(d, n, k)
  PROVE  Alone(d)
<1>1. Shape /\ UNCHANGED <<peers, local, remote, cache>>
  BY DEF IInv, RequestArrived, Wanted
<1>2. ASSUME UNCHANGED <<reading, fetching, waiting>> PROVE Alone(d)
  BY <1>1, <1>2, NobodyMoves
<1>3. ASSUME NEW w, waiting' = [waiting EXCEPT ![d] = @ \cup {w}],
             Held(d, k), Fetch(d, k), UNCHANGED reading
      PROVE  Alone(d)
  <2>1. \A e \in Devices \ {d} : fetching'[e] = fetching[e]
    BY <1>3, FetchAsks
  <2> QED
    BY <1>1, <1>3, <2>1 DEF Shape, On, Alone
<1>4. ASSUME NEW w, waiting' = [waiting EXCEPT ![d] = @ \cup {w}],
             reading' = [reading EXCEPT ![d] = @ \cup {k}], UNCHANGED fetching
      PROVE  Alone(d)
  BY <1>1, <1>4 DEF Shape, On, Alone
<1>5. CASE RequestArrived(d, p, k, n)
  BY <1>2, <1>3, <1>4, <1>5 DEF RequestArrived
<1>6. CASE Wanted(d, n, k)
  BY <1>2, <1>3, <1>6 DEF Wanted
<1> QED
  BY <1>5, <1>6

\* and an answer.
LEMMA AnswerAlone ==
  ASSUME IInv, NEW d \in Devices, NEW p, NEW k, NEW n, NEW data, NEW last,
         \/ ChunkArrived(d, p, k, n, data, last) \/ UnavailableArrived(d, p, k)
         \/ ReadDone(d, k, data)
  PROVE  Alone(d)
<1>1. Shape /\ UNCHANGED <<peers, local, remote>>
  BY DEF IInv, ChunkArrived, UnavailableArrived, ReadDone
<1>2. ASSUME UNCHANGED <<cache, reading, fetching, waiting>> PROVE Alone(d)
  BY <1>1, <1>2, NobodyMoves
<1>3. ASSUME NEW x, Fail(d, k) \/ Serve(d, k, x),
             \/ fetching' = [fetching EXCEPT ![d] = Without(@, {k})] /\ UNCHANGED reading
             \/ reading' = [reading EXCEPT ![d] = @ \ {k}] /\ UNCHANGED fetching
      PROVE  Alone(d)
  <2>1. \A e \in Devices \ {d} : cache'[e] = cache[e] /\ waiting'[e] = waiting[e]
    BY <1>1, <1>3, ServeSettles, FailSettles
  <2> QED
    BY <1>1, <1>3, <2>1 DEF Shape, On, Alone
<1>4. ASSUME NEW x, fetching' = [fetching EXCEPT ![d][k].buf = x],
             UNCHANGED <<cache, reading, waiting>>
      PROVE  Alone(d)
  BY <1>1, <1>4 DEF Shape, On, Alone
<1>5. CASE ChunkArrived(d, p, k, n, data, last)
  BY <1>2, <1>3, <1>4, <1>5, Zenon DEF ChunkArrived
<1>6. CASE UnavailableArrived(d, p, k)
  BY <1>2, <1>3, <1>6 DEF UnavailableArrived
<1>7. CASE ReadDone(d, k, data)
  BY <1>3, <1>7 DEF ReadDone
<1> QED
  BY <1>5, <1>6, <1>7

-----------------------------------------------------------------------------
(* The steps of the desk.                                                  *)

\* What the invariant says of one machine.
LEMMA MachineIs ==
  ASSUME Desk, NEW d \in Devices
  PROVE  /\ Machine(d) /\ Here(d) /\ InPieces(d) /\ IInv
         /\ Current(d) \subseteq Named /\ RemoteSeqs(d) \subseteq Named
         /\ Queues /\ OnClients(up) /\ OnClients(downward) /\ On(pasting)
BY DEF Desk, Functions, Machine, Current

\* The notices, when no copy is made or announced.
LEMMA NoticesStay ==
  ASSUME Desk, UNCHANGED <<notices, made, named>>
  PROVE  On(notices)' /\ \A e \in Devices : Noticed(e)'
<1>1. On(notices)'
  BY DEF Desk, Functions, On
<1>2. ASSUME NEW e \in Devices PROVE Noticed(e)'
  <2>1. Noticed(e)
    BY DEF Desk, Machine
  <2> QED
    BY <2>1 DEF Noticed, MadeOn, Named
<1> QED
  BY <1>1, <1>2

\* The pastes that are open.
LEMMA PastesStay ==
  ASSUME Desk, UNCHANGED pasting
  PROVE  On(pasting)' /\ \A e \in Devices : pasting'[e] \subseteq pasting[e]
BY DEF Desk, Functions, On

\* A client connects.
LEMMA ConnectKeeps == ASSUME Desk, IInv', NEW c \in Clients, Connect(c) PROVE Desk'
<1>1. c \in Devices /\ UNCHANGED <<asked, counter>>
  BY DEF Clients, Connect, PeerUp, boardVars
<1>2. PeerUp(c, Hub) /\ UNCHANGED boardVars /\ UNCHANGED deskVars
  BY DEF Connect
<1>3. Behaves(c) /\ RemoteSeqs(c)' \subseteq Named
  BY <1>1, <1>2, MachineIs, PeerUpBehaves
<1>4. Alone(c)
  BY <1>1, <1>2, LinkAlone, MachineIs
<1>5. /\ OnClients(up)' /\ OnClients(downward)'
      /\ \A e \in Clients : Grown(up'[e]) /\ Grown(downward'[e])
  <2>1. OnClients(up) /\ OnClients(downward) /\ Queues
    BY <1>1, MachineIs
  <2>2. Grown(Sent(Hub)) /\ Grown(<<>>)
    BY <1>3, SentGrown, EmptyGrown DEF Behaves
  <2>3. /\ OnClients(up)' /\ OnClients(downward)'
        /\ up'[c] = Sent(Hub) /\ downward'[c] = <<>>
        /\ \A e \in Clients \ {c} : up'[e] = up[e] /\ downward'[e] = downward[e]
    BY <2>1 DEF Connect, OnClients
  <2> QED
    BY <2>1, <2>2, <2>3, QueuesGrown
<1> QED
  BY <1>1, <1>2, <1>3, <1>4, <1>5, OrdinaryTurn,
     NoticesStay, PastesStay DEF boardVars, deskVars

\* The server takes a client in.
LEMMA TakeInKeeps == ASSUME Desk, IInv', NEW c \in Clients, TakeIn(c) PROVE Desk'
<1>1. Hub \in Devices /\ UNCHANGED <<asked, counter>>
  BY HubAssumption DEF TakeIn, PeerUp, boardVars
<1>2. PeerUp(Hub, c) /\ UNCHANGED boardVars /\ UNCHANGED deskVars
  BY DEF TakeIn
<1>3. Behaves(Hub) /\ RemoteSeqs(Hub)' \subseteq Named
  BY <1>1, <1>2, MachineIs, PeerUpBehaves
<1>4. Alone(Hub)
  BY <1>1, <1>2, LinkAlone, MachineIs
<1>5. /\ OnClients(up)' /\ OnClients(downward)'
      /\ \A e \in Clients : Grown(up'[e]) /\ Grown(downward'[e])
  <2>1. OnClients(up) /\ OnClients(downward) /\ Queues
    BY <1>1, MachineIs
  <2>2. Grown(Sent(c))
    BY <1>3, SentGrown DEF Behaves
  <2>3. /\ OnClients(up)' /\ OnClients(downward)'
        /\ downward'[c] = Sent(c)
        /\ \A e \in Clients : up'[e] = up[e] /\ (e # c => downward'[e] = downward[e])
    BY <2>1 DEF TakeIn, OnClients
  <2> QED
    BY <2>1, <2>2, <2>3, QueuesGrown
<1> QED
  BY <1>1, <1>2, <1>3, <1>4, <1>5, OrdinaryTurn,
     NoticesStay, PastesStay DEF boardVars, deskVars

\* A machine loses a peer.
LEMMA LosesKeeps ==
  ASSUME Desk, IInv', NEW d \in Devices, NEW p, PeerGone(d, p), Apply(d),
         UNCHANGED <<notices, pasting, asked, link, deskVars>>
  PROVE  Desk'
<1>1. UNCHANGED <<asked, counter, made, named>>
  BY Zenon DEF PeerGone, deskVars
<1>2. Behaves(d) /\ RemoteSeqs(d)' \subseteq Named
  BY <1>1, MachineIs, PeerGoneBehaves
<1>3. Alone(d)
  BY LinkAlone, MachineIs
<1>4. /\ OnClients(up)' /\ OnClients(downward)'
      /\ \A e \in Clients : Grown(up'[e]) /\ Grown(downward'[e])
  BY <1>2, MachineIs, SendFromGrows DEF Behaves, Apply
<1> QED
  BY <1>1, <1>2, <1>3, <1>4, OrdinaryTurn, NoticesStay,
     PastesStay DEF Apply

\* A paste is taken up by the exchange.
LEMMA WantKeeps == ASSUME Desk, IInv', NEW d \in Devices, Want(d) PROVE Desk'
<1>1. PICK p \in pasting[d] :
        /\ pasting' = [pasting EXCEPT ![d] = @ \ {p}]
        /\ Wanted(d, p.ticket, p.key) /\ Apply(d)
        /\ UNCHANGED <<notices, asked, link, deskVars>>
  BY DEF Want
<1>2. UNCHANGED <<asked, counter, made, named>>
  BY <1>1 DEF Wanted, deskVars
<1>3. p.ticket \in DOMAIN asked /\ p.ticket \in Nat /\ p.key.seq = asked[p.ticket].seq
  <2>1. p.ticket \in DOMAIN asked /\ p.key.seq = asked[p.ticket].seq
    BY MachineIs DEF Machine, Pastes
  <2>2. DOMAIN asked = 1 .. Len(asked) /\ Len(asked) \in Nat
    BY SeqIs DEF Desk, Asking
  <2> QED
    BY <2>1, <2>2
<1>4. Behaves(d) /\ RemoteSeqs(d)' \subseteq Named
  BY <1>1, <1>2, <1>3, MachineIs, WantedBehaves
<1>5. Alone(d)
  BY <1>1, AskingAlone, MachineIs
<1>6. /\ OnClients(up)' /\ OnClients(downward)'
      /\ \A e \in Clients : Grown(up'[e]) /\ Grown(downward'[e])
  BY <1>1, <1>4, MachineIs, SendFromGrows DEF Behaves, Apply
<1>7. On(pasting)' /\ \A e \in Devices : pasting'[e] \subseteq pasting[e]
  BY <1>1, MachineIs DEF On
<1> QED
  BY <1>1, <1>2, <1>4, <1>5, <1>6, <1>7, OrdinaryTurn,
     NoticesStay DEF Apply

\* A message is heard.
LEMMA HandleBehaves ==
  ASSUME Desk, NEW d \in Devices, NEW p, p # d, NEW m \in Mail, Handle(d, p, m),
         UNCHANGED asked
  PROVE  Behaves(d) /\ RemoteSeqs(d)' \subseteq Named /\ Alone(d) /\ UNCHANGED counter
<1>1. Carries(m) /\ Here(d) /\ InPieces(d) /\ IInv /\ RemoteSeqs(d) \subseteq Named
  BY MachineIs DEF Desk
<1>2. CASE m.type = "Offer" /\ OfferArrived(d, p, m.seq, m.formats)
  <2>1. UNCHANGED counter /\ Alone(d)
    BY <1>1, <1>2, OfferAlone DEF OfferArrived
  <2>2. Behaves(d) /\ RemoteSeqs(d)' \subseteq RemoteSeqs(d) \cup {m.seq}
    BY <1>1, <1>2, OfferArrivedBehaves
  <2> QED
    BY <1>1, <1>2, <2>1, <2>2 DEF Carries
<1>3. CASE m.type = "Request" /\ RequestArrived(d, p, m.key, m.offset)
  <2>1. UNCHANGED counter /\ Alone(d)
    BY <1>1, <1>3, AskingAlone, Zenon DEF RequestArrived
  <2>2. Behaves(d) /\ RemoteSeqs(d)' = RemoteSeqs(d)
    BY <1>1, <1>3, RequestArrivedBehaves DEF Carries
  <2> QED
    BY <1>1, <2>1, <2>2
<1>4. CASE m.type = "Chunk" /\ ChunkArrived(d, p, m.key, m.offset, m.data, m.last)
  <2>1. UNCHANGED counter /\ Alone(d)
    BY <1>1, <1>4, AnswerAlone, Zenon DEF ChunkArrived
  <2>2. Behaves(d) /\ RemoteSeqs(d)' = RemoteSeqs(d)
    BY <1>1, <1>4, ChunkArrivedBehaves DEF Carries
  <2> QED
    BY <1>1, <2>1, <2>2
<1>5. CASE m.type = "Unavailable" /\ UnavailableArrived(d, p, m.key)
  <2>1. UNCHANGED counter /\ Alone(d)
    BY <1>1, <1>5, AnswerAlone DEF UnavailableArrived
  <2>2. Behaves(d) /\ RemoteSeqs(d)' = RemoteSeqs(d)
    BY <1>1, <1>5, UnavailableArrivedBehaves
  <2> QED
    BY <1>1, <2>1, <2>2
<1> QED
  BY <1>2, <1>3, <1>4, <1>5 DEF Handle

\* The server hears a client.
LEMMA HubHearsKeeps == ASSUME Desk, IInv', NEW c \in Clients, HubHears(c) PROVE Desk'
<1>1. Hub \in Devices /\ c # Hub /\ UNCHANGED <<asked, made, named>>
  BY HubAssumption DEF HubHears, Clients, deskVars
<1>2. Queues /\ OnClients(up)
  BY <1>1, MachineIs
<1>3. Grown(Tail(up[c])) /\ Head(up[c]) \in Mail
  BY <1>2, QueuesGrown DEF HubHears
<1>4. Behaves(Hub) /\ RemoteSeqs(Hub)' \subseteq Named /\ Alone(Hub) /\ UNCHANGED counter
  BY <1>1, <1>3, HandleBehaves DEF HubHears
<1>5. /\ OnClients(up)' /\ OnClients(downward)'
      /\ \A e \in Clients : Grown(up'[e]) /\ Grown(downward'[e])
  <2>1. OnClients(up)' /\ up'[c] = Tail(up[c]) /\ \A e \in Clients \ {c} : up'[e] = up[e]
    BY <1>2 DEF HubHears, OnClients
  <2>2. OnClients(downward)'
    BY DEF HubHears, OnClients
  <2>3. ASSUME NEW e \in Clients PROVE Grown(downward'[e])
    <3>1. Grown(downward[e]) /\ Grown(downward[e] \o Sent(e))
      BY <1>2, <1>4, QueuesGrown, SentGrown, JoinedGrown DEF Behaves
    <3>2. downward'[e] = downward[e] \/ downward'[e] = downward[e] \o Sent(e)
      BY DEF HubHears
    <3> QED
      BY <3>1, <3>2
  <2> QED
    BY <1>2, <1>3, <2>1, <2>2, <2>3, QueuesGrown
<1> QED
  BY <1>1, <1>4, <1>5, OrdinaryTurn, NoticesStay, PastesStay DEF HubHears

\* A client hears the server.
LEMMA ClientHearsKeeps == ASSUME Desk, IInv', NEW c \in Clients, ClientHears(c) PROVE Desk'
<1>1. Hub # c /\ c \in Devices /\ UNCHANGED <<asked, made, named>>
  BY HubAssumption DEF ClientHears, Clients, deskVars
<1>2. Queues /\ OnClients(up) /\ OnClients(downward)
  BY <1>1, MachineIs
<1>3. Grown(Tail(downward[c])) /\ Head(downward[c]) \in Mail
  BY <1>2, QueuesGrown DEF ClientHears
<1>4. Behaves(c) /\ RemoteSeqs(c)' \subseteq Named /\ Alone(c) /\ UNCHANGED counter
  BY <1>1, <1>3, HandleBehaves DEF ClientHears
<1>5. /\ OnClients(up)' /\ OnClients(downward)'
      /\ \A e \in Clients : Grown(up'[e]) /\ Grown(downward'[e])
  <2>1. /\ OnClients(downward)' /\ downward'[c] = Tail(downward[c])
        /\ \A e \in Clients \ {c} : downward'[e] = downward[e]
    BY <1>2 DEF ClientHears, OnClients
  <2>2. /\ OnClients(up)' /\ \A e \in Clients \ {c} : up'[e] = up[e]
        /\ up'[c] = up[c] \/ up'[c] = up[c] \o Sent(Hub)
    BY <1>2 DEF ClientHears, OnClients
  <2>3. Grown(up[c] \o Sent(Hub))
    BY <1>2, <1>4, QueuesGrown, SentGrown, JoinedGrown DEF Behaves
  <2> QED
    BY <1>2, <1>3, <2>1, <2>2, <2>3, QueuesGrown
<1> QED
  BY <1>1, <1>4, <1>5, OrdinaryTurn, NoticesStay, PastesStay DEF ClientHears

\* The configuration of the server changes.
LEMMA ReconfigureKeeps ==
  ASSUME Desk, IInv', NEW on, NEW fs, Reconfigure(on, fs)
  PROVE  Desk'
<1>1. /\ Hub \in Devices /\ Configure(Hub, on, fs)
      /\ UNCHANGED <<boardVars, linkVars, made, named>>
  BY HubAssumption DEF Reconfigure
<1>2. UNCHANGED <<asked, counter, up, downward, board, reads, answers, notices, pasting>>
  BY <1>1 DEF boardVars, linkVars, Configure
<1>3. Behaves(Hub) /\ RemoteSeqs(Hub)' = RemoteSeqs(Hub)
  BY <1>1, <1>2, MachineIs, ConfigureBehaves
<1>4. Alone(Hub)
  BY <1>1, NobodyMoves DEF Configure
<1>5. /\ OnClients(up)' /\ OnClients(downward)'
      /\ \A e \in Clients : Grown(up'[e]) /\ Grown(downward'[e])
  BY <1>1, <1>2, MachineIs, QueuesGrown DEF OnClients
<1> QED
  BY <1>1, <1>2, <1>3, <1>4, <1>5, MachineIs, OrdinaryTurn, NoticesStay, PastesStay

\* Messages are lost: nothing else happens.
LEMMA CutKeeps == ASSUME Desk, IInv', NEW c \in Clients, Cut(c) PROVE Desk'
<1>1. /\ Hub \in Devices /\ UNCHANGED <<exchangeVars, boardVars, made, named>>
      /\ \E n \in 0 .. Len(downward[c]), m \in 0 .. Len(up[c]) :
           /\ downward' = [downward EXCEPT ![c] = SubSeq(@, 1, n)]
           /\ up' = [up EXCEPT ![c] = SubSeq(@, 1, m)]
  BY HubAssumption DEF Cut
<1>2. UNCHANGED <<asked, counter, board, reads, answers, notices, pasting, local,
                  remote, peers, cache, reading, fetching, waiting>>
  BY <1>1 DEF boardVars, exchangeVars
<1>3. /\ OnClients(up)' /\ OnClients(downward)' /\ Queues' /\ \A o \in Mail' : o \in Mail
  <2>1. OnClients(up) /\ OnClients(downward) /\ Queues
    BY <1>1, MachineIs
  <2>2. PICK n \in 0 .. Len(downward[c]) : \E m \in 0 .. Len(up[c]) :
          /\ downward' = [downward EXCEPT ![c] = SubSeq(@, 1, n)]
          /\ up' = [up EXCEPT ![c] = SubSeq(@, 1, m)]
    BY <1>1
  <2>3. PICK m \in 0 .. Len(up[c]) :
          /\ downward' = [downward EXCEPT ![c] = SubSeq(@, 1, n)]
          /\ up' = [up EXCEPT ![c] = SubSeq(@, 1, m)]
    BY <2>2
  <2>4. /\ OnClients(up)' /\ OnClients(downward)'
        /\ downward'[c] = SubSeq(downward[c], 1, n) /\ up'[c] = SubSeq(up[c], 1, m)
        /\ \A e \in Clients \ {c} : up'[e] = up[e] /\ downward'[e] = downward[e]
    BY <2>1, <2>3 DEF OnClients
  <2>5. /\ IsSeq(SubSeq(downward[c], 1, n)) /\ IsSeq(SubSeq(up[c], 1, m))
        /\ Elems(SubSeq(downward[c], 1, n)) \subseteq Elems(downward[c])
        /\ Elems(SubSeq(up[c], 1, m)) \subseteq Elems(up[c])
    BY <2>1, CutIs DEF Queues
  <2>6. \A e \in Clients : /\ IsSeq(up'[e]) /\ IsSeq(downward'[e])
                           /\ Elems(up'[e]) \subseteq Elems(up[e])
                           /\ Elems(downward'[e]) \subseteq Elems(downward[e])
    BY <2>1, <2>4, <2>5 DEF Queues
  <2> QED
    BY <2>4, <2>6 DEF Queues, Mail
<1>4. Machine(Hub) /\ GainsNothing(Hub)
  BY <1>1, <1>2, MachineIs DEF GainsNothing
<1>5. Turn(Hub)
  <2>1. Here(Hub)' /\ LocalSeqs(Hub)' = LocalSeqs(Hub)
    BY <1>2, <1>4 DEF Machine, Here, LocalSeqs, RemoteSeqs
  <2>2. Passes(Hub)
    BY <1>1, <1>4, GainsNothingPasses
  <2>3. Alone(Hub) /\ Renames
    BY <1>1, <1>2, NobodyMoves DEF Renames, Named
  <2> QED
    BY <1>1, <1>2, <1>3, <1>4, <2>1, <2>2, <2>3 DEF Turn, Passes, Machine
<1>6. /\ On(board)' /\ On(reads)' /\ Shows(Hub) /\ ReadsOn(Hub) /\ Gives(Hub)
  <2>1. Stands(Hub)
    BY <1>2 DEF Stands, LocalSeqs
  <2> QED
    BY <1>1, <1>2, <2>1, NothingApplied, StandingReadsGoOn
<1>7. Leaves(Hub) /\ Current(Hub)' \subseteq Named'
  <2>1. On(counter)' /\ Copying'
    BY <1>1, <1>2 DEF Desk, Functions, On, Copying, Named, MadeOn
  <2>2. Current(Hub)' \subseteq Named'
    BY <1>1, <1>2, <1>4 DEF Machine, Current, LocalSeqs, RemoteSeqs, Named
  <2> QED
    BY <1>1, <1>2, <1>3, <1>6, <2>1, <2>2, NoticesStay, PastesStay DEF Leaves, Functions
<1> QED
  BY <1>1, <1>5, <1>6, <1>7, TurnKeeps

\* A daemon starts again with nothing.
LEMMA RestartKeeps == ASSUME Desk, IInv', NEW c \in Clients, Restart(c) PROVE Desk'
<1>1. /\ c \in Devices /\ Forgotten(c)
      /\ UNCHANGED <<asked, up, made, named>>
  BY DEF Clients, Restart
<1>2. /\ Here(c)' /\ Tells(c) /\ Passes(c) /\ Current(c)' = {} /\ Alone(c)
  BY <1>1, MachineIs, ForgottenBehaves, LinkAlone DEF Desk, Functions
<1>3. /\ Machine(c) /\ Functions
  BY <1>1 DEF Desk
<1>4. /\ OnClients(up)' /\ OnClients(downward)' /\ Queues'
      /\ \A o \in Mail' : o \in Mail \/ Sayable(c, o)
  <2>1. /\ OnClients(up)' /\ OnClients(downward)'
        /\ downward'[c] = <<>>
        /\ \A e \in Clients : up'[e] = up[e] /\ (e # c => downward'[e] = downward[e])
    BY <1>1, <1>3 DEF Functions, OnClients, Restart
  <2>2. \A e \in Clients : Grown(up'[e]) /\ Grown(downward'[e])
    BY <1>1, <2>1, MachineIs, QueuesGrown, EmptyGrown
  <2> QED
    BY <1>2, <2>1, <2>2, MailAfter DEF Tells
<1>5. LocalSeqs(c)' = {}
  BY <1>2 DEF Current
<1>6. Renames
  BY <1>1 DEF Renames, Named
<1>7. Turn(c)
  BY <1>1, <1>2, <1>3, <1>4, <1>5, <1>6 DEF Turn, Passes, Machine
<1>8. On(board)' /\ Shows(c)
  <2>1. CASE board' = [board EXCEPT ![c] = None]
    <3>1. board'[c] = None /\ On(board)' /\ \A e \in Devices \ {c} : board'[e] = board[e]
      BY <1>1, <1>3, <2>1 DEF Functions, On
    <3> QED
      BY <3>1 DEF Shows, HoldsCopy, HoldsOffer
  <2>2. CASE board' = board
    BY <1>1, <1>3, <2>2 DEF Functions, On, Machine, Boards, Shows, HoldsCopy, HoldsOffer, Named
  <2> QED
    BY <2>1, <2>2 DEF Restart
<1>9. /\ On(reads)' /\ ReadsOn(c) /\ On(notices)' /\ notices'[c] = <<>>
      /\ \A e \in Devices \ {c} : notices'[e] = notices[e]
      /\ On(pasting)' /\ \A e \in Devices : pasting'[e] \subseteq pasting[e]
  BY <1>1, <1>3 DEF Functions, On, Restart, ReadsOn
<1>10. Gives(c)
  <2>1. \A t \in DOMAIN answers' : t \in DOMAIN asked
    BY DEF Restart, Desk, Asking
  <2>2. \A t \in DOMAIN answers' : answers'[t] = None
                                   \/ (t \in DOMAIN answers /\ answers'[t] = answers[t])
    BY DEF Restart
  <2> QED
    BY <2>1, <2>2 DEF Gives
<1>11. Leaves(c)
  <2>1. On(counter)' /\ \A e \in Devices \ {c} : counter'[e] = counter[e]
    BY <1>1, <1>3 DEF Functions, On, Forgotten
  <2>2. Copying'
    BY <1>1 DEF Desk, Copying, Named, MadeOn
  <2>3. ASSUME NEW e \in Devices PROVE Noticed(e)'
    <3>1. Noticed(e)
      BY DEF Desk, Machine
    <3>2. CASE e = c
      BY <1>9, <3>2, FewIs DEF Noticed
    <3>3. CASE e # c
      BY <1>1, <1>9, <3>1, <3>3 DEF Noticed, MadeOn, Named
    <3> QED
      BY <3>2, <3>3
  <2> QED
    BY <1>4, <1>8, <1>9, <2>1, <2>2, <2>3 DEF Leaves, Functions
<1> QED
  BY <1>1, <1>2, <1>7, <1>8, <1>9, <1>10, <1>11, TurnKeeps

\* The whole of a copy.
LEMMA ContentsAre ==
  ASSUME NEW n \in Copies
  PROVE  Whole(Contents(n), n) /\ IsSeq(Contents(n))
<1>1. Sizes[n] \in Nat
  BY SizesAre
<1>2. Contents(n) \in [1 .. Sizes[n] -> {n}]
  BY DEF Contents
<1>3. Contents(n) \in Seq({n}) /\ Len(Contents(n)) = Sizes[n]
  BY <1>1, <1>2, SeqDef, LenProperties
<1> QED
  BY <1>3, IsOne DEF Whole

\* What was read here is nobody's yet, and is of a copy that suits its name.
LEMMA ReadEndsKeeps == ASSUME Desk, IInv', NEW d \in Devices, ReadEnds(d) PROVE Desk'
<1>1. PICK r \in reads[d] :
        /\ ReadDone(d, r.key, r.data)
        /\ ApplyWith(d, reads[d] \ {r}) /\ SendFrom(d)
        /\ UNCHANGED <<notices, pasting, asked, link, deskVars>>
  BY DEF ReadEnds
<1>2. Machine(d) /\ ReadRight(d, r) /\ UNCHANGED <<asked, made, named>>
  BY <1>1, MachineIs DEF Machine, ReadsRight, deskVars
<1> DEFINE k == r.key
<1>3. /\ Here(d)' /\ Tells(d) /\ InPieces(d)'
      /\ counter' = counter /\ reading'[d] = reading[d] \ {k}
      /\ LocalSeqs(d)' = LocalSeqs(d) /\ RemoteSeqs(d)' = RemoteSeqs(d)
      /\ \A q \in DOMAIN cache[d] : q \in DOMAIN cache'[d]
      /\ \A q : \/ PassesOn(d, q)
                \/ /\ q = k /\ k.seq \in LocalSeqs(d) /\ r.data # None
                   /\ k \in DOMAIN cache'[d] /\ cache'[d][k] = r.data
                   /\ k \notin DOMAIN fetching'[d]
  <2>1. r.data = None \/ IsSeq(r.data)
    BY <1>2 DEF ReadRight
  <2> QED
    BY <1>1, <1>2, <2>1, MachineIs, ReadDoneBehaves
<1>4. Alone(d)
  BY <1>1, AnswerAlone, MachineIs
<1>5. Renames
  BY <1>2 DEF Renames, Named
<1>6. Current(d)' \subseteq Named'
  BY <1>2, <1>3 DEF Machine, Current, Named
<1>7. ASSUME NEW q, Once(q.seq)' PROVE PassesOn(d, q) \/ Brings(d, q)
  <2> SUFFICES ASSUME q = k, k.seq \in LocalSeqs(d), r.data # None,
                      k \in DOMAIN cache'[d], cache'[d][k] = r.data,
                      k \notin DOMAIN fetching'[d]
               PROVE  Brings(d, q)
    BY <1>3
  <2>1. Once(q.seq)
    BY <1>2, <1>7 DEF Once
  <2>2. PICK n \in Copies : r.data = Contents(n) /\ Suits(n, q.seq)
    BY <1>2, <2>1 DEF ReadRight
  <2>3. Suits(n, q.seq)' /\ Whole(cache'[d][q], n)
    BY <1>2, <2>2, ContentsAre DEF Suits, MadeOn
  <2>4. q \in reading[d] /\ q \notin DOMAIN cache[d]
    BY <1>2 DEF ReadRight, Machine, Here
  <2>5. q \notin Carried
    BY <2>1, <2>4 DEF Desk, Unread
  <2> QED
    BY <1>3, <2>3, <2>5 DEF Brings
<1>8. /\ OnClients(up)' /\ OnClients(downward)'
      /\ \A e \in Clients : Grown(up'[e]) /\ Grown(downward'[e])
  BY <1>1, <1>3, MachineIs, SendFromGrows
<1>9. Queues' /\ \A o \in Mail' : o \in Mail \/ Sayable(d, o)
  BY <1>3, <1>8, MailAfter DEF Tells
<1>10. Turn(d)
  BY <1>2, <1>3, <1>4, <1>5, <1>7, <1>9 DEF Turn
<1>11. ASSUME NEW q \in reads[d] \ {r} PROVE GoesOn(d, q)
  <2>1. ReadRight(d, q)
    BY <1>2 DEF Machine, ReadsRight
  <2>2. q.key.seq \in LocalSeqs(d) => q.key # k
    BY <1>2 DEF ReadRight
  <2> QED
    BY <1>3, <2>1, <2>2 DEF ReadRight, GoesOn
<1>12. On(board)' /\ On(reads)' /\ Shows(d) /\ ReadsOn(d) /\ Gives(d)
  BY <1>1, <1>3, <1>5, <1>6, <1>11, BoardAfter, ReadsApplied, AnswersApplied
<1>13. Leaves(d)
  <2>1. On(counter)' /\ Copying'
    BY <1>2, <1>3 DEF Desk, Functions, On, Copying, Named, MadeOn
  <2> QED
    BY <1>1, <1>2, <1>3, <1>8, <1>9, <1>12, <2>1, NoticesStay, PastesStay
       DEF Leaves, Functions
<1> QED
  BY <1>6, <1>10, <1>12, <1>13, TurnKeeps

\* A notice that has been handled.
LEMMA NoticesShrink ==
  ASSUME Desk, NEW d \in Devices, notices[d] # <<>>,
         notices' = [notices EXCEPT ![d] = Tail(@)], UNCHANGED made
  PROVE  /\ On(notices)' /\ notices'[d] = Tail(notices[d])
         /\ \A e \in Devices \ {d} : notices'[e] = notices[e]
         /\ IsSeq(notices'[d])
         /\ 1 \in DOMAIN notices[d] /\ Head(notices[d]) = notices[d][1]
         /\ \A i \in DOMAIN notices'[d] :
              i + 1 \in DOMAIN notices[d] /\ i \in Nat /\ i + 1 # 1
              /\ notices'[d][i] = notices[d][i + 1]
<1>1. On(notices) /\ IsSeq(notices[d])
  BY MachineIs DEF Desk, Functions, Machine, Noticed
<1>2. /\ On(notices)' /\ notices'[d] = Tail(notices[d])
      /\ \A e \in Devices \ {d} : notices'[e] = notices[e]
  BY <1>1 DEF On
<1>3. IsSeq(notices'[d])
  BY <1>1, <1>2, TailIs
<1>4. /\ notices[d] \in Seq(Elems(notices[d])) /\ DOMAIN notices[d] = 1 .. Len(notices[d])
      /\ Len(notices[d]) \in Nat
  BY <1>1, SeqIs DEF IsSeq
<1>5. /\ Len(Tail(notices[d])) = Len(notices[d]) - 1 /\ Len(notices[d]) # 0
      /\ \A i \in 1 .. Len(Tail(notices[d])) : Tail(notices[d])[i] = notices[d][i + 1]
      /\ Head(notices[d]) = notices[d][1]
  BY <1>4, HeadTailProperties, EmptySeq
<1>6. DOMAIN notices'[d] = 1 .. Len(notices'[d])
  BY <1>3, SeqIs
<1>7. ASSUME NEW i \in DOMAIN notices'[d]
      PROVE  i + 1 \in DOMAIN notices[d] /\ i \in Nat /\ i + 1 # 1
             /\ notices'[d][i] = notices[d][i + 1]
  <2>1. i \in 1 .. Len(notices[d]) - 1
    BY <1>2, <1>5, <1>6
  <2>2. i \in Nat /\ i + 1 \in 1 .. Len(notices[d]) /\ i + 1 # 1
    BY <1>4, <2>1
  <2> QED
    BY <1>2, <1>4, <1>5, <2>1, <2>2
<1>8. 1 \in DOMAIN notices[d]
  BY <1>4, <1>5
<1> QED
  BY <1>2, <1>3, <1>5, <1>7, <1>8

\* A copy is announced under a name, or is taken for an echo.
LEMMA NoticeKeeps ==
  ASSUME Desk, IInv', NEW d \in Devices, NEW soon, Notice(d, soon)
  PROVE  Desk'
<1> DEFINE fs == Head(notices[d]).formats
<1> PICK n : n = Head(notices[d]).copy
  OBVIOUS
<1>1. /\ notices[d] # <<>> /\ notices' = [notices EXCEPT ![d] = Tail(@)]
      /\ LocalChanged(d, fs, soon) /\ Apply(d)
      /\ UNCHANGED <<pasting, asked, link, made, failures>>
  BY DEF Notice
<1>2. /\ Machine(d) /\ Here(d) /\ InPieces(d) /\ IInv /\ On(counter) /\ Noticed(d)
      /\ Copying
  BY MachineIs DEF Desk, Functions, Machine
<1>3. /\ On(notices)' /\ notices'[d] = Tail(notices[d])
      /\ \A e \in Devices \ {d} : notices'[e] = notices[e]
      /\ IsSeq(notices'[d])
      /\ 1 \in DOMAIN notices[d] /\ Head(notices[d]) = notices[d][1]
      /\ \A i \in DOMAIN notices'[d] :
           i + 1 \in DOMAIN notices[d] /\ i \in Nat /\ i + 1 # 1
           /\ notices'[d][i] = notices[d][i + 1]
  BY <1>1, NoticesShrink
<1>4. /\ MadeOn(d, n) /\ \A s \in Named : n \notin named[s]
      /\ \A i \in DOMAIN notices'[d] : notices'[d][i].copy # n
  BY <1>2, <1>3 DEF Noticed
<1>5. Alone(d)
  BY <1>1, <1>2, OfferAlone
<1>6. CASE Behaves(d) /\ UNCHANGED <<local, remote, counter>>
  <2>1. named' = named
    BY <1>6 DEF Notice
  <2>2. RemoteSeqs(d)' \subseteq Named
    BY <1>2, <1>6 DEF RemoteSeqs, Machine, Current
  <2>3. /\ OnClients(up)' /\ OnClients(downward)'
        /\ \A e \in Clients : Grown(up'[e]) /\ Grown(downward'[e])
    BY <1>1, <1>6, MachineIs, SendFromGrows DEF Behaves, Apply
  <2>4. ASSUME NEW e \in Devices PROVE Noticed(e)'
    <3>1. Noticed(e)
      BY MachineIs DEF Machine
    <3>2. CASE e = d
      BY <1>1, <1>3, <2>1, <3>1, <3>2 DEF Noticed, MadeOn, Named
    <3>3. CASE e # d
      BY <1>1, <1>3, <2>1, <3>1, <3>3 DEF Noticed, MadeOn, Named
    <3> QED
      BY <3>2, <3>3
  <2> QED
    BY <1>1, <1>3, <1>5, <1>6, <2>1, <2>2, <2>3, <2>4, OrdinaryTurn, PastesStay DEF Apply
<1>7. CASE /\ Here(d)' /\ Tells(d) /\ Passes(d)
           /\ counter'[d] = counter[d] + 1
           /\ RemoteSeqs(d)' = {} /\ local'[d] # {}
           /\ \A o \in local'[d] : o.seq = [device |-> d, counter |-> counter'[d]]
           /\ reading'[d] \subseteq reading[d]
  <2> PICK s : s = [device |-> d, counter |-> counter'[d]]
    OBVIOUS
  <2>1. LocalSeqs(d)' = {s} /\ Current(d)' = {s}
    BY <1>7 DEF LocalSeqs, Current
  <2>2. counter[d] \in Nat /\ counter'[d] # counter[d]
    BY <1>2, <1>7 DEF Here
  <2>3. /\ DOMAIN named' = Named \cup {s}
        /\ \A q \in Named : q # s => named'[q] = named[q]
        /\ named'[s] = {n} \cup (IF s \in Named THEN named[s] ELSE {})
    <3>1. (CHOOSE o \in local'[d] : TRUE).seq = s
      BY <1>7
    <3>2. named' = With(named, s, {n} \cup (IF s \in DOMAIN named THEN named[s] ELSE {}))
      BY <2>2, <3>1 DEF Notice
    <3> QED
      BY <3>2 DEF With, Named
  <2>4. s \in Named => ~Once(s)'
    <3>1. ASSUME s \in Named PROVE \E m \in named'[s] : m # n
      BY <1>2, <1>4, <2>3, <3>1 DEF Copying
    <3>2. n \in named'[s]
      BY <2>3
    <3> QED
      BY <3>1, <3>2 DEF Once
  <2>5. s.device = d
    OBVIOUS
  <2>6. Renames
    BY <2>3, <2>4 DEF Renames
  <2>7. Copying'
    <3> SUFFICES ASSUME NEW q \in Named'
                 PROVE  named'[q] # {} /\ \A m \in named'[q] : MadeOn(q.device, m)'
      BY <1>1, <1>2 DEF Copying
    <3>1. CASE q = s
      BY <1>1, <1>2, <1>4, <2>3, <2>5, <3>1, ZenonT(30) DEF Copying, MadeOn
    <3>2. CASE q # s
      BY <1>1, <1>2, <2>3, <3>2 DEF Copying, MadeOn, Named
    <3> QED
      BY <3>1, <3>2
  <2>8. ASSUME NEW e \in Devices PROVE Noticed(e)'
    <3>1. Noticed(e)
      BY MachineIs DEF Machine
    <3>2. ASSUME NEW x, MadeOn(e, x), x # n, \A q \in Named : x \notin named[q]
          PROVE  MadeOn(e, x)' /\ \A q \in Named' : x \notin named'[q]
      BY <1>1, <2>3, <3>2 DEF MadeOn, Named
    <3>3. CASE e = d
      <4>1. ASSUME NEW i \in DOMAIN notices'[d], NEW x, x = notices'[d][i].copy
            PROVE  MadeOn(d, x)' /\ \A q \in Named' : x \notin named'[q]
        <5>1. MadeOn(d, x) /\ x # n /\ \A q \in Named : x \notin named[q]
          BY <1>3, <1>4, <3>1, <3>3, <4>1 DEF Noticed
        <5> QED
          BY <3>2, <3>3, <5>1
      <4>2. ASSUME NEW i \in DOMAIN notices'[d], NEW j \in DOMAIN notices'[d], i # j
            PROVE  notices'[d][i].copy # notices'[d][j].copy
        <5>1. i + 1 # j + 1
          BY <1>3, <4>2
        <5> QED
          BY <1>3, <3>1, <3>3, <5>1 DEF Noticed
      <4> QED
        BY <1>3, <3>3, <4>1, <4>2, ZenonT(30) DEF Noticed, MadeOn
    <3>4. CASE e # d
      BY <1>3, <1>4, <3>1, <3>2, <3>4 DEF Noticed, MadeOn
    <3> QED
      BY <3>3, <3>4
  <2>9. Current(d)' \subseteq Named'
    BY <2>1, <2>3 DEF Named
  <2>10. /\ OnClients(up)' /\ OnClients(downward)'
         /\ \A e \in Clients : Grown(up'[e]) /\ Grown(downward'[e])
    BY <1>1, <1>7, MachineIs, SendFromGrows DEF Apply
  <2>11. Queues' /\ \A o \in Mail' : o \in Mail \/ Sayable(d, o)
    BY <1>7, <2>10, MailAfter DEF Tells
  <2>12. Turn(d)
    BY <1>1, <1>2, <1>5, <1>7, <2>1, <2>4, <2>6, <2>11 DEF Turn, Passes
  <2>13. ASSUME NEW r \in reads[d] PROVE GoesOn(d, r)
    <3>1. ReadRight(d, r)
      BY <1>2 DEF Machine, ReadsRight
    <3>2. r.key.seq.counter \in 0 .. counter'[d] /\ r.key.seq.counter # counter'[d]
      BY <1>7, <2>2, <3>1 DEF ReadRight
    <3>3. r.key.seq # s
      BY <3>2
    <3> QED
      BY <2>1, <3>2, <3>3 DEF GoesOn
  <2>14. On(board)' /\ On(reads)' /\ Shows(d) /\ ReadsOn(d) /\ Gives(d)
    BY <1>1, <1>7, <2>6, <2>9, <2>13, BoardAfter, ReadsApplied, AnswersApplied
       DEF Apply, ApplyHere
  <2>15. Leaves(d)
    <3>1. On(counter)' /\ \A e \in Devices \ {d} : counter'[e] = counter[e]
      BY <1>1, <1>2, <2>2 DEF LocalChanged, On
    <3> QED
      BY <1>1, <1>3, <2>7, <2>8, <2>10, <2>11, <2>14, <3>1, PastesStay DEF Leaves, Functions
  <2> QED
    BY <2>9, <2>12, <2>14, <2>15, TurnKeeps
<1> QED
  BY <1>1, <1>2, <1>6, <1>7, LocalChangedBehaves

\* A read takes what the clipboard holds now.
LEMMA ReadKeeps == ASSUME Desk, IInv', NEW d \in Devices, Read(d) PROVE Desk'
<1>1. PICK r \in reads[d] :
        /\ r.state = "started"
        /\ reads' = [reads EXCEPT ![d] = (@ \ {r}) \cup
             {[r EXCEPT !.state = "done",
                        !.data = IF HoldsCopy(d) THEN Contents(board[d].copy)
                                                 ELSE None]}]
  BY Zenon DEF Read
<1> PICK x : x = IF HoldsCopy(d) THEN Contents(board[d].copy) ELSE None
  OBVIOUS
<1> PICK y : y = [r EXCEPT !.state = "done", !.data = x]
  OBVIOUS
<1>2. /\ UNCHANGED <<exchangeVars, board, notices, pasting, asked, answers,
                     linkVars, deskVars>>
  BY DEF Read
<1>3. UNCHANGED <<peers, counter, local, remote, cache, reading, fetching, waiting,
                  board, notices, pasting, asked, answers, up, downward, made, named>>
  BY <1>2 DEF exchangeVars, linkVars, deskVars
<1>4. Machine(d) /\ ReadRight(d, r) /\ Functions /\ Copying
  BY <1>1, MachineIs DEF Machine, ReadsRight, Desk
<1>5. /\ On(reads)' /\ reads'[d] = (reads[d] \ {r}) \cup {y}
      /\ \A e \in Devices \ {d} : reads'[e] = reads[e]
  BY <1>1, <1>4 DEF Functions, On
<1>6. y.key = r.key /\ y.data = x /\ y = [key |-> y.key, state |-> y.state, data |-> y.data]
  <2>1. r = [key |-> r.key, state |-> r.state, data |-> r.data]
    BY <1>4 DEF ReadRight
  <2>2. y = [key |-> r.key, state |-> "done", data |-> x]
    BY <2>1
  <2> QED
    BY <2>2
<1>7. ASSUME x # None
      PROVE  \E n \in Copies : x = Contents(n) /\ Suits(n, r.key.seq)
  <2>1. HoldsCopy(d) /\ x = Contents(board[d].copy)
    BY <1>7
  <2>2. /\ MadeOn(d, board[d].copy)
        /\ \A m \in 1 .. Len(made) : made[m] = d => m <= board[d].copy
    BY <1>4, <2>1 DEF Machine, Boards
  <2>3. r.key.seq.device = d /\ \A m \in named[r.key.seq] : MadeOn(d, m)
    BY <1>4 DEF ReadRight, Copying
  <2>4. Suits(board[d].copy, r.key.seq)
    BY <2>2, <2>3 DEF Suits, MadeOn
  <2>5. board[d].copy \in Copies
    <3>1. /\ Len(made) \in Nat /\ Len(made) <= Len(Sizes)
          /\ Len(Sizes) \in Nat /\ DOMAIN Sizes = 1 .. Len(Sizes)
      BY <1>4, SizesAssumption, LenProperties DEF Copying
    <3> QED
      BY <2>2, <3>1 DEF MadeOn, Copies
  <2> QED
    BY <2>1, <2>4, <2>5
<1>8. x # None => IsSeq(x)
  BY <1>7, ContentsAre
<1>9. ReadsRight(d)'
  <2>1. ASSUME NEW q \in reads'[d], q.key.seq \in LocalSeqs(d),
               NEW h \in reads'[d], h.key = q.key
        PROVE  h = q
    <3>1. \A g \in reads[d] \ {r} : ~(g.key = r.key /\ r.key.seq \in LocalSeqs(d))
      BY <1>4 DEF ReadRight
    <3>2. \A f, g \in reads[d] : f.key = g.key /\ f.key.seq \in LocalSeqs(d) => f = g
      BY <1>4 DEF Machine, ReadsRight, ReadRight
    <3> QED
      BY <1>5, <1>6, <2>1, <3>1, <3>2
  <2>2. LocalSeqs(d)' = LocalSeqs(d)
    BY <1>3 DEF LocalSeqs
  <2>3. ASSUME NEW q \in reads[d], q \in reads'[d] PROVE ReadRight(d, q)'
    <3>1. ReadRight(d, q)
      BY <1>4 DEF Machine, ReadsRight
    <3>2. q.key.seq \in LocalSeqs(d) => \A h \in reads'[d] : h.key = q.key => h = q
      BY <2>1, <2>3
    <3> QED
      BY <1>3, <2>2, <3>1, <3>2 DEF ReadRight, Once, Suits, MadeOn, Named
  <2>4. ReadRight(d, y)'
    <3>1. r.key.seq \in LocalSeqs(d) => \A h \in reads'[d] : h.key = y.key => h = y
      BY <1>5, <1>6, <2>1
    <3> QED
      BY <1>3, <1>4, <1>6, <1>7, <1>8, <2>2, <3>1
         DEF ReadRight, Once, Suits, MadeOn, Named
  <2> QED
    BY <1>5, <2>3, <2>4 DEF ReadsRight
<1>10. ASSUME NEW e \in Devices PROVE Machine(e)'
  <2>1. Machine(e)
    BY MachineIs
  <2>2. ReadsRight(e)'
    <3>1. CASE e = d
      BY <1>9, <3>1
    <3>2. CASE e # d
      BY <1>3, <1>5, <2>1, <3>2 DEF Machine, ReadsRight, ReadRight, LocalSeqs, Once,
         Suits, MadeOn, Named
    <3> QED
      BY <3>1, <3>2
  <2> QED
    BY <1>3, <2>1, <2>2 DEF Machine, Here, InPieces, Current, Boards, Noticed, Pastes,
       LocalSeqs, RemoteSeqs, HoldsCopy, HoldsOffer, MadeOn, Named
<1>11. Functions' /\ Copying' /\ Asking' /\ Queues' /\ Mail' = Mail
  BY <1>3, <1>4, <1>5 DEF Desk, Functions, On, OnClients, Copying, Asking, Queues, Mail,
     MadeOn, Named
<1>12. Carried' = Carried
  BY <1>3, <1>11 DEF Carried, CarriedAt, Chunks
<1>13. Unread' /\ OneCopy' /\ Right' /\ \A o \in Mail' : Carries(o)'
  <2>1. Unread'
    BY <1>3, <1>12 DEF Desk, Unread, Once, LocalSeqs
  <2>2. OneCopy'
    BY <1>3, <1>11, <1>12 DEF Desk, OneCopy, Once, Suits, MadeOn, Holds, HoldsAt
  <2>3. Right'
    BY <1>3 DEF Desk, Right, Once, Suits, MadeOn
  <2>4. \A o \in Mail' : Carries(o)'
    BY <1>3, <1>11 DEF Desk, Carries, Named
  <2> QED
    BY <2>1, <2>2, <2>3, <2>4
<1> QED
  BY <1>10, <1>11, <1>13 DEF Desk

\* A copy is newer than all there were.
LEMMA CopyKeeps == ASSUME Desk, IInv', NEW d \in Devices, NEW fs, Copy(d, fs) PROVE Desk'
<1>1. UNCHANGED <<peers, counter, local, remote, cache, reading, fetching, waiting,
                  reads, pasting, asked, answers, up, downward, named>>
  BY DEF Copy, exchangeVars, linkVars
<1>2. Functions /\ Copying /\ Machine(d) /\ Len(made) < Len(Sizes)
  BY MachineIs DEF Desk, Copy
<1> PICK n : n = Len(made')
  OBVIOUS
<1>3. /\ made' = Append(made, d) /\ made \in Seq(Devices) /\ Len(made) \in Nat
      /\ made' \in Seq(Devices) /\ n = Len(made) + 1 /\ n = Len(made')
      /\ made'[n] = d /\ \A i \in 1 .. Len(made) : made'[i] = made[i]
      /\ n <= Len(Sizes) /\ n \in Nat
  <2>1. made \in Seq(Devices) /\ Len(made) \in Nat /\ made' = Append(made, d)
    BY <1>2, LenProperties DEF Copying, Copy
  <2>2. /\ made' \in Seq(Devices) /\ Len(made') = Len(made) + 1
        /\ \A i \in 1 .. Len(made) : made'[i] = made[i]
        /\ made'[Len(made) + 1] = d
    BY <2>1, AppendProperties
  <2>3. Len(Sizes) \in Nat
    BY SizesAssumption, LenProperties
  <2> QED
    BY <1>2, <2>1, <2>2, <2>3
<1>4. \A e, m : MadeOn(e, m) => MadeOn(e, m)' /\ m # n
  BY <1>3 DEF MadeOn
<1>5. \A e, m : MadeOn(e, m)' => MadeOn(e, m) \/ (e = d /\ m = n)
  <2> SUFFICES ASSUME NEW e, NEW m, m \in 1 .. Len(made'), made'[m] = e
               PROVE  MadeOn(e, m) \/ (e = d /\ m = n)
    BY DEF MadeOn
  <2>1. m = n \/ m \in 1 .. Len(made)
    BY <1>3
  <2> QED
    BY <1>3, <2>1 DEF MadeOn
<1>6. \A m, s : Suits(m, s) => Suits(m, s)'
  BY <1>1, <1>4 DEF Suits
<1>7. /\ On(board)' /\ On(notices)' /\ board'[d] = Copied(n)
      /\ notices'[d] = Append(notices[d], [copy |-> n, formats |-> fs])
      /\ \A e \in Devices \ {d} : board'[e] = board[e] /\ notices'[e] = notices[e]
  BY <1>2 DEF Copy, Functions, On
<1>8. ASSUME NEW e \in Devices PROVE Boards(e)'
  <2>1. Machine(e)
    BY MachineIs
  <2>2. CASE e = d
    <3>1. Copied(n).type = "copy" /\ Copied(n).copy = n
      BY DEF Copied
    <3>2. MadeOn(d, n)' /\ \A m \in 1 .. Len(made') : m <= n
      BY <1>3 DEF MadeOn
    <3> QED
      BY <1>7, <2>2, <3>1, <3>2 DEF Boards, HoldsCopy, HoldsOffer
  <2>3. CASE e # d
    <3>1. HoldsCopy(e) => /\ MadeOn(e, board[e].copy)
                          /\ \A m \in 1 .. Len(made) : made[m] = e => m <= board[e].copy
      BY <2>1 DEF Machine, Boards
    <3>2. ASSUME NEW m \in 1 .. Len(made'), made'[m] = e
          PROVE  m \in 1 .. Len(made) /\ made[m] = e
      BY <1>5, <2>3, <3>2 DEF MadeOn
    <3>3. HoldsCopy(e)' => /\ board'[e] = board[e] /\ board[e].copy \in 1 .. Len(made')
                           /\ made'[board[e].copy] = e
      BY <1>3, <1>7, <2>3, <3>1 DEF HoldsCopy, MadeOn
    <3>4. HoldsOffer(e)' => board'[e].seq \in Named'
      BY <1>1, <1>7, <2>1, <2>3 DEF Machine, Boards, HoldsOffer, Named
    <3> QED
      BY <1>7, <2>3, <3>1, <3>2, <3>3, <3>4 DEF Boards, HoldsCopy, MadeOn
  <2> QED
    BY <2>2, <2>3
<1>9. ASSUME NEW e \in Devices PROVE Noticed(e)'
  <2>1. Noticed(e)
    BY MachineIs DEF Machine
  <2>2. CASE e = d
    <3> PICK new : new = [copy |-> n, formats |-> fs]
      OBVIOUS
    <3> PICK q : q = notices[d]
      OBVIOUS
    <3>1. new.copy = n /\ notices'[d] = Append(q, new) /\ IsSeq(q)
      BY <1>7, <2>1, <2>2 DEF Noticed
    <3>2. /\ q \in Seq(Elems(q) \cup {new}) /\ Len(q) \in Nat /\ DOMAIN q = 1 .. Len(q)
      <4>1. q \in Seq(Elems(q))
        BY <3>1 DEF IsSeq
      <4>2. q \in Seq(Elems(q) \cup {new})
        BY <4>1, SeqMonotonic
      <4> QED
        BY <3>1, <4>2, SeqIs
    <3>3. /\ Append(q, new) \in Seq(Elems(q) \cup {new})
          /\ Len(Append(q, new)) = Len(q) + 1
          /\ \A i \in 1 .. Len(q) : Append(q, new)[i] = q[i]
          /\ Append(q, new)[Len(q) + 1] = new
      BY <3>2, AppendProperties
    <3>4. IsSeq(Append(q, new)) /\ DOMAIN Append(q, new) = 1 .. Len(q) + 1
      BY <3>2, <3>3, IsOne, LenProperties
    <3>5. \A i \in DOMAIN Append(q, new) :
            \/ i \in DOMAIN q /\ Append(q, new)[i] = q[i]
            \/ i = Len(q) + 1 /\ i \notin DOMAIN q /\ Append(q, new)[i] = new
      BY <3>2, <3>3, <3>4
    <3>6. MadeOn(d, n)' /\ \A s \in Named : n \notin named[s]
      BY <1>2, <1>3, <1>4 DEF Copying, MadeOn
    <3>7. ASSUME NEW i \in DOMAIN q
          PROVE  /\ MadeOn(d, q[i].copy) /\ \A s \in Named : q[i].copy \notin named[s]
                 /\ \A j \in DOMAIN q : i # j => q[i].copy # q[j].copy
      BY <2>1, <2>2 DEF Noticed
    <3>8. ASSUME NEW i \in DOMAIN notices'[d], NEW x, x = notices'[d][i].copy
          PROVE  MadeOn(d, x)' /\ \A s \in Named : x \notin named[s]
      <4>1. CASE i \in DOMAIN q /\ notices'[d][i] = q[i]
        <5>1. MadeOn(d, x) /\ \A s \in Named : x \notin named[s]
          BY <3>7, <3>8, <4>1
        <5> QED
          BY <1>4, <5>1
      <4>2. CASE notices'[d][i] = new
        BY <3>1, <3>6, <3>8, <4>2
      <4> QED
        BY <3>1, <3>5, <4>1, <4>2
    <3>9. ASSUME NEW i \in DOMAIN notices'[d], NEW j \in DOMAIN notices'[d], i # j
          PROVE  notices'[d][i].copy # notices'[d][j].copy
      <4>1. \A h \in DOMAIN q : q[h].copy # n
        BY <1>4, <3>7
      <4> QED
        BY <3>1, <3>5, <3>7, <3>9, <4>1
    <3> QED
      BY <1>1, <2>2, <3>1, <3>4, <3>8, <3>9, ZenonT(30) DEF Noticed, MadeOn, Named
  <2>3. CASE e # d
    BY <1>1, <1>3, <1>7, <2>1, <2>3 DEF Noticed, MadeOn, Named
  <2> QED
    BY <2>2, <2>3
<1>10. ASSUME NEW e \in Devices PROVE Machine(e)'
  <2>1. Machine(e)
    BY MachineIs
  <2>2. ReadsRight(e)'
    <3> SUFFICES ASSUME NEW r \in reads[e] PROVE ReadRight(e, r)'
      BY <1>1 DEF ReadsRight
    <3>1. ReadRight(e, r)
      BY <2>1 DEF Machine, ReadsRight
    <3> QED
      BY <1>1, <1>6, <3>1 DEF ReadRight, LocalSeqs, Once, Named
  <2> QED
    BY <1>1, <1>8, <1>9, <2>1, <2>2 DEF Machine, Here, InPieces, Current, Pastes,
       LocalSeqs, RemoteSeqs, Named
<1>11. Copying'
  <2>1. Len(made') <= Len(Sizes) /\ made' \in Seq(Devices)
    BY <1>3
  <2>2. \A s \in Named : named[s] # {} /\ \A m \in named[s] : MadeOn(s.device, m)'
    BY <1>2, <1>4 DEF Copying
  <2> QED
    BY <1>1, <2>1, <2>2 DEF Copying, Named, MadeOn
<1>12. Functions' /\ Asking' /\ Queues' /\ Mail' = Mail
  BY <1>1, <1>2, <1>7 DEF Desk, Functions, On, OnClients, Asking, Queues, Mail, Named
<1>13. Carried' = Carried
  BY <1>1, <1>12 DEF Carried, CarriedAt, Chunks
<1>14. Unread' /\ OneCopy' /\ Right' /\ \A o \in Mail' : Carries(o)'
  <2>1. Unread'
    BY <1>1, <1>13 DEF Desk, Unread, Once, LocalSeqs
  <2>2. OneCopy'
    <3> SUFFICES ASSUME NEW k \in Carried, Once(k.seq)
                 PROVE  \E m \in Copies : Suits(m, k.seq)' /\ Holds(k, m)'
      BY <1>1, <1>13 DEF OneCopy, Once
    <3>1. PICK m \in Copies : Suits(m, k.seq) /\ Holds(k, m)
      BY DEF Desk, OneCopy
    <3>2. Holds(k, m)'
      BY <1>1, <1>12, <3>1 DEF Holds, HoldsAt
    <3> QED
      BY <1>6, <3>1, <3>2
  <2>3. Right'
    <3> SUFFICES ASSUME NEW t \in DOMAIN answers, answers[t] # None,
                        NEW s, s = asked[t].seq, Once(s)
                 PROVE  \E m \in Copies : answers[t] = Contents(m) /\ Suits(m, s)'
      BY <1>1, SMTT(30) DEF Right, Once, Suits, MadeOn
    <3> QED
      BY <1>6 DEF Desk, Right
  <2>4. \A o \in Mail' : Carries(o)'
    BY <1>1, <1>12 DEF Desk, Carries, Named
  <2> QED
    BY <2>1, <2>2, <2>3, <2>4
<1> QED
  BY <1>10, <1>11, <1>12, <1>14 DEF Desk

\* A paste is of what an offer on the clipboard is called.
LEMMA PasteKeeps == ASSUME Desk, IInv', NEW d \in Devices, NEW f, Paste(d, f) PROVE Desk'
<1>1. UNCHANGED <<peers, counter, local, remote, cache, reading, fetching, waiting,
                  board, notices, reads, answers, up, downward, made, named>>
  BY DEF Paste, exchangeVars, linkVars, deskVars
<1>2. Functions /\ Machine(d) /\ Asking /\ HoldsOffer(d)
  BY MachineIs DEF Desk, Paste
<1> PICK s : s = board[d].seq
  OBVIOUS
<1> PICK n : n = Len(asked')
  OBVIOUS
<1>3. s \in Named
  BY <1>2 DEF Machine, Boards
<1>4. /\ IsSeq(asked') /\ DOMAIN asked' = DOMAIN asked \cup {n}
      /\ n \notin DOMAIN asked /\ asked'[n].seq = s
      /\ \A t \in DOMAIN asked : asked'[t] = asked[t]
  <2> PICK new : new = [at |-> d, seq |-> s]
    OBVIOUS
  <2>1. asked' = Append(asked, new) /\ new.seq = s /\ IsSeq(asked)
    BY <1>2 DEF Paste, Asking
  <2>2. /\ asked \in Seq(Elems(asked) \cup {new}) /\ Len(asked) \in Nat
        /\ DOMAIN asked = 1 .. Len(asked)
    <3>1. asked \in Seq(Elems(asked))
      BY <2>1 DEF IsSeq
    <3>2. asked \in Seq(Elems(asked) \cup {new})
      BY <3>1, SeqMonotonic
    <3> QED
      BY <2>1, <3>2, SeqIs
  <2>3. /\ Append(asked, new) \in Seq(Elems(asked) \cup {new})
        /\ Len(Append(asked, new)) = Len(asked) + 1
        /\ \A i \in 1 .. Len(asked) : Append(asked, new)[i] = asked[i]
        /\ Append(asked, new)[Len(asked) + 1] = new
    BY <2>2, AppendProperties
  <2>4. /\ IsSeq(Append(asked, new))
        /\ DOMAIN Append(asked, new) = 1 .. Len(asked) + 1
    BY <2>2, <2>3, IsOne, LenProperties
  <2> QED
    BY <2>1, <2>2, <2>3, <2>4
<1>5. /\ On(pasting)' /\ \A e \in Devices \ {d} : pasting'[e] = pasting[e]
      /\ pasting'[d] = pasting[d] \cup {[ticket |-> n, key |-> [seq |-> s, format |-> f]]}
  BY <1>2 DEF Functions, On, Paste
<1>6. ASSUME NEW e \in Devices PROVE Machine(e)'
  <2>1. Machine(e)
    BY MachineIs
  <2>2. Here(e)'
    BY <1>1, <1>4, <2>1 DEF Machine, Here, LocalSeqs, RemoteSeqs
  <2>3. Pastes(e)'
    <3>1. \A p \in pasting[e] : p.ticket \in DOMAIN asked' /\ p.key.seq = asked'[p.ticket].seq
      BY <1>4, <2>1 DEF Machine, Pastes
    <3> PICK new : new = [ticket |-> n, key |-> [seq |-> s, format |-> f]]
      OBVIOUS
    <3>2. new.ticket = n /\ new.key.seq = s /\ pasting'[e] \subseteq pasting[e] \cup {new}
      BY <1>5
    <3> QED
      BY <1>4, <3>1, <3>2 DEF Pastes
  <2>4. ReadsRight(e)'
    <3> SUFFICES ASSUME NEW r \in reads[e] PROVE ReadRight(e, r)'
      BY <1>1 DEF ReadsRight
    <3>1. ReadRight(e, r)
      BY <2>1 DEF Machine, ReadsRight
    <3> QED
      BY <1>1, <3>1 DEF ReadRight, LocalSeqs, Once, Named, Suits, MadeOn
  <2> QED
    BY <1>1, <2>1, <2>2, <2>3, <2>4 DEF Machine, InPieces, Current, Boards, Noticed,
       LocalSeqs, RemoteSeqs, HoldsCopy, HoldsOffer, MadeOn, Named
<1>7. Functions' /\ Copying' /\ Queues' /\ Mail' = Mail
  BY <1>1, <1>2, <1>5 DEF Desk, Functions, On, OnClients, Copying, Queues, Mail, MadeOn,
     Named
<1>8. Asking'
  BY <1>1, <1>2, <1>3, <1>4 DEF Asking, Named
<1>9. Carried' = Carried
  BY <1>1, <1>7 DEF Carried, CarriedAt, Chunks
<1>10. Unread' /\ OneCopy' /\ Right' /\ \A o \in Mail' : Carries(o)'
  <2>1. Unread'
    BY <1>1, <1>9 DEF Desk, Unread, Once, LocalSeqs
  <2>2. OneCopy'
    BY <1>1, <1>7, <1>9 DEF Desk, OneCopy, Once, Suits, MadeOn, Holds, HoldsAt
  <2>3. Right'
    <3> SUFFICES ASSUME NEW t \in DOMAIN answers, answers[t] # None, Once(asked'[t].seq)
                 PROVE  \E m \in Copies : answers[t] = Contents(m) /\ Suits(m, asked'[t].seq)
      BY <1>1 DEF Right, Once, Suits, MadeOn
    <3> PICK r : r = asked'[t].seq
      OBVIOUS
    <3>1. asked'[t] = asked[t]
      BY <1>2, <1>4 DEF Asking
    <3>2. r = asked[t].seq
      BY <3>1
    <3> QED
      BY <3>2 DEF Desk, Right
  <2>4. \A o \in Mail' : Carries(o)'
    BY <1>1, <1>7 DEF Desk, Carries, Named
  <2> QED
    BY <2>1, <2>2, <2>3, <2>4
<1> QED
  BY <1>6, <1>7, <1>8, <1>10 DEF Desk

-----------------------------------------------------------------------------
(* The theorem.                                                            *)

\* It holds when nobody is connected and nothing has been copied,
LEMMA DeskStarts == ASSUME Init PROVE Desk
<1>1. NoExchange /\ IInv
  BY StartsSound DEF Init
<1>2. /\ IsFiniteSet({}) /\ IsSeq(<<>>) /\ Elems(<<>>) = {}
  BY FS_EmptySet, FewIs
<1>3. Functions
  BY <1>1 DEF NoExchange, Init, Functions, On, OnClients
<1>4. Named = {} /\ Copying
  <2>1. made = <<>> /\ named = <<>>
    BY DEF Init
  <2>2. Len(<<>>) = 0 /\ <<>> \in Seq(Devices) /\ DOMAIN <<>> = {}
    OBVIOUS
  <2>3. Len(Sizes) \in Nat
    BY SizesAssumption, LenProperties
  <2> QED
    BY <2>1, <2>2, <2>3 DEF Named, Copying
<1>5. Asking /\ Right
  BY <1>2 DEF Init, Asking, Right
<1>6. Queues /\ Mail = {}
  BY <1>2 DEF Init, Queues, Mail
<1>7. ASSUME NEW d \in Devices PROVE Machine(d) /\ CarriedAt(d) = {}
  <2>1. /\ peers[d] = {} /\ counter[d] = 0 /\ local[d] = {} /\ remote[d] = {}
        /\ cache[d] = <<>> /\ reading[d] = {} /\ fetching[d] = <<>>
        /\ waiting[d] = {} /\ board[d] = None /\ notices[d] = <<>>
        /\ reads[d] = {} /\ pasting[d] = {}
    BY <1>1 DEF NoExchange, Init
  <2>2. LocalSeqs(d) = {} /\ RemoteSeqs(d) = {} /\ Current(d) = {}
    BY <2>1 DEF LocalSeqs, RemoteSeqs, Current
  <2>3. DOMAIN <<>> = {}
    OBVIOUS
  <2>4. Here(d) /\ InPieces(d) /\ CarriedAt(d) = {}
    BY <1>2, <2>1, <2>2, <2>3 DEF Here, InPieces, CarriedAt
  <2>5. Boards(d) /\ Noticed(d) /\ ReadsRight(d) /\ Pastes(d)
    BY <1>2, <2>1, <2>3 DEF Boards, HoldsCopy, HoldsOffer, Noticed, ReadsRight, Pastes
  <2> QED
    BY <2>2, <2>4, <2>5 DEF Machine
<1>8. Carried = {}
  BY <1>6, <1>7 DEF Carried, Chunks
<1> QED
  BY <1>1, <1>3, <1>4, <1>5, <1>6, <1>7, <1>8 DEF Desk, Unread, OneCopy

\* while nothing happens,
LEMMA DeskStays == ASSUME Desk, UNCHANGED vars PROVE Desk'
<1>1. UNCHANGED <<peers, counter, local, remote, cache, reading, fetching, waiting,
                  board, notices, reads, pasting, asked, answers, up, downward,
                  made, named>>
  BY DEF vars, exchangeVars, boardVars, linkVars, deskVars
<1>2. IInv'
  BY <1>1, Untouched DEF Desk
<1>3. ASSUME NEW e \in Devices PROVE Machine(e)'
  <2>1. Machine(e)
    BY MachineIs
  <2>2. Here(e)' /\ InPieces(e)'
    BY <1>1, <2>1 DEF Machine, Here, InPieces, LocalSeqs, RemoteSeqs
  <2>3. ReadsRight(e)'
    BY <1>1, <2>1 DEF Machine, ReadsRight, ReadRight, LocalSeqs, Once, Suits, MadeOn, Named
  <2> QED
    BY <1>1, <2>1, <2>2, <2>3 DEF Machine, Current, Boards, Noticed, Pastes,
       LocalSeqs, RemoteSeqs, HoldsCopy, HoldsOffer, MadeOn, Named
<1>4. Functions' /\ Copying' /\ Asking' /\ Queues' /\ Mail' = Mail
  BY <1>1 DEF Desk, Functions, On, OnClients, Copying, Asking, Queues, Mail, MadeOn, Named
<1>5. Carried' = Carried
  BY <1>1, <1>4 DEF Carried, CarriedAt, Chunks
<1>6. Unread' /\ OneCopy' /\ Right' /\ \A o \in Mail' : Carries(o)'
  <2>1. Unread'
    BY <1>1, <1>5 DEF Desk, Unread, Once, LocalSeqs
  <2>2. OneCopy'
    BY <1>1, <1>4, <1>5 DEF Desk, OneCopy, Once, Suits, MadeOn, Holds, HoldsAt
  <2>3. Right'
    BY <1>1 DEF Desk, Right, Once, Suits, MadeOn
  <2>4. \A o \in Mail' : Carries(o)'
    BY <1>1, <1>4 DEF Desk, Carries, Named
  <2> QED
    BY <2>1, <2>2, <2>3, <2>4
<1> QED
  BY <1>2, <1>3, <1>4, <1>6 DEF Desk

\* and after every step.
LEMMA DeskKept == ASSUME Desk, [Next]_vars PROVE Desk'
<1>1. IInv'
  BY StepImplements, StepSound DEF Desk
<1>2. ASSUME NEW d \in Devices, Own(d) PROVE Desk'
  <2>1. ASSUME NEW soon \in BOOLEAN, Notice(d, soon) PROVE Desk'
    BY <1>1, <2>1, NoticeKeeps
  <2> QED
    BY <1>1, <1>2, <2>1, WantKeeps, ReadKeeps, ReadEndsKeeps DEF Own
<1>3. ASSUME NEW c \in Clients, TakeIn(c) \/ HubHears(c) \/ ClientHears(c) \/ Connect(c)
                                \/ Cut(c) \/ Restart(c)
      PROVE  Desk'
  BY <1>1, <1>3, TakeInKeeps, HubHearsKeeps, ClientHearsKeeps, ConnectKeeps, CutKeeps,
     RestartKeeps
<1>4. ASSUME NEW c \in Clients, HubLoses(c) \/ ClientLoses(c) PROVE Desk'
  <2>1. c \in Devices /\ Hub \in Devices
    BY HubAssumption DEF Clients
  <2>2. CASE HubLoses(c)
    BY <1>1, <2>1, <2>2, LosesKeeps DEF HubLoses
  <2>3. CASE ClientLoses(c)
    BY <1>1, <2>1, <2>3, LosesKeeps DEF ClientLoses
  <2> QED
    BY <1>4, <2>2, <2>3
<1>5. ASSUME NEW d \in Devices,
             \/ \E fs \in (SUBSET Formats) \ {{}} : Copy(d, fs)
             \/ \E f \in Formats : Paste(d, f)
      PROVE  Desk'
  BY <1>1, <1>5, CopyKeeps, PasteKeeps
<1>6. ASSUME NEW on, NEW fs, Reconfigure(on, fs) PROVE Desk'
  BY <1>1, <1>6, ReconfigureKeeps
<1>7. CASE Next
  BY <1>2, <1>3, <1>4, <1>5, <1>6, <1>7, HubAssumption DEF Next, Serves, Follows, Clients
<1>8. CASE UNCHANGED vars
  BY <1>8, DeskStays
<1> QED
  BY <1>7, <1>8

\* A name that counts one copy was given to one copy.
LEMMA DeskShows == ASSUME Desk PROVE PastesWhatWasCopied
<1> SUFFICES ASSUME NEW t \in Given, Cardinality(named[asked[t].seq]) = 1
             PROVE  \E n \in Copies : \E m \in named[asked[t].seq] :
                      answers[t] = Contents(n) /\ n >= m /\ made[n] = asked[t].seq.device
  BY DEF PastesWhatWasCopied
<1> PICK s : s = asked[t].seq
  OBVIOUS
<1>1. t \in DOMAIN answers /\ answers[t] # None /\ s \in Named /\ Cardinality(named[s]) = 1
  BY DEF Given, Desk, Asking
<1>2. named[s] \in SUBSET (1 .. Len(made)) /\ Len(made) \in Nat
  BY <1>1, LenProperties DEF Desk, Copying, MadeOn
<1>3. IsFiniteSet(named[s])
  <2> PICK k \in Nat : k = Len(made)
    BY <1>2
  <2>1. IsFiniteSet(1 .. k)
    BY FS_Interval
  <2> QED
    BY <1>2, <2>1, FS_Subset
<1>4. PICK m : named[s] = {m}
  BY <1>1, <1>3, FS_Singleton
<1>5. Once(s) /\ m \in Nat
  BY <1>2, <1>4 DEF Once
<1>6. PICK n \in Copies : answers[t] = Contents(n) /\ Suits(n, s)
  BY <1>1, <1>5 DEF Desk, Right
<1>7. n \in Nat /\ m <= n /\ made[n] = s.device /\ m \in named[s]
  BY <1>4, <1>6 DEF Suits, MadeOn
<1> QED
  BY <1>5, <1>6, <1>7

\* Whatever is copied, pasted, cut, restarted or configured, on however many
\* machines, what a paste is given is the whole of one copy: the one announced
\* under its name or a later one of the same machine.
THEOREM PastesAlwaysWhatWasCopied == Spec => []PastesWhatWasCopied
BY DeskStarts, DeskKept, DeskShows, PTL DEF Spec

-----------------------------------------------------------------------------
(* A copy made in peace.                                                   *)

\* What is offered in a queue.
Offers(q) == {o \in Elems(q) : o.type = "Offer"}

Unsaid == \A c \in Clients : Offers(up[c]) = {} /\ Offers(downward[c]) = {}

\* As long as nothing failed, every machine shares everything, and who has a
\* link is known at both its ends.
Shares(d) == enabled[d] = TRUE /\ allowed[d] = Formats
Ordinary == \A d \in Devices : Shares(d)
Joined == \A c \in Clients : /\ link[c] = "cut" <=> Hub \notin peers[c]
                             /\ link[c] = "open" <=> c \in peers[Hub]
AllIn == \A c \in Clients : link[c] = "open"

\* Nothing was copied yet, and nothing is offered;
NothingYet ==
  /\ made = <<>> /\ Unsaid
  /\ \A d \in Devices : local[d] = {} /\ remote[d] = {} /\ notices[d] = <<>>

\* or a copy was made on machine d, which is yet to notice it, and everything
\* that was said of earlier ones has been heard;
Offerable(fs) == fs # {} /\ fs \subseteq Formats

Announcing(d) ==
  /\ Unsaid
  /\ \E x : notices[d] = <<x>> /\ Offerable(x.formats)
  /\ \A e \in Devices \ {d} : notices[e] = <<>>

\* or d offers it: every offer on its way is this one, comes from d or from the
\* hub and not back, and whoever does not hold it has it coming, or the hub has.
Names(o, s) == o.seq = s /\ Offerable(o.formats)

ToHub(d) == d # Hub /\ Offers(up[d]) # {}
Reaches(d, s, c) == RemoteSeqs(c) = {s} \/ Offers(downward[c]) # {} \/ ToHub(d)

Spreading(d, s) ==
  /\ \A e \in Devices : notices[e] = <<>>
  /\ LocalSeqs(d) = {s}
  /\ \A c \in Clients : \A o \in Offers(up[c]) : c = d /\ Names(o, s)
  /\ \A c \in Clients : \A o \in Offers(downward[c]) : c # d /\ Names(o, s)
  /\ d # Hub => RemoteSeqs(Hub) = {s} \/ ToHub(d)
  /\ \A c \in Clients \ {d} : Reaches(d, s, c)

Latest == made[Len(made)]

Underway == made # <<>> /\ AllIn
            /\ (Announcing(Latest) \/ \E s : Spreading(Latest, s))

AtPeace == Ordinary /\ Joined /\ (NothingYet \/ Underway)
Peace == calm \in BOOLEAN /\ (calm = TRUE => AtPeace)

-----------------------------------------------------------------------------
(* What is in a queue, to the last element.                                *)

\* The elements of a finite set of numbers have ranks of their own.
LEMMA RanksApart ==
  ASSUME NEW S \in SUBSET Nat, IsFiniteSet(S), NEW a \in S, NEW b \in S,
         Cardinality({h \in S : h <= a}) = Cardinality({h \in S : h <= b})
  PROVE  a = b
<1>1. ASSUME NEW x \in S, NEW y \in S, x < y
      PROVE  Cardinality({h \in S : h <= x}) # Cardinality({h \in S : h <= y})
  <2>1. {h \in S : h <= x} \in SUBSET {h \in S : h <= y}
    <3>1. x \in Nat /\ y \in Nat /\ \A h \in S : h \in Nat
      OBVIOUS
    <3>2. \A h \in S : h <= x => h <= y
      BY <1>1, <3>1
    <3> QED
      BY <3>2
  <2>2. y \in {h \in S : h <= y} /\ y \notin {h \in S : h <= x}
    BY <1>1
  <2>3. {h \in S : h <= y} \in SUBSET S
    OBVIOUS
  <2>4. IsFiniteSet({h \in S : h <= y})
    BY <2>3, FS_Subset
  <2> QED
    BY <2>1, <2>2, <2>4, FS_Subset
<1>2. a \in Nat /\ b \in Nat
  OBVIOUS
<1>3. CASE a < b
  BY <1>1, <1>3
<1>4. CASE b < a
  BY <1>1, <1>4
<1> QED
  BY <1>2, <1>3, <1>4

\* The rank of one of them.
LEMMA RankIs ==
  ASSUME NEW S \in SUBSET Nat, IsFiniteSet(S), NEW i \in S
  PROVE  Cardinality({h \in S : h <= i}) \in 1 .. Cardinality(S)
<1>1. {h \in S : h <= i} \in SUBSET S
  OBVIOUS
<1>2. /\ IsFiniteSet({h \in S : h <= i})
      /\ Cardinality({h \in S : h <= i}) <= Cardinality(S)
  BY <1>1, FS_Subset
<1>3. i \in {h \in S : h <= i}
  OBVIOUS
<1>4. Cardinality({h \in S : h <= i}) \in Nat /\ Cardinality({h \in S : h <= i}) # 0
  BY <1>2, <1>3, FS_CardinalityType, FS_EmptySet
<1>5. Cardinality(S) \in Nat
  BY FS_CardinalityType
<1> QED
  BY <1>2, <1>4, <1>5

\* All that a step said to a machine is sent to it.
LEMMA AllSent ==
  ASSUME IsSeq(out'), NEW o \in Elems(out')
  PROVE  o \in Elems(Sent(o.to))
<1> PICK p : p = o.to
  OBVIOUS
<1> DEFINE to == {i \in DOMAIN out' : out'[i].to = p}
           At(j) == CHOOSE i \in to : Cardinality({h \in to : h <= i}) = j
           n == Cardinality(to)
<1>1. DOMAIN out' = 1 .. Len(out') /\ Len(out') \in Nat
  BY SeqIs
<1>2. to \in SUBSET Nat /\ to \in SUBSET (1 .. Len(out'))
  BY <1>1
<1>3. IsFiniteSet(to)
  <2>1. IsFiniteSet(1 .. Len(out'))
    BY <1>1, FS_Interval
  <2> HIDE DEF to
  <2> QED
    BY <1>2, <2>1, FS_Subset
<1>4. PICK i \in to : out'[i] = o
  BY DEF Elems
<1> DEFINE j == Cardinality({h \in to : h <= i})
<1>5. j \in 1 .. n
  <2> HIDE DEF to
  <2> QED
    BY <1>2, <1>3, RankIs
<1>6. At(j) = i
  <2>0. i \in to
    OBVIOUS
  <2> HIDE DEF to
  <2>1. \A a \in to : Cardinality({h \in to : h <= a}) = j => a = i
    <3> SUFFICES ASSUME NEW a \in to,
                        Cardinality({h \in to : h <= a}) = Cardinality({h \in to : h <= i})
                 PROVE  a = i
      OBVIOUS
    <3> QED
      BY <1>2, <1>3, <2>0, RanksApart
  <2>2. At(j) \in to /\ Cardinality({h \in to : h <= At(j)}) = j
    BY <2>0
  <2> QED
    BY <2>1, <2>2
<1>7. Sent(p) = [k \in 1 .. n |-> out'[At(k)]]
  BY DEF Sent
<1>8. Sent(p)[j] = o /\ j \in DOMAIN Sent(p)
  <2> HIDE DEF j, At, n, to
  <2> QED
    BY <1>4, <1>5, <1>6, <1>7
<1>9. Sent(p)[j] \in Elems(Sent(p))
  <2> HIDE DEF j
  <2> QED
    BY <1>8 DEF Elems
<1> QED
  BY <1>8, <1>9

\* All of a finite set is in the list made of it.
LEMMA AllListed ==
  ASSUME NEW S, IsFiniteSet(S), NEW x \in S
  PROVE  x \in Elems(SetToSeq(S))
<1>1. Cardinality(S) \in Nat /\ Bijection(1 .. Cardinality(S), S) # {}
  BY FS_CardinalityType DEF ExistsBijection
<1>2. PICK f \in Bijection(1 .. Cardinality(S), S) : TRUE
  BY <1>1
<1>3. f \in [1 .. Cardinality(S) -> S] /\ IsInjective(f)
  BY <1>2 DEF Bijection, Injection
<1>4. SetToSeq(S) \in [1 .. Cardinality(S) -> S] /\ IsInjective(SetToSeq(S))
  BY <1>3 DEF SetToSeq
<1>5. IsFiniteSet(1 .. Cardinality(S)) /\ Cardinality(1 .. Cardinality(S)) = Cardinality(S)
  BY <1>1, FS_Interval
<1>6. SetToSeq(S) \in Injection(1 .. Cardinality(S), S)
  BY <1>4 DEF Injection
<1>7. SetToSeq(S) \in Surjection(1 .. Cardinality(S), S)
  BY <1>5, <1>6, FS_Injection
<1> QED
  BY <1>4, <1>7 DEF Surjection, Elems

\* Both parts of two queues joined.
LEMMA JoinedHas ==
  ASSUME NEW q, NEW r, IsSeq(q), IsSeq(r)
  PROVE  Elems(q \o r) = Elems(q) \cup Elems(r)
<1>1. q \in Seq(Elems(q) \cup Elems(r)) /\ r \in Seq(Elems(q) \cup Elems(r))
  BY SeqMonotonic DEF IsSeq
<1>2. Elems(q \o r) \subseteq Elems(q) \cup Elems(r)
  BY JoinedIs
<1>3. /\ DOMAIN q = 1 .. Len(q) /\ DOMAIN r = 1 .. Len(r) /\ Len(q) \in Nat /\ Len(r) \in Nat
      /\ DOMAIN (q \o r) = 1 .. Len(q) + Len(r)
      /\ \A i \in 1 .. Len(q) + Len(r) :
           (q \o r)[i] = IF i <= Len(q) THEN q[i] ELSE r[i - Len(q)]
  BY <1>1, ConcatProperties, LenProperties, SeqIs
<1>4. ASSUME NEW i \in DOMAIN q PROVE q[i] \in Elems(q \o r)
  <2>1. i \in 1 .. Len(q) + Len(r) /\ i <= Len(q)
    BY <1>3
  <2>2. (q \o r)[i] = q[i]
    BY <1>3, <2>1
  <2> QED
    BY <1>3, <2>1, <2>2 DEF Elems
<1>5. ASSUME NEW i \in DOMAIN r PROVE r[i] \in Elems(q \o r)
  <2>1. i + Len(q) \in 1 .. Len(q) + Len(r) /\ ~(i + Len(q) <= Len(q)) /\ i + Len(q) - Len(q) = i
    BY <1>3
  <2>2. (q \o r)[i + Len(q)] = r[i]
    BY <1>3, <2>1
  <2> QED
    BY <1>3, <2>1, <2>2 DEF Elems
<1> QED
  BY <1>2, <1>4, <1>5 DEF Elems

\* A queue is its head and what comes behind it.
LEMMA HeadAndTail ==
  ASSUME NEW q, IsSeq(q), q # <<>>
  PROVE  Elems(q) = {Head(q)} \cup Elems(Tail(q))
<1>1. Elems(Tail(q)) \subseteq Elems(q) /\ Head(q) \in Elems(q) /\ IsSeq(Tail(q))
  BY TailIs
<1>2. /\ DOMAIN q = 1 .. Len(q) /\ Len(q) \in Nat /\ DOMAIN Tail(q) = 1 .. Len(Tail(q))
      /\ Len(Tail(q)) = Len(q) - 1 /\ Head(q) = q[1]
      /\ \A i \in 1 .. Len(Tail(q)) : Tail(q)[i] = q[i + 1]
  BY <1>1, SeqIs, HeadTailProperties DEF IsSeq
<1>3. ASSUME NEW i \in DOMAIN q, i # 1 PROVE q[i] \in Elems(Tail(q))
  <2>1. i - 1 \in 1 .. Len(Tail(q)) /\ (i - 1) + 1 = i
    BY <1>2, <1>3
  <2>2. Tail(q)[i - 1] = q[i]
    BY <1>2, <2>1
  <2> QED
    BY <1>2, <2>1, <2>2 DEF Elems
<1> QED
  BY <1>1, <1>2, <1>3 DEF Elems

\* Of what is offered, what is for p.
BoundFor(os, p) == {o \in os : o.to = p}

\* What is offered in two queues joined, and in what is sent to a machine.
LEMMA OffersJoined ==
  ASSUME NEW q, NEW r, IsSeq(q), IsSeq(r)
  PROVE  IsSeq(q \o r) /\ Offers(q \o r) = Offers(q) \cup Offers(r)
BY JoinedHas, JoinedIs DEF Offers

LEMMA OffersSent ==
  ASSUME IsSeq(out'), NEW p
  PROVE  IsSeq(Sent(p)) /\ Offers(Sent(p)) = BoundFor(Offers(out'), p)
BY SentIs, AllSent DEF Offers, BoundFor

-----------------------------------------------------------------------------
(* What the steps of an exchange offer.                                    *)

Mute == IsSeq(out') /\ Offers(out') = {}

\* Nothing said, or one thing that is no offer.
LEMMA NothingIsMute == ASSUME out' = <<>> PROVE Mute
BY FewIs DEF Mute, Offers

LEMMA OneIsMute == ASSUME NEW x, out' = <<x>>, x.type # "Offer" PROVE Mute
BY FewIs DEF Mute, Offers

\* Answers and refusals are no offers,
LEMMA FailedIsMute ==
  ASSUME NEW d \in Devices, Here(d), NEW ws \in SUBSET waiting[d]
  PROVE  IsSeq(Failed(d, ws)) /\ Offers(Failed(d, ws)) = {}
<1> DEFINE f == [w \in ws |-> IF w.who = d THEN Answered(d, w.at, None)
                                           ELSE Refuse(w.who, w.key)]
<1>1. IsFiniteSet({f[w] : w \in ws})
  <2>1. IsFiniteSet(ws)
    BY FS_Subset DEF Here
  <2>2. DOMAIN f = ws
    OBVIOUS
  <2> HIDE DEF f
  <2> QED
    BY <2>1, <2>2, ImageFinite
<1>2. Failed(d, ws) = SetToSeq({f[w] : w \in ws})
  BY DEF Failed
<1>3. \A o \in {f[w] : w \in ws} : o.type # "Offer"
  BY DEF Answered, Refuse
<1> HIDE DEF f
<1> QED
  BY <1>1, <1>2, <1>3, ListedIs DEF Offers

\* nor is what is served.
LEMMA ServedIsMute ==
  ASSUME NEW d \in Devices, Here(d), NEW k, NEW data
  PROVE  /\ IsSeq(Served(d, WaitingOn(d, k), data))
         /\ Offers(Served(d, WaitingOn(d, k), data)) = {}
<1> DEFINE ws == WaitingOn(d, k)
           f == [w \in ws |-> IF w.who = d THEN Answered(d, w.at, data)
                                           ELSE Chunk(w.who, w.key, data, w.at)]
<1>1. IsFiniteSet({f[w] : w \in ws})
  <2>1. IsFiniteSet(ws)
    BY FS_Subset DEF Here, WaitingOn
  <2>2. DOMAIN f = ws
    OBVIOUS
  <2> HIDE DEF f, ws
  <2> QED
    BY <2>1, <2>2, ImageFinite
<1>2. Served(d, ws, data) = SetToSeq({f[w] : w \in ws})
  BY DEF Served
<1>3. ASSUME NEW w \in ws PROVE f[w].type # "Offer"
  <2>1. Answered(d, w.at, data).type = "Deliver"
    BY DEF Answered
  <2>2. Chunk(w.who, w.key, data, w.at).type = "Chunk"
    BY DEF Chunk
  <2> QED
    BY <2>1, <2>2
<1> HIDE DEF f
<1> QED
  BY <1>1, <1>2, <1>3, ListedIs DEF Offers

LEMMA FailIsMute == ASSUME NEW d \in Devices, Here(d), NEW k, Fail(d, k) PROVE Mute
<1>1. WaitingOn(d, k) \in SUBSET waiting[d]
  BY DEF WaitingOn
<1> QED
  BY <1>1, FailedIsMute DEF Fail, Mute

LEMMA ServeIsMute ==
  ASSUME NEW d \in Devices, Here(d), NEW k, NEW data, Serve(d, k, data) PROVE Mute
BY ServedIsMute DEF Serve, Mute

\* Only an offer that arrives, a copy and a peer that comes make a machine offer.
Keeps == UNCHANGED <<peers, enabled, allowed, local, remote>>

LEMMA FetchIsMute == ASSUME NEW d, NEW k, Fetch(d, k) PROVE Mute
<1>1. CASE out' = <<>>
  BY <1>1, NothingIsMute
<1>2. CASE out' = <<Request(Owner(d), k, 0)>>
  <2>1. Request(Owner(d), k, 0).type # "Offer"
    BY DEF Request
  <2> QED
    BY <1>2, <2>1, OneIsMute
<1> QED
  BY <1>1, <1>2 DEF Fetch

LEMMA RequestIsMute ==
  ASSUME NEW d \in Devices, NEW p, NEW k, NEW n, RequestArrived(d, p, k, n)
  PROVE  Mute /\ Keeps
<1>1. Keeps
  BY DEF RequestArrived, Keeps
<1>2. ASSUME out' = <<Chunk(p, k, cache[d][k], n)>> PROVE Mute
  <2>1. Chunk(p, k, cache[d][k], n).type # "Offer"
    BY DEF Chunk
  <2> QED
    BY <1>2, <2>1, OneIsMute
<1>3. ASSUME out' = IF k \in reading[d] THEN <<>> ELSE <<ReadHere(d, k)>> PROVE Mute
  <2>1. ReadHere(d, k).type # "Offer"
    BY DEF ReadHere
  <2> QED
    BY <1>3, <2>1, OneIsMute, NothingIsMute
<1>4. ASSUME out' = <<Refuse(p, k)>> PROVE Mute
  <2>1. Refuse(p, k).type # "Offer"
    BY DEF Refuse
  <2> QED
    BY <1>4, <2>1, OneIsMute
<1> QED
  BY <1>1, <1>2, <1>3, <1>4, FetchIsMute DEF RequestArrived

LEMMA ChunkIsMute ==
  ASSUME NEW d \in Devices, Here(d), NEW p, NEW k, NEW n, NEW data, NEW last,
         ChunkArrived(d, p, k, n, data, last)
  PROVE  Mute /\ Keeps
<1>1. Keeps
  BY DEF ChunkArrived, Keeps
<1>2. PICK full : full = fetching[d][k].buf \o data
  BY Zenon
<1>3. ASSUME out' = <<Request(p, k, Len(full))>> PROVE Mute
  <2>1. Request(p, k, Len(full)).type # "Offer"
    BY DEF Request
  <2> QED
    BY <1>3, <2>1, OneIsMute
<1>4. out' = <<>> \/ Fail(d, k) \/ Serve(d, k, full) \/ out' = <<Request(p, k, Len(full))>>
  BY <1>2, Zenon DEF ChunkArrived
<1> QED
  BY <1>1, <1>3, <1>4, NothingIsMute, FailIsMute, ServeIsMute

LEMMA UnavailableIsMute ==
  ASSUME NEW d \in Devices, Here(d), NEW p, NEW k, UnavailableArrived(d, p, k)
  PROVE  Mute /\ Keeps
BY NothingIsMute, FailIsMute DEF UnavailableArrived, Keeps

LEMMA WantedIsMute ==
  ASSUME NEW d \in Devices, NEW t, NEW k, Wanted(d, t, k)
  PROVE  Mute /\ Keeps
<1>1. Keeps
  BY DEF Wanted, Keeps
<1>2. ASSUME NEW data, out' = <<Answered(d, t, data)>> PROVE Mute
  <2>1. Answered(d, t, data).type # "Offer"
    BY DEF Answered
  <2> QED
    BY <1>2, <2>1, OneIsMute
<1> QED
  BY <1>1, <1>2, FetchIsMute DEF Wanted

LEMMA ReadDoneIsMute ==
  ASSUME NEW d \in Devices, Here(d), NEW k, NEW data, ReadDone(d, k, data)
  PROVE  Mute /\ Keeps
BY FailIsMute, ServeIsMute DEF ReadDone, Keeps

\* To whom an offer is passed on.
OffersTo(ps, s, fs) == {Offer(x, s, fs) : x \in ps}

LEMMA PassedTo ==
  ASSUME NEW d \in Devices, Here(d), NEW but, NEW s, NEW fs
  PROVE  /\ IsSeq(ToPeers(d, but, s, fs))
         /\ Offers(ToPeers(d, but, s, fs)) = OffersTo(peers[d] \ but, s, fs)
<1> DEFINE ps == peers[d] \ but
           f == [x \in ps |-> Offer(x, s, fs)]
           S == {f[x] : x \in ps}
<1>1. IsFiniteSet(ps)
  BY FS_Difference DEF Here
<1>2. DOMAIN f = ps /\ S = OffersTo(peers[d] \ but, s, fs)
  BY DEF OffersTo
<1>3. IsFiniteSet(S)
  <2> HIDE DEF f, ps
  <2> QED
    BY <1>1, <1>2, ImageFinite
<1>4. ToPeers(d, but, s, fs) = SetToSeq(S)
  BY DEF ToPeers
<1>5. \A o \in S : o.type = "Offer"
  <2>1. \A x \in ps : f[x].type = "Offer"
    BY DEF Offer
  <2> HIDE DEF f, ps
  <2> QED
    BY <2>1
<1> HIDE DEF S, ps, f
<1> QED
  BY <1>2, <1>3, <1>4, <1>5, ListedIs, AllListed DEF Offers

\* What an offer that arrives does, where everything is shared.
Takes(d, p, s, fs) ==
  /\ UNCHANGED <<peers, enabled, allowed>> /\ RemoteSeqs(d)' = {s}
  /\ \A e \in Devices \ {d} : local'[e] = local[e] /\ remote'[e] = remote[e]
  /\ IsSeq(out') /\ Offers(out') = OffersTo(peers[d] \ {p}, s, fs)

LEMMA OfferTaken ==
  ASSUME IInv, NEW d \in Devices, Here(d), NEW p, NEW s, NEW fs,
         OfferArrived(d, p, s, fs), Shares(d), Offerable(fs)
  PROVE  Takes(d, p, s, fs)
<1> DEFINE past == LocalSeqs(d) \cup (RemoteSeqs(d) \ {s})
<1>1. fs \cap allowed[d] = fs /\ fs # {} /\ enabled[d] = TRUE
  BY DEF Offerable, Shares
<1>2. /\ Now(d, {}, {[seq |-> s, from |-> p, formats |-> fs]})
      /\ out' = Stale(d, past) \o <<PlaceHere(d, s, fs)>> \o ToPeers(d, {p}, s, fs)
      /\ UNCHANGED <<peers, enabled, allowed>>
  BY <1>1 DEF OfferArrived
<1>3. /\ local'[d] = {} /\ remote'[d] = {[seq |-> s, from |-> p, formats |-> fs]}
      /\ \A e \in Devices \ {d} : local'[e] = local[e] /\ remote'[e] = remote[e]
  BY <1>2 DEF Now, IInv, Shape, On
<1>4. RemoteSeqs(d)' = {s}
  BY <1>3 DEF RemoteSeqs
<1>5. {w \in waiting[d] : w.key.seq \in past} \in SUBSET waiting[d]
  OBVIOUS
<1> HIDE DEF past
<1>6. IsSeq(Stale(d, past)) /\ Offers(Stale(d, past)) = {}
  BY <1>5, FailedIsMute DEF Stale
<1>7. IsSeq(<<PlaceHere(d, s, fs)>>) /\ Offers(<<PlaceHere(d, s, fs)>>) = {}
  BY FewIs DEF Offers, PlaceHere
<1>8. /\ IsSeq(Stale(d, past) \o <<PlaceHere(d, s, fs)>>)
      /\ Offers(Stale(d, past) \o <<PlaceHere(d, s, fs)>>) = {}
  BY <1>6, <1>7, OffersJoined
<1>9. IsSeq(out') /\ Offers(out') = OffersTo(peers[d] \ {p}, s, fs)
  <2> PICK q, r : q = Stale(d, past) \o <<PlaceHere(d, s, fs)>> /\ r = ToPeers(d, {p}, s, fs)
    OBVIOUS
  <2>1. IsSeq(q) /\ IsSeq(r) /\ Offers(q) = {} /\ Offers(r) = OffersTo(peers[d] \ {p}, s, fs)
    BY <1>8, PassedTo
  <2>2. IsSeq(q \o r) /\ Offers(q \o r) = Offers(q) \cup Offers(r)
    BY <2>1, OffersJoined
  <2>3. out' = q \o r
    BY <1>2
  <2> QED
    BY <2>1, <2>2, <2>3
<1> QED
  BY <1>2, <1>3, <1>4, <1>9 DEF Takes

\* What a copy that is announced does.
LEMMA CopyOffered ==
  ASSUME IInv, NEW d \in Devices, Here(d), NEW fs, NEW soon, LocalChanged(d, fs, soon),
         counter'[d] # counter[d], allowed[d] = Formats, Offerable(fs)
  PROVE  /\ UNCHANGED <<peers, enabled, allowed>>
         /\ \A e \in Devices \ {d} : local'[e] = local[e] /\ remote'[e] = remote[e]
         /\ IsSeq(out')
         /\ \E s : /\ LocalSeqs(d)' = {s}
                   /\ Offers(out') = OffersTo(peers[d], s, fs)
<1> DEFINE past == LocalSeqs(d) \cup RemoteSeqs(d)
<1> PICK s : s = [device |-> d, counter |-> counter[d] + 1]
  OBVIOUS
<1>1. fs \cap allowed[d] = fs
  BY DEF Offerable
<1>2. /\ Now(d, {[seq |-> s, formats |-> fs]}, {})
      /\ out' = Stale(d, past) \o ToPeers(d, {}, s, fs)
      /\ UNCHANGED <<peers, enabled, allowed>>
  BY <1>1 DEF LocalChanged
<1>3. /\ local'[d] = {[seq |-> s, formats |-> fs]}
      /\ \A e \in Devices \ {d} : local'[e] = local[e] /\ remote'[e] = remote[e]
  BY <1>2 DEF Now, IInv, Shape, On
<1>4. LocalSeqs(d)' = {s}
  BY <1>3 DEF LocalSeqs
<1>5. {w \in waiting[d] : w.key.seq \in past} \in SUBSET waiting[d]
  OBVIOUS
<1> HIDE DEF past
<1>6. IsSeq(Stale(d, past)) /\ Offers(Stale(d, past)) = {}
  BY <1>5, FailedIsMute DEF Stale
<1>7. /\ IsSeq(ToPeers(d, {}, s, fs))
      /\ Offers(ToPeers(d, {}, s, fs)) = OffersTo(peers[d], s, fs)
  <2>1. peers[d] \ {} = peers[d]
    OBVIOUS
  <2> QED
    BY <2>1, PassedTo
<1>8. IsSeq(out') /\ Offers(out') = OffersTo(peers[d], s, fs)
  <2> PICK q, r : q = Stale(d, past) /\ r = ToPeers(d, {}, s, fs)
    OBVIOUS
  <2>1. IsSeq(q) /\ IsSeq(r) /\ Offers(q) = {} /\ Offers(r) = OffersTo(peers[d], s, fs)
    BY <1>6, <1>7
  <2>2. IsSeq(q \o r) /\ Offers(q \o r) = Offers(q) \cup Offers(r)
    BY <2>1, OffersJoined
  <2>3. out' = q \o r
    BY <1>2
  <2> QED
    BY <2>1, <2>2, <2>3
<1> QED
  BY <1>2, <1>3, <1>4, <1>8

\* A peer comes where nothing is offered.
LEMMA NothingToTell ==
  ASSUME NEW d \in Devices, NEW p, PeerUp(d, p), local[d] = {}, remote[d] = {}
  PROVE  Mute
<1>1. {Offer(p, o.seq, o.formats) : o \in Offered(d)} = {}
  BY DEF Offered
<1>2. CASE out' = <<>>
  BY <1>2, NothingIsMute
<1>3. CASE out' = SetToSeq({})
  <2>1. IsFiniteSet({})
    BY FS_EmptySet
  <2> QED
    BY <1>3, <2>1, ListedIs DEF Mute, Offers
<1> QED
  BY <1>1, <1>2, <1>3 DEF PeerUp

-----------------------------------------------------------------------------
(* What becomes of the queues.                                             *)

\* What is offered in the queues of a client is what was.
AsOffered(c) == Offers(up'[c]) = Offers(up[c]) /\ Offers(downward'[c]) = Offers(downward[c])

\* A queue with something put behind it, and one without its head.
LEMMA Behind ==
  ASSUME IsSeq(out'), NEW q, IsSeq(q), NEW p
  PROVE  Offers(q \o Sent(p)) = Offers(q) \cup BoundFor(Offers(out'), p)
BY OffersSent, OffersJoined

LEMMA Beheaded ==
  ASSUME NEW q, IsSeq(q), q # <<>>
  PROVE  /\ IsSeq(Tail(q)) /\ Head(q) \in Elems(q)
         /\ Head(q).type # "Offer" => Offers(Tail(q)) = Offers(q)
         /\ Offers(Tail(q)) \subseteq Offers(q)
         /\ Head(q).type = "Offer" => Head(q) \in Offers(q)
BY HeadAndTail, TailIs DEF Offers

\* A machine that offers nothing puts no offer in a queue.
LEMMA MuteSends ==
  ASSUME Queues, Mute, NEW d, SendFrom(d), NEW c \in Clients
  PROVE  AsOffered(c)
<1>1. /\ IsSeq(up[c]) /\ IsSeq(downward[c]) /\ IsSeq(out')
      /\ BoundFor(Offers(out'), Hub) = {} /\ BoundFor(Offers(out'), c) = {}
  BY DEF Queues, Mute, BoundFor
<1>2. Offers(up[c] \o Sent(Hub)) = Offers(up[c])
  BY <1>1, Behind
<1>3. Offers(downward[c] \o Sent(c)) = Offers(downward[c])
  BY <1>1, Behind
<1> QED
  BY <1>2, <1>3 DEF SendFrom, AsOffered

\* What a machine offers to its peers comes to the queues that lead to them.
LEMMA OffersGo ==
  ASSUME NEW ps, NEW s, NEW fs, NEW p \in ps
  PROVE  BoundFor(OffersTo(ps, s, fs), p) = {Offer(p, s, fs)}
BY DEF OffersTo, Offer, BoundFor

LEMMA NoneGoes ==
  ASSUME NEW ps, NEW s, NEW fs, NEW p, p \notin ps
  PROVE  BoundFor(OffersTo(ps, s, fs), p) = {}
BY DEF OffersTo, Offer, BoundFor

-----------------------------------------------------------------------------
(* Peace is kept.                                                          *)

\* The last copy was made on one of the machines.
LEMMA LatestIs == ASSUME Desk, made # <<>> PROVE Latest \in Devices
<1>1. made \in Seq(Devices)
  BY DEF Desk, Copying
<1>2. Len(made) \in 1 .. Len(made)
  BY <1>1, EmptySeq, LenProperties
<1> QED
  BY <1>1, <1>2, ElementOfSeq DEF Latest

\* A step that offers nothing and changes no offer, link or notice.
LEMMA PeaceUndisturbed ==
  ASSUME Desk, Peace, calm' = calm, UNCHANGED <<peers, enabled, allowed, local, remote>>,
         UNCHANGED <<notices, link, made>>, \A c \in Clients : AsOffered(c)
  PROVE  Peace'
<1> SUFFICES ASSUME calm = TRUE PROVE AtPeace'
  BY DEF Peace
<1>1. Ordinary /\ Joined /\ (NothingYet \/ Underway)
  BY DEF Peace, AtPeace
<1>2. Ordinary' /\ Joined' /\ (AllIn => AllIn') /\ Latest' = Latest /\ (Unsaid => Unsaid')
  BY <1>1 DEF Ordinary, Shares, Joined, AllIn, Latest, Unsaid, AsOffered
<1>3. NothingYet => NothingYet'
  BY <1>2 DEF NothingYet
<1>4. ASSUME NEW d, Announcing(d) PROVE Announcing(d)'
  BY <1>2, <1>4 DEF Announcing
<1>5. ASSUME NEW d, d \in Devices, NEW s, Spreading(d, s) PROVE Spreading(d, s)'
  <2>1. d # Hub => d \in Clients
    BY <1>5 DEF Clients
  <2>2. ToHub(d) => ToHub(d)'
    BY <2>1 DEF ToHub, AsOffered
  <2>3. LocalSeqs(d)' = LocalSeqs(d) /\ \A e : RemoteSeqs(e)' = RemoteSeqs(e)
    BY DEF LocalSeqs, RemoteSeqs
  <2>4. \A c \in Clients \ {d} : Reaches(d, s, c)'
    BY <1>5, <2>2, <2>3 DEF Spreading, Reaches, AsOffered
  <2> QED
    BY <1>5, <2>2, <2>3, <2>4 DEF Spreading, AsOffered
<1> QED
  BY <1>1, <1>2, <1>3, <1>4, <1>5, LatestIs DEF Underway, AtPeace

\* A step that is not calm.
LEMMA NoPeace == ASSUME calm' = FALSE PROVE Peace'
BY DEF Peace

\* While nothing failed, no link is lost.
LEMMA NobodyLost ==
  ASSUME Peace, calm = TRUE, NEW c \in Clients, HubLoses(c) \/ ClientLoses(c)
  PROVE  FALSE
BY DEF Peace, AtPeace, Joined, HubLoses, ClientLoses

\* Somebody copies: everything that was said of earlier copies has been heard.
LEMMA CopyPeace ==
  ASSUME Desk, Peace, NEW d \in Devices, NEW fs \in (SUBSET Formats) \ {{}}, Copy(d, fs)
  PROVE  Peace'
<1>1. calm' \in BOOLEAN /\ (calm' = TRUE => calm = TRUE /\ Quiet)
  BY DEF Copy, Peace
<1> SUFFICES ASSUME calm = TRUE, Quiet PROVE AtPeace'
  BY <1>1 DEF Peace
<1>2. Ordinary /\ Joined
  BY DEF Peace, AtPeace
<1>3. /\ UNCHANGED <<enabled, allowed, peers, link, up, downward>>
      /\ made' = Append(made, d)
      /\ notices' = [notices EXCEPT ![d] = Append(@, [copy |-> Len(made'), formats |-> fs])]
  BY DEF Copy, exchangeVars, linkVars
<1>4. Ordinary' /\ Joined' /\ AllIn'
  BY <1>2, <1>3 DEF Ordinary, Shares, Joined, AllIn, Quiet
<1>5. Unsaid'
  <2>1. Offers(<<>>) = {}
    BY FewIs DEF Offers
  <2> QED
    BY <1>3, <2>1 DEF Unsaid, Quiet
<1>6. made' # <<>> /\ Latest' = d
  <2>1. made \in Seq(Devices)
    BY DEF Desk, Copying
  <2>2. made' # <<>> /\ Len(made') = Len(made) + 1 /\ made'[Len(made) + 1] = d
    BY <1>3, <2>1, AppendProperties
  <2> QED
    BY <2>2 DEF Latest
<1>7. Announcing(d)'
  <2> PICK x : x = [copy |-> Len(made'), formats |-> fs]
    OBVIOUS
  <2>1. x.formats = fs
    OBVIOUS
  <2>2. On(notices) /\ \A e \in Devices : notices[e] = <<>>
    BY DEF Desk, Functions, Quiet
  <2>3. notices'[d] = Append(<<>>, x) /\ \A e \in Devices \ {d} : notices'[e] = <<>>
    BY <1>3, <2>2 DEF On
  <2>4. notices'[d] = <<x>>
    BY <2>3
  <2>5. Offerable(x.formats)
    BY <2>1 DEF Offerable
  <2> QED
    BY <1>5, <2>3, <2>4, <2>5 DEF Announcing
<1> QED
  BY <1>4, <1>6, <1>7 DEF AtPeace, Underway

\* The machine notices what was copied there, and offers it to its peers.
LEMMA NoticePeace ==
  ASSUME Desk, Desk', Peace, NEW d \in Devices, NEW soon, Notice(d, soon)
  PROVE  Peace'
<1>1. calm' \in BOOLEAN /\ (calm' = TRUE => calm = TRUE /\ counter'[d] # counter[d])
  BY DEF Notice, Peace
<1> SUFFICES ASSUME calm = TRUE, counter'[d] # counter[d] PROVE AtPeace'
  BY <1>1 DEF Peace
<1>2. Ordinary /\ Joined /\ (NothingYet \/ Underway)
  BY DEF Peace, AtPeace
<1>3. /\ notices[d] # <<>> /\ notices' = [notices EXCEPT ![d] = Tail(@)]
      /\ LocalChanged(d, Head(notices[d]).formats, soon)
      /\ SendFrom(d) /\ UNCHANGED <<link, made>>
  BY DEF Notice, Apply
<1>4. made # <<>> /\ AllIn /\ Announcing(Latest)
  BY <1>2, <1>3 DEF NothingYet, Underway, Spreading
<1>5. Latest = d /\ Latest' = d
  BY <1>3, <1>4 DEF Announcing, Latest
<1>6. PICK x : notices[d] = <<x>> /\ Offerable(x.formats)
  BY <1>4, <1>5 DEF Announcing
<1> PICK fs : fs = x.formats
  OBVIOUS
<1>7. LocalChanged(d, fs, soon) /\ Offerable(fs) /\ Tail(notices[d]) = <<>>
  BY <1>3, <1>6
<1>8. Here(d) /\ IInv /\ On(notices) /\ Queues
  BY MachineIs DEF Desk, Functions, Machine
<1>9. allowed[d] = Formats
  BY <1>2 DEF Ordinary, Shares
<1>10. /\ UNCHANGED <<peers, enabled, allowed>>
       /\ \A e \in Devices \ {d} : local'[e] = local[e] /\ remote'[e] = remote[e]
       /\ IsSeq(out')
       /\ \E s : LocalSeqs(d)' = {s} /\ Offers(out') = OffersTo(peers[d], s, fs)
  BY <1>7, <1>8, <1>9, CopyOffered
<1>11. PICK s : LocalSeqs(d)' = {s} /\ Offers(out') = OffersTo(peers[d], s, fs)
  BY <1>10
<1>12. Ordinary' /\ Joined' /\ AllIn'
  BY <1>2, <1>3, <1>4, <1>10 DEF Ordinary, Shares, Joined, AllIn
<1>13. \A e \in Devices : notices'[e] = <<>>
  BY <1>3, <1>4, <1>5, <1>7, <1>8 DEF On, Announcing
<1>14. ASSUME NEW c \in Clients
       PROVE  /\ Offers(up'[c]) = IF c = d THEN {Offer(Hub, s, fs)} ELSE {}
              /\ Offers(downward'[c]) = IF d = Hub THEN {Offer(c, s, fs)} ELSE {}
  <2>1. IsSeq(up[c]) /\ IsSeq(downward[c]) /\ Offers(up[c]) = {} /\ Offers(downward[c]) = {}
    BY <1>4, <1>8 DEF Queues, Announcing, Unsaid
  <2>2. link[c] = "open" /\ c \in peers[Hub] /\ Hub \in peers[c] /\ c # Hub
    BY <1>2, <1>4 DEF AllIn, Joined, Clients
  <2>3. /\ Offers(up[c] \o Sent(Hub)) = BoundFor(OffersTo(peers[d], s, fs), Hub)
        /\ Offers(downward[c] \o Sent(c)) = BoundFor(OffersTo(peers[d], s, fs), c)
    <3>1. /\ Offers(up[c] \o Sent(Hub)) = Offers(up[c]) \cup BoundFor(Offers(out'), Hub)
          /\ Offers(downward[c] \o Sent(c)) = Offers(downward[c]) \cup BoundFor(Offers(out'), c)
      BY <1>10, <2>1, Behind, Zenon
    <3> QED
      BY <1>11, <2>1, <3>1
  <2>4. ASSUME c = d PROVE BoundFor(OffersTo(peers[d], s, fs), Hub) = {Offer(Hub, s, fs)}
    <3>1. Hub \in peers[d]
      BY <2>2, <2>4
    <3> QED
      BY <3>1, OffersGo
  <2>5. ASSUME d = Hub PROVE BoundFor(OffersTo(peers[d], s, fs), c) = {Offer(c, s, fs)}
    <3>1. c \in peers[d]
      BY <2>2, <2>5
    <3> QED
      BY <3>1, OffersGo
  <2>6. /\ up'[c] = IF d = c THEN up[c] \o Sent(Hub) ELSE up[c]
        /\ downward'[c] = IF d = Hub THEN downward[c] \o Sent(c) ELSE downward[c]
    BY <1>3, <1>10, <2>2 DEF SendFrom
  <2> QED
    BY <2>1, <2>3, <2>4, <2>5, <2>6
<1>15. \A p : Names(Offer(p, s, fs), s)
  BY <1>7 DEF Names, Offer
<1>16. d # Hub => ToHub(d)'
  <2>1. d # Hub => d \in Clients
    BY DEF Clients
  <2> QED
    BY <1>14, <2>1 DEF ToHub
<1>17. ASSUME NEW c \in Clients \ {d} PROVE Reaches(d, s, c)'
  BY <1>14, <1>16 DEF Reaches
<1>18. Spreading(d, s)'
  <2>1. \A c \in Clients : \A o \in Offers(up[c])' : c = d /\ Names(o, s)
    BY <1>14, <1>15
  <2>2. \A c \in Clients : \A o \in Offers(downward[c])' : c # d /\ Names(o, s)
    <3> SUFFICES ASSUME NEW c \in Clients, NEW o \in Offers(downward'[c])
                 PROVE  c # d /\ Names(o, s)
      OBVIOUS
    <3>1. d = Hub /\ o = Offer(c, s, fs)
      BY <1>14
    <3> QED
      BY <1>15, <3>1 DEF Clients
  <2> QED
    BY <1>11, <1>13, <1>16, <1>17, <2>1, <2>2 DEF Spreading
<1> QED
  BY <1>3, <1>4, <1>5, <1>12, <1>18 DEF AtPeace, Underway

\* The hub hears an offer, which is that of the last copy, and passes it on.
LEMMA HubHeardPeace ==
  ASSUME Desk, Peace, calm = TRUE, NEW c \in Clients, HubHears(c),
         Head(up[c]).type = "Offer"
  PROVE  AtPeace'
<1> PICK o : o = Head(up[c])
  OBVIOUS
<1>1. Ordinary /\ Joined /\ (NothingYet \/ Underway)
  BY DEF Peace, AtPeace
<1>2. Hub \in Devices /\ c \in Devices /\ c # Hub
  BY HubAssumption DEF Clients
<1>3. Here(Hub) /\ IInv /\ Queues /\ OnClients(up)
  BY <1>2, MachineIs DEF Desk, Functions, Machine
<1>4. /\ OfferArrived(Hub, c, o.seq, o.formats)
      /\ up[c] # <<>> /\ up' = [up EXCEPT ![c] = Tail(@)]
      /\ downward' = [e \in Clients |->
           IF link[e] = "open" /\ e \in peers[Hub] THEN downward[e] \o Sent(e)
                                                   ELSE downward[e]]
      /\ UNCHANGED <<notices, link, made>>
  <2>1. Handle(Hub, c, o)
    BY DEF HubHears
  <2>2. OfferArrived(Hub, c, o.seq, o.formats)
    BY <2>1 DEF Handle
  <2> QED
    BY <2>2 DEF HubHears, deskVars
<1>5. /\ IsSeq(up[c]) /\ o \in Offers(up[c])
      /\ Offers(Tail(up[c])) \subseteq Offers(up[c])
  BY <1>3, <1>4, Beheaded DEF Queues
<1>6. made # <<>> /\ AllIn /\ \E s : Spreading(Latest, s)
  BY <1>1, <1>5 DEF NothingYet, Underway, Announcing, Unsaid
<1> PICK d : d = Latest
  OBVIOUS
<1>7. PICK s : Spreading(d, s)
  BY <1>6
<1>8. c = d /\ Names(o, s)
  BY <1>5, <1>7 DEF Spreading
<1>9. /\ OfferArrived(Hub, c, s, o.formats) /\ Offerable(o.formats)
      /\ Shares(Hub)
  BY <1>1, <1>2, <1>4, <1>8 DEF Names, Ordinary
<1> PICK fs : fs = o.formats
  OBVIOUS
<1>10. OfferArrived(Hub, c, s, fs) /\ Offerable(fs)
  BY <1>9
<1>11. /\ UNCHANGED <<peers, enabled, allowed>> /\ RemoteSeqs(Hub)' = {s}
       /\ \A e \in Devices \ {Hub} : local'[e] = local[e] /\ remote'[e] = remote[e]
       /\ IsSeq(out') /\ Offers(out') = OffersTo(peers[Hub] \ {c}, s, fs)
  <2>1. Takes(Hub, c, s, fs)
    BY <1>2, <1>3, <1>9, <1>10, OfferTaken
  <2> QED
    BY <2>1 DEF Takes
<1>12. Ordinary' /\ Joined' /\ AllIn' /\ Latest' = d /\ made' # <<>>
  BY <1>1, <1>4, <1>6, <1>11 DEF Ordinary, Shares, Joined, AllIn, Latest
<1>13. LocalSeqs(d)' = {s}
  BY <1>2, <1>7, <1>8, <1>11 DEF Spreading, LocalSeqs
<1>14. ASSUME NEW e \in Clients PROVE Offers(up'[e]) \subseteq Offers(up[e])
  BY <1>3, <1>4, <1>5 DEF OnClients
<1>15. ASSUME NEW e \in Clients
       PROVE  /\ Offers(downward'[e]) \subseteq Offers(downward[e]) \cup {Offer(e, s, fs)}
              /\ e # c => Offers(downward'[e]) # {}
              /\ e = c => Offers(downward'[e]) = Offers(downward[e])
  <2>1. downward'[e] = downward[e] \o Sent(e) /\ IsSeq(downward[e]) /\ e \in peers[Hub]
    BY <1>1, <1>3, <1>4, <1>6, <1>11 DEF AllIn, Joined, Queues
  <2> PICK ps : ps = peers[Hub] \ {c}
    OBVIOUS
  <2>2. Offers(downward'[e]) = Offers(downward[e]) \cup BoundFor(OffersTo(ps, s, fs), e)
    BY <1>11, <2>1, Behind
  <2>3. CASE e = c
    <3>1. e \notin ps
      BY <2>3
    <3>2. BoundFor(OffersTo(ps, s, fs), e) = {}
      BY <3>1, NoneGoes
    <3> QED
      BY <2>2, <2>3, <3>2
  <2>4. CASE e # c
    <3>1. e \in ps
      BY <2>1, <2>4
    <3>2. BoundFor(OffersTo(ps, s, fs), e) = {Offer(e, s, fs)}
      BY <3>1, OffersGo
    <3> QED
      BY <2>2, <2>4, <3>2
  <2> QED
    BY <2>3, <2>4
<1>16. \A p : Names(Offer(p, s, fs), s)
  BY <1>10 DEF Names, Offer
<1>17. Spreading(d, s)'
  <2>1. \A e \in Clients : \A m \in Offers(up[e])' : e = d /\ Names(m, s)
    BY <1>7, <1>14 DEF Spreading
  <2>2. \A e \in Clients : \A m \in Offers(downward[e])' : e # d /\ Names(m, s)
    <3> SUFFICES ASSUME NEW e \in Clients, NEW m \in Offers(downward'[e])
                 PROVE  e # d /\ Names(m, s)
      OBVIOUS
    <3>1. CASE m \in Offers(downward[e])
      BY <1>7, <3>1 DEF Spreading
    <3>2. CASE m \notin Offers(downward[e])
      <4>1. m = Offer(e, s, fs) /\ e # c
        BY <1>15, <3>2
      <4> QED
        BY <1>8, <1>16, <4>1
    <3> QED
      BY <3>1, <3>2
  <2>3. \A e \in Clients \ {d} : Reaches(d, s, e)'
    BY <1>8, <1>15 DEF Reaches
  <2>4. \A e \in Devices : notices'[e] = <<>>
    BY <1>4, <1>7 DEF Spreading
  <2> QED
    BY <1>11, <1>13, <2>1, <2>2, <2>3, <2>4 DEF Spreading
<1> QED
  BY <1>12, <1>17 DEF AtPeace, Underway

\* A client hears it, and holds it from then on.
LEMMA ClientHeardPeace ==
  ASSUME Desk, Peace, calm = TRUE, NEW c \in Clients, ClientHears(c),
         Head(downward[c]).type = "Offer"
  PROVE  AtPeace'
<1> PICK o : o = Head(downward[c])
  OBVIOUS
<1>1. Ordinary /\ Joined /\ (NothingYet \/ Underway)
  BY DEF Peace, AtPeace
<1>2. Hub \in Devices /\ c \in Devices /\ c # Hub
  BY HubAssumption DEF Clients
<1>3. Here(c) /\ IInv /\ Queues /\ OnClients(up) /\ OnClients(downward)
  BY <1>2, MachineIs DEF Desk, Functions, Machine
<1>4. /\ OfferArrived(c, Hub, o.seq, o.formats)
      /\ downward[c] # <<>> /\ downward' = [downward EXCEPT ![c] = Tail(@)]
      /\ up' = IF link[c] = "cut" THEN up ELSE [up EXCEPT ![c] = @ \o Sent(Hub)]
      /\ UNCHANGED <<notices, link, made>>
  BY DEF ClientHears, Handle, deskVars
<1>5. /\ IsSeq(downward[c]) /\ o \in Offers(downward[c])
      /\ Offers(Tail(downward[c])) \subseteq Offers(downward[c])
  BY <1>3, <1>4, Beheaded DEF Queues
<1>6. made # <<>> /\ AllIn /\ \E s : Spreading(Latest, s)
  BY <1>1, <1>5 DEF NothingYet, Underway, Announcing, Unsaid
<1> PICK d : d = Latest
  OBVIOUS
<1>7. PICK s : Spreading(d, s)
  BY <1>6
<1>8. c # d /\ Names(o, s)
  BY <1>5, <1>7 DEF Spreading
<1>9. /\ OfferArrived(c, Hub, s, o.formats) /\ Offerable(o.formats)
      /\ Shares(c)
  BY <1>1, <1>2, <1>4, <1>8 DEF Names, Ordinary
<1> PICK fs : fs = o.formats
  OBVIOUS
<1>10. OfferArrived(c, Hub, s, fs) /\ Offerable(fs)
  BY <1>9
<1>11. /\ UNCHANGED <<peers, enabled, allowed>> /\ RemoteSeqs(c)' = {s}
       /\ \A e \in Devices \ {c} : local'[e] = local[e] /\ remote'[e] = remote[e]
       /\ IsSeq(out') /\ Offers(out') = OffersTo(peers[c] \ {Hub}, s, fs)
  <2>1. Takes(c, Hub, s, fs)
    BY <1>2, <1>3, <1>9, <1>10, OfferTaken
  <2> QED
    BY <2>1 DEF Takes
<1>12. Ordinary' /\ Joined' /\ AllIn' /\ Latest' = d /\ made' # <<>>
  BY <1>1, <1>4, <1>6, <1>11 DEF Ordinary, Shares, Joined, AllIn, Latest
<1>13. d \in Devices
  BY <1>6, LatestIs
<1>14. LocalSeqs(d)' = {s} /\ \A e \in Devices \ {c} : RemoteSeqs(e)' = RemoteSeqs(e)
  BY <1>7, <1>8, <1>11, <1>13 DEF Spreading, LocalSeqs, RemoteSeqs
<1>15. ASSUME NEW e \in Clients
       PROVE  /\ Offers(up'[e]) = Offers(up[e])
              /\ Offers(downward'[e]) \subseteq Offers(downward[e])
              /\ e # c => Offers(downward'[e]) = Offers(downward[e])
  <2>1. IsSeq(up[c])
    BY <1>3 DEF Queues
  <2> PICK ps : ps = peers[c] \ {Hub}
    OBVIOUS
  <2>2. Offers(up[c] \o Sent(Hub)) = Offers(up[c]) \cup BoundFor(OffersTo(ps, s, fs), Hub)
    BY <1>11, <2>1, Behind
  <2>3. BoundFor(OffersTo(ps, s, fs), Hub) = {}
    <3>1. Hub \notin ps
      OBVIOUS
    <3> QED
      BY <3>1, NoneGoes
  <2> QED
    BY <1>3, <1>4, <1>5, <2>2, <2>3 DEF OnClients
<1>16. ToHub(d) => ToHub(d)'
  BY <1>13, <1>15 DEF ToHub, Clients
<1>17. Spreading(d, s)'
  <2>1. \A e \in Clients : \A m \in Offers(up[e])' : e = d /\ Names(m, s)
    BY <1>7, <1>15 DEF Spreading
  <2>2. \A e \in Clients : \A m \in Offers(downward[e])' : e # d /\ Names(m, s)
    BY <1>7, <1>15 DEF Spreading
  <2>3. ASSUME NEW e \in Clients \ {d} PROVE Reaches(d, s, e)'
    <3>1. CASE e = c
      BY <1>11, <3>1 DEF Reaches
    <3>2. CASE e # c
      <4>1. Reaches(d, s, e) /\ e \in Devices
        BY <1>7 DEF Spreading, Clients
      <4> QED
        BY <1>14, <1>15, <1>16, <3>2, <4>1 DEF Reaches
    <3> QED
      BY <3>1, <3>2
  <2>4. \A e \in Devices : notices'[e] = <<>>
    BY <1>4, <1>7 DEF Spreading
  <2>5. d # Hub => RemoteSeqs(Hub)' = {s} \/ ToHub(d)'
    BY <1>2, <1>7, <1>14, <1>16 DEF Spreading
  <2> QED
    BY <1>14, <2>1, <2>2, <2>3, <2>4, <2>5 DEF Spreading
<1> QED
  BY <1>12, <1>17 DEF AtPeace, Underway

\* Everything else that is heard makes nobody offer anything.
LEMMA HeardIsMute ==
  ASSUME NEW d \in Devices, Here(d), NEW p, NEW m, Handle(d, p, m), m.type # "Offer"
  PROVE  Mute /\ Keeps
<1>1. CASE RequestArrived(d, p, m.key, m.offset)
  BY <1>1, RequestIsMute
<1>2. CASE ChunkArrived(d, p, m.key, m.offset, m.data, m.last)
  BY <1>2, ChunkIsMute
<1>3. CASE UnavailableArrived(d, p, m.key)
  BY <1>3, UnavailableIsMute
<1> QED
  BY <1>1, <1>2, <1>3 DEF Handle

LEMMA HubHearsPeace ==
  ASSUME Desk, Peace, NEW c \in Clients, HubHears(c)
  PROVE  Peace'
<1>1. calm' = calm
  BY DEF HubHears, deskVars
<1>2. CASE Head(up[c]).type = "Offer"
  BY <1>1, <1>2, HubHeardPeace DEF Peace
<1>3. CASE Head(up[c]).type # "Offer"
  <2>1. Hub \in Devices /\ Here(Hub) /\ Queues /\ OnClients(up)
    BY HubAssumption, MachineIs DEF Desk, Functions, Machine
  <2>2. /\ Handle(Hub, c, Head(up[c])) /\ up[c] # <<>> /\ up' = [up EXCEPT ![c] = Tail(@)]
        /\ downward' = [e \in Clients |->
             IF link[e] = "open" /\ e \in peers[Hub] THEN downward[e] \o Sent(e)
                                                     ELSE downward[e]]
        /\ UNCHANGED <<notices, link, made>>
    BY DEF HubHears, deskVars
  <2>3. Mute /\ Keeps
    BY <1>3, <2>1, <2>2, HeardIsMute
  <2>4. ASSUME NEW e \in Clients PROVE AsOffered(e)
    <3>1. Offers(downward[e] \o Sent(e)) = Offers(downward[e])
      <4>1. IsSeq(out') /\ IsSeq(downward[e]) /\ BoundFor(Offers(out'), e) = {}
        BY <2>1, <2>3 DEF Queues, Mute, BoundFor
      <4> QED
        BY <4>1, Behind
    <3>2. Offers(downward'[e]) = Offers(downward[e])
      BY <2>2, <3>1
    <3>3. Offers(Tail(up[c])) = Offers(up[c])
      BY <1>3, <2>1, <2>2, Beheaded DEF Queues
    <3>4. Offers(up'[e]) = Offers(up[e])
      BY <2>1, <2>2, <3>3 DEF OnClients
    <3> QED
      BY <3>2, <3>4 DEF AsOffered
  <2> QED
    BY <1>1, <2>2, <2>3, <2>4, PeaceUndisturbed DEF Keeps
<1> QED
  BY <1>2, <1>3

LEMMA ClientHearsPeace ==
  ASSUME Desk, Peace, NEW c \in Clients, ClientHears(c)
  PROVE  Peace'
<1>1. calm' = calm
  BY DEF ClientHears, deskVars
<1>2. CASE Head(downward[c]).type = "Offer"
  BY <1>1, <1>2, ClientHeardPeace DEF Peace
<1>3. CASE Head(downward[c]).type # "Offer"
  <2>0. c \in Devices
    BY DEF Clients
  <2>1. Here(c) /\ Queues /\ OnClients(up) /\ OnClients(downward)
    BY <2>0, MachineIs DEF Desk, Functions, Machine
  <2>2. /\ Handle(c, Hub, Head(downward[c]))
        /\ downward[c] # <<>> /\ downward' = [downward EXCEPT ![c] = Tail(@)]
        /\ up' = IF link[c] = "cut" THEN up ELSE [up EXCEPT ![c] = @ \o Sent(Hub)]
        /\ UNCHANGED <<notices, link, made>>
    BY DEF ClientHears, deskVars
  <2>3. Mute /\ Keeps
    BY <1>3, <2>0, <2>1, <2>2, HeardIsMute
  <2>4. ASSUME NEW e \in Clients PROVE AsOffered(e)
    <3>1. Offers(up[c] \o Sent(Hub)) = Offers(up[c])
      <4>1. IsSeq(out') /\ IsSeq(up[c]) /\ BoundFor(Offers(out'), Hub) = {}
        BY <2>1, <2>3 DEF Queues, Mute, BoundFor
      <4> QED
        BY <4>1, Behind
    <3>2. Offers(up'[e]) = Offers(up[e])
      BY <2>1, <2>2, <3>1 DEF OnClients
    <3>3. Offers(Tail(downward[c])) = Offers(downward[c])
      BY <1>3, <2>1, <2>2, Beheaded DEF Queues
    <3>4. Offers(downward'[e]) = Offers(downward[e])
      BY <2>1, <2>2, <3>3 DEF OnClients
    <3> QED
      BY <3>2, <3>4 DEF AsOffered
  <2> QED
    BY <1>1, <2>2, <2>3, <2>4, PeaceUndisturbed DEF Keeps
<1> QED
  BY <1>2, <1>3

\* Pastes and reads offer nothing.
LEMMA QuietTurnPeace ==
  ASSUME Desk, Peace, NEW d, SendFrom(d), Mute, Keeps, UNCHANGED <<notices, link, deskVars>>
  PROVE  Peace'
<1>1. \A c \in Clients : AsOffered(c)
  BY MuteSends DEF Desk
<1> QED
  BY <1>1, PeaceUndisturbed DEF Keeps, deskVars

LEMMA ReadPeace == ASSUME Desk, Peace, NEW d \in Devices, Read(d) PROVE Peace'
<1>1. UNCHANGED <<exchangeVars, board, notices, pasting, asked, answers,
                  linkVars, deskVars>>
  BY DEF Read
<1> QED
  BY <1>1, PeaceUndisturbed DEF exchangeVars, linkVars, deskVars, AsOffered

LEMMA OwnPeace ==
  ASSUME Desk, Peace, NEW d \in Devices, Want(d) \/ Read(d) \/ ReadEnds(d)
  PROVE  Peace'
<1>0. Here(d)
  BY MachineIs
<1>1. CASE Want(d)
  <2>1. PICK q : Wanted(d, q.ticket, q.key) /\ SendFrom(d) /\ UNCHANGED <<notices, link, deskVars>>
    BY <1>1 DEF Want, Apply
  <2>2. Mute /\ Keeps
    BY <2>1, WantedIsMute
  <2> QED
    BY <2>1, <2>2, QuietTurnPeace
<1>2. CASE ReadEnds(d)
  <2>1. PICK r : ReadDone(d, r.key, r.data) /\ SendFrom(d) /\ UNCHANGED <<notices, link, deskVars>>
    BY <1>2 DEF ReadEnds
  <2>2. Mute /\ Keeps
    BY <1>0, <2>1, ReadDoneIsMute
  <2> QED
    BY <2>1, <2>2, QuietTurnPeace
<1>3. CASE Read(d)
  BY <1>3, ReadPeace
<1> QED
  BY <1>1, <1>2, <1>3

LEMMA PastePeace == ASSUME Desk, Peace, NEW d, NEW f, Paste(d, f) PROVE Peace'
<1>1. UNCHANGED <<exchangeVars, notices, linkVars, deskVars>>
  BY DEF Paste
<1> QED
  BY <1>1, PeaceUndisturbed DEF exchangeVars, linkVars, deskVars, AsOffered

\* A client that joins does so before the first copy, and nothing is offered it.
LEMMA JoinPeace ==
  ASSUME Desk, Peace, OnClients(link), NEW c \in Clients, Connect(c) \/ TakeIn(c)
  PROVE  Peace'
<1>1. calm' = calm /\ UNCHANGED <<notices, made>>
  BY DEF Connect, TakeIn, boardVars, deskVars
<1> SUFFICES ASSUME calm = TRUE PROVE AtPeace'
  BY <1>1 DEF Peace
<1>2. Ordinary /\ Joined /\ (NothingYet \/ Underway)
  BY DEF Peace, AtPeace
<1>3. NothingYet
  BY <1>2 DEF Underway, AllIn, Connect, TakeIn
<1>4. Hub \in Devices /\ c \in Devices /\ c # Hub
  BY HubAssumption DEF Clients
<1>5. IInv /\ On(peers) /\ Queues /\ OnClients(up) /\ OnClients(downward)
  BY <1>4, MachineIs DEF Desk, IInv, Shape
<1>6. Offers(<<>>) = {}
  BY FewIs DEF Offers
<1>7. CASE Connect(c)
  <2>1. /\ PeerUp(c, Hub) /\ link[c] = "cut" /\ link' = [link EXCEPT ![c] = "knocking"]
        /\ up' = [up EXCEPT ![c] = Sent(Hub)]
        /\ downward' = [downward EXCEPT ![c] = <<>>]
    BY <1>7 DEF Connect
  <2>2. Mute
    BY <1>3, <1>4, <2>1, NothingToTell DEF NothingYet
  <2>3. Offers(Sent(Hub)) = {}
    BY <2>2, OffersSent DEF Mute, BoundFor
  <2>4. Unsaid'
    BY <1>3, <1>5, <1>6, <2>1, <2>3 DEF Unsaid, NothingYet, OnClients
  <2>5. Joined'
    <3>1. OnClients(link) /\ On(peers)
      BY <1>5
    <3>2. /\ OnClients(link') /\ link'[c] = "knocking"
          /\ \A e \in Clients \ {c} : link'[e] = link[e]
      BY <2>1, <3>1 DEF OnClients
    <3>3. /\ peers'[c] = peers[c] \cup {Hub}
          /\ \A e \in Devices \ {c} : peers'[e] = peers[e]
      BY <1>4, <2>1, <3>1 DEF PeerUp, On
    <3>4. \A e \in Clients : e \in Devices /\ e # Hub
      BY DEF Clients
    <3>5. ASSUME NEW e \in Clients
          PROVE  /\ link'[e] = "cut" <=> Hub \notin peers'[e]
                 /\ link'[e] = "open" <=> e \in peers'[Hub]
      <4>1. CASE e = c
        <5>1. /\ link[c] = "cut" <=> Hub \notin peers[c]
              /\ link[c] = "open" <=> c \in peers[Hub]
          BY <1>2 DEF Joined
        <5> QED
          BY <1>4, <2>1, <3>2, <3>3, <4>1, <5>1
      <4>2. CASE e # c
        BY <1>2, <1>4, <3>2, <3>3, <3>4, <4>2 DEF Joined
      <4> QED
        BY <4>1, <4>2
    <3> QED
      BY <3>5 DEF Joined
  <2>6. Ordinary' /\ NothingYet'
    BY <1>1, <1>2, <1>3, <2>1, <2>4 DEF PeerUp, Ordinary, Shares, NothingYet
  <2> QED
    BY <2>5, <2>6 DEF AtPeace
<1>8. CASE TakeIn(c)
  <2>1. /\ PeerUp(Hub, c) /\ link[c] = "knocking" /\ link' = [link EXCEPT ![c] = "open"]
        /\ downward' = [downward EXCEPT ![c] = Sent(c)] /\ up' = up
    BY <1>8 DEF TakeIn
  <2>2. Mute
    BY <1>3, <1>4, <2>1, NothingToTell DEF NothingYet
  <2>3. Offers(Sent(c)) = {}
    BY <2>2, OffersSent DEF Mute, BoundFor
  <2>4. Unsaid'
    BY <1>3, <1>5, <2>1, <2>3 DEF Unsaid, NothingYet, OnClients
  <2>5. Joined'
    <3>1. OnClients(link) /\ On(peers)
      BY <1>5
    <3>2. /\ OnClients(link') /\ link'[c] = "open"
          /\ \A e \in Clients \ {c} : link'[e] = link[e]
      BY <2>1, <3>1 DEF OnClients
    <3>3. /\ peers'[Hub] = peers[Hub] \cup {c}
          /\ \A e \in Devices \ {Hub} : peers'[e] = peers[e]
      BY <1>4, <2>1, <3>1 DEF PeerUp, On
    <3>4. \A e \in Clients : e \in Devices /\ e # Hub
      BY DEF Clients
    <3>5. ASSUME NEW e \in Clients
          PROVE  /\ link'[e] = "cut" <=> Hub \notin peers'[e]
                 /\ link'[e] = "open" <=> e \in peers'[Hub]
      <4>1. CASE e = c
        <5>1. /\ link[c] = "cut" <=> Hub \notin peers[c]
              /\ link[c] = "open" <=> c \in peers[Hub]
          BY <1>2 DEF Joined
        <5> QED
          BY <1>4, <2>1, <3>2, <3>3, <4>1, <5>1
      <4>2. CASE e # c
        BY <1>2, <1>4, <3>2, <3>3, <3>4, <4>2 DEF Joined
      <4> QED
        BY <4>1, <4>2
    <3> QED
      BY <3>5 DEF Joined
  <2>6. Ordinary' /\ NothingYet'
    BY <1>1, <1>2, <1>3, <2>1, <2>4 DEF PeerUp, Ordinary, Shares, NothingYet
  <2> QED
    BY <2>5, <2>6 DEF AtPeace
<1> QED
  BY <1>7, <1>8

\* Every client's link is in one state or another.
LEMMA LinksKept == ASSUME OnClients(link), [Next]_vars PROVE OnClients(link)'
<1>1. CASE UNCHANGED link
  BY <1>1 DEF OnClients
<1>2. CASE \E c \in Clients, l \in {"cut", "knocking", "open"} :
             link' = [link EXCEPT ![c] = l]
  BY <1>2 DEF OnClients
<1>3. CASE \E c \in Clients : Connect(c) \/ TakeIn(c) \/ Cut(c) \/ Restart(c)
  BY <1>2, <1>3 DEF Connect, TakeIn, Cut, Restart
<1>4. ASSUME NEW d, Own(d) PROVE UNCHANGED link
  <2>1. ASSUME NEW soon, Notice(d, soon) PROVE UNCHANGED link
    BY <2>1 DEF Notice
  <2>2. Want(d) \/ ReadEnds(d) => UNCHANGED link
    BY DEF Want, ReadEnds
  <2>3. Read(d) => UNCHANGED link
    BY DEF Read, linkVars
  <2> QED
    BY <1>4, <2>1, <2>2, <2>3 DEF Own
<1>5. ASSUME NEW c, HubLoses(c) \/ HubHears(c) \/ ClientLoses(c) \/ ClientHears(c)
      PROVE  UNCHANGED link
  BY <1>5 DEF HubLoses, HubHears, ClientLoses, ClientHears
<1>6. ASSUME NEW d, NEW x, Copy(d, x) \/ Paste(d, x) PROVE UNCHANGED link
  BY <1>6 DEF Copy, Paste, linkVars
<1>7. ASSUME NEW on, NEW fs, Reconfigure(on, fs) PROVE UNCHANGED link
  BY <1>7 DEF Reconfigure, linkVars
<1>8. CASE UNCHANGED vars
  BY <1>1, <1>8 DEF vars, linkVars
<1> QED
  BY <1>1, <1>3, <1>4, <1>5, <1>6, <1>7, <1>8 DEF Next, Serves, Follows

\* Peace when a desk starts,
LEMMA PeaceStarts == ASSUME Init PROVE Peace
<1>1. /\ calm = TRUE /\ made = <<>>
      /\ \A d \in Devices : /\ enabled[d] = TRUE /\ allowed[d] = Formats
                            /\ local[d] = {} /\ remote[d] = {} /\ notices[d] = <<>>
                            /\ peers[d] = {}
      /\ \A c \in Clients : link[c] = "cut" /\ up[c] = <<>> /\ downward[c] = <<>>
  BY DEF Init, NoExchange
<1>2. Offers(<<>>) = {}
  BY FewIs DEF Offers
<1>3. Joined
  BY <1>1, HubAssumption DEF Joined, Clients
<1> QED
  BY <1>1, <1>2, <1>3 DEF Peace, AtPeace, Ordinary, Shares, NothingYet, Unsaid

\* and after every step.
LEMMA PeaceKept ==
  ASSUME Desk, Desk', Peace, OnClients(link), [Next]_vars
  PROVE  Peace'
<1>1. ASSUME NEW d \in Devices, Own(d) PROVE Peace'
  BY <1>1, NoticePeace, OwnPeace DEF Own
<1>2. ASSUME NEW c \in Clients, HubLoses(c) \/ ClientLoses(c) PROVE Peace'
  <2>1. calm' = calm
    BY <1>2 DEF HubLoses, ClientLoses, deskVars
  <2>2. calm # TRUE
    BY <1>2, NobodyLost
  <2> QED
    BY <2>1, <2>2 DEF Peace
<1>3. ASSUME NEW c \in Clients, Cut(c) \/ Restart(c) PROVE Peace'
  BY <1>3, NoPeace DEF Cut, Restart, Fails
<1>4. ASSUME NEW on, NEW fs, Reconfigure(on, fs) PROVE Peace'
  BY <1>4, NoPeace DEF Reconfigure, Fails
<1>5. CASE Next
  BY <1>1, <1>2, <1>3, <1>4, <1>5, HubHearsPeace, ClientHearsPeace, JoinPeace, CopyPeace,
     PastePeace, HubAssumption DEF Next, Serves, Follows, Clients
<1>6. CASE UNCHANGED vars
  BY <1>6, PeaceUndisturbed DEF vars, exchangeVars, boardVars, linkVars, deskVars, AsOffered
<1> QED
  BY <1>5, <1>6

\* Once everything has been said, nothing more can come, so everybody has it.
LEMMA PeaceSpreads == ASSUME Desk, Peace PROVE CopiesSpread
<1> SUFFICES ASSUME calm, Quiet, made # <<>>
             PROVE  /\ local[Latest] # {}
                    /\ \A e \in Devices \ {Latest} : RemoteSeqs(e) = LocalSeqs(Latest)
  BY DEF CopiesSpread, Latest
<1>1. calm = TRUE
  BY DEF Peace
<1>2. Underway
  BY <1>1 DEF Peace, AtPeace, NothingYet
<1>3. Latest \in Devices
  BY LatestIs
<1>4. ~Announcing(Latest)
  BY <1>3 DEF Announcing, Quiet
<1>5. PICK s : Spreading(Latest, s)
  BY <1>2, <1>4 DEF Underway
<1>6. Offers(<<>>) = {}
  BY FewIs DEF Offers
<1>7. ~ToHub(Latest)
  BY <1>3, <1>6 DEF ToHub, Quiet, Clients
<1>8. LocalSeqs(Latest) = {s} /\ local[Latest] # {}
  BY <1>5 DEF Spreading, LocalSeqs
<1>9. ASSUME NEW e \in Devices \ {Latest} PROVE RemoteSeqs(e) = {s}
  <2>1. CASE e = Hub
    BY <1>5, <1>7, <2>1 DEF Spreading
  <2>2. CASE e # Hub
    <3>1. e \in Clients \ {Latest}
      BY <2>2 DEF Clients
    <3>2. downward[e] = <<>>
      BY <3>1 DEF Quiet
    <3> QED
      BY <1>5, <1>6, <1>7, <3>1, <3>2 DEF Spreading, Reaches
  <2> QED
    BY <2>1, <2>2
<1> QED
  BY <1>8, <1>9

\* As long as people copy one at a time and no link fails, a copy comes to be what
\* every machine offers to paste, however many machines there are, in whatever
\* order they join and whatever they paste meanwhile.
THEOREM CopiesAlwaysSpread == Spec => []CopiesSpread
<1>1. Init => Desk /\ Peace /\ OnClients(link)
  BY DeskStarts, PeaceStarts DEF Init, OnClients
<1>2. (Desk /\ Peace /\ OnClients(link)) /\ [Next]_vars
        => (Desk /\ Peace /\ OnClients(link))'
  BY DeskKept, PeaceKept, LinksKept
<1>3. Desk /\ Peace => CopiesSpread
  BY PeaceSpreads
<1> QED
  BY <1>1, <1>2, <1>3, PTL DEF Spec
=============================================================================
