---------------------------- MODULE Files_proof ----------------------------
(***************************************************************************)
(* A file that has landed is the one that was copied, and what is left of  *)
(* one that has not is removed: for any number of machines, copies and     *)
(* pieces, any limit and any bound (WholeOrNothingAlways).                 *)
(***************************************************************************)
EXTENDS Files, FiniteSetTheorems, SequenceTheorems, TLAPS

-----------------------------------------------------------------------------
(* Sequences, and sets put in order.                                       *)

Elems(q) == {q[i] : i \in DOMAIN q}
IsSeq(q) == q \in Seq(Elems(q))

\* A sequence, and what it is made of.
LEMMA SeqIs ==
  ASSUME NEW q, IsSeq(q)
  PROVE  /\ Len(q) \in Nat /\ DOMAIN q = 1 .. Len(q)
         /\ \A i \in 1 .. Len(q) : q[i] \in Elems(q)
BY LenProperties DEF IsSeq, Elems

\* Any sequence of anything is one.
LEMMA IsOne ==
  ASSUME NEW S, NEW q \in Seq(S)
  PROVE  IsSeq(q) /\ Elems(q) \subseteq S
<1>1. q \in [1 .. Len(q) -> S] /\ Len(q) \in Nat /\ DOMAIN q = 1 .. Len(q)
  BY LenProperties
<1>2. \A i \in 1 .. Len(q) : q[i] \in Elems(q)
  BY <1>1 DEF Elems
<1>3. q \in [1 .. Len(q) -> Elems(q)]
  BY <1>1, <1>2
<1>4. q \in Seq(Elems(q))
  BY <1>1, <1>3, SeqDef
<1> QED
  BY <1>1, <1>4 DEF IsSeq, Elems

\* Two sequences joined are one, of what they are made of.
LEMMA JoinedIs ==
  ASSUME NEW q, NEW r, IsSeq(q), IsSeq(r)
  PROVE  IsSeq(q \o r) /\ Elems(q \o r) \subseteq Elems(q) \cup Elems(r)
<1>1. q \in Seq(Elems(q) \cup Elems(r)) /\ r \in Seq(Elems(q) \cup Elems(r))
  BY SeqMonotonic DEF IsSeq
<1>2. q \o r \in Seq(Elems(q) \cup Elems(r))
  BY <1>1, ConcatProperties
<1> QED
  BY <1>2, IsOne

\* What is left of a sequence once its head is taken.
LEMMA TailIs ==
  ASSUME NEW q, IsSeq(q), q # <<>>
  PROVE  /\ IsSeq(Tail(q)) /\ Elems(Tail(q)) \subseteq Elems(q)
         /\ Head(q) \in Elems(q)
BY HeadTailProperties, IsOne DEF IsSeq

\* The beginning of a sequence.
LEMMA CutIs ==
  ASSUME NEW q, IsSeq(q), NEW n \in 0 .. Len(q)
  PROVE  IsSeq(SubSeq(q, 1, n)) /\ Elems(SubSeq(q, 1, n)) \subseteq Elems(q)
<1>1. \A i \in 1 .. n : q[i] \in Elems(q)
  BY SeqIs
<1>2. n \in Int /\ 1 \in Int
  BY SeqIs
<1>3. SubSeq(q, 1, n) \in Seq(Elems(q))
  BY <1>1, <1>2, SubSeqProperties
<1> QED
  BY <1>3, IsOne

\* The empty sequence, and a sequence of one.
LEMMA FewIs ==
  /\ IsSeq(<<>>) /\ Elems(<<>>) = {}
  /\ \A x : IsSeq(<<x>>) /\ Elems(<<x>>) = {x}
<1>1. \A x : <<x>> \in Seq({x}) /\ DOMAIN <<x>> = 1 .. 1 /\ <<x>>[1] = x
  OBVIOUS
<1>2. <<>> \in Seq({}) /\ DOMAIN <<>> = {}
  OBVIOUS
<1> QED
  BY <1>1, <1>2 DEF IsSeq, Elems

\* A finite set put in some order.
LEMMA ListedIs ==
  ASSUME NEW S, IsFiniteSet(S)
  PROVE  IsSeq(SetToSeq(S)) /\ Elems(SetToSeq(S)) \subseteq S
<1>1. Cardinality(S) \in Nat /\ Bijection(1 .. Cardinality(S), S) # {}
  BY FS_CardinalityType DEF ExistsBijection
<1>2. PICK f \in Bijection(1 .. Cardinality(S), S) : TRUE
  BY <1>1
<1>3. f \in [1 .. Cardinality(S) -> S] /\ IsInjective(f)
  BY <1>2 DEF Bijection, Injection
<1>4. SetToSeq(S) \in [1 .. Cardinality(S) -> S]
  BY <1>3 DEF SetToSeq
<1>5. SetToSeq(S) \in Seq(S)
  BY <1>1, <1>4, SeqDef
<1> QED
  BY <1>5, IsOne

\* What a function makes of a finite set is finite.
LEMMA ImageFinite ==
  ASSUME NEW S, IsFiniteSet(S), NEW f, DOMAIN f = S
  PROVE  IsFiniteSet({f[x] : x \in S})
<1>1. [x \in S |-> f[x]] \in Surjection(S, {f[x] : x \in S})
  BY DEF Surjection
<1> QED
  BY <1>1, FS_Surjection

\* The elements of a finite set of numbers, counted from the least.
LEMMA Ranks ==
  ASSUME NEW S \in SUBSET Nat, IsFiniteSet(S), NEW j \in 1 .. Cardinality(S)
  PROVE  \E i \in S : Cardinality({h \in S : h <= i}) = j
<1> DEFINE f == [i \in S |-> Cardinality({h \in S : h <= i})]
           n == Cardinality(S)
<1>1. n \in Nat /\ IsFiniteSet(1 .. n) /\ Cardinality(1 .. n) = n
  BY FS_CardinalityType, FS_Interval
<1>2. ASSUME NEW i \in S
      PROVE  /\ IsFiniteSet({h \in S : h <= i})
             /\ Cardinality({h \in S : h <= i}) \in 1 .. n
  <2>1. {h \in S : h <= i} \in SUBSET S
    OBVIOUS
  <2>2. /\ IsFiniteSet({h \in S : h <= i})
        /\ Cardinality({h \in S : h <= i}) <= n
    BY <2>1, FS_Subset
  <2>3. i \in {h \in S : h <= i}
    OBVIOUS
  <2>4. Cardinality({h \in S : h <= i}) \in Nat /\ Cardinality({h \in S : h <= i}) # 0
    BY <2>2, <2>3, FS_CardinalityType, FS_EmptySet
  <2> QED
    BY <2>2, <2>4, <1>1
<1>3. f \in [S -> 1 .. n]
  BY <1>2
<1>4. ASSUME NEW a \in S, NEW b \in S, a < b PROVE f[a] # f[b]
  <2>1. {h \in S : h <= a} \in SUBSET {h \in S : h <= b}
    <3>1. a \in Nat /\ b \in Nat /\ \A h \in S : h \in Nat
      OBVIOUS
    <3>2. \A h \in S : h <= a => h <= b
      BY <1>4, <3>1
    <3> QED
      BY <3>2
  <2>2. b \in {h \in S : h <= b} /\ b \notin {h \in S : h <= a}
    BY <1>4
  <2>3. Cardinality({h \in S : h <= a}) # Cardinality({h \in S : h <= b})
    BY <1>2, <2>1, <2>2, FS_Subset
  <2> QED
    BY <2>3
<1>5. IsInjective(f)
  <2>1. \A a, b \in S : a \in Nat /\ b \in Nat /\ (a # b => a < b \/ b < a)
    OBVIOUS
  <2> QED
    BY <1>4, <2>1 DEF IsInjective
<1>6. f \in Injection(S, 1 .. n)
  BY <1>3, <1>5 DEF Injection
<1>7. f \in Surjection(S, 1 .. n)
  BY <1>1, <1>6, FS_Injection
<1>8. PICK i \in S : f[i] = j
  BY <1>7 DEF Surjection
<1> QED
  BY <1>8


\* What a turn said to a machine is some of what it said, and no news of its own.
LEMMA SaidIs ==
  ASSUME NEW out, IsSeq(out), NEW p
  PROVE  /\ IsSeq(Said(out, p))
         /\ \A o \in Elems(Said(out, p)) : o \in Elems(out) /\ o.type # "Failed"
<1> DEFINE to == {i \in DOMAIN out : out[i].type # "Failed" /\ out[i].to = p}
           At(j) == CHOOSE i \in to : Cardinality({h \in to : h <= i}) = j
<1>1. /\ DOMAIN out = 1 .. Len(out) /\ Len(out) \in Nat
      /\ \A i \in 1 .. Len(out) : out[i] \in Elems(out)
  BY SeqIs
<1>2. to \in SUBSET Nat /\ to \in SUBSET (1 .. Len(out))
  BY <1>1
<1>3. IsFiniteSet(to)
  <2>1. IsFiniteSet(1 .. Len(out))
    BY <1>1, FS_Interval
  <2> HIDE DEF to
  <2> QED
    BY <1>2, <2>1, FS_Subset
<1>4. Cardinality(to) \in Nat
  BY <1>3, FS_CardinalityType
<1>5. ASSUME NEW j \in 1 .. Cardinality(to) PROVE At(j) \in to
  <2> HIDE DEF to
  <2>1. \E i \in to : Cardinality({h \in to : h <= i}) = j
    BY <1>2, <1>3, Ranks
  <2> QED
    BY <2>1
<1> DEFINE S == {out[i] : i \in to}
<1>6. \A j \in 1 .. Cardinality(to) : out[At(j)] \in S
  BY <1>5
<1>7. Said(out, p) = [j \in 1 .. Cardinality(to) |-> out[At(j)]]
  BY DEF Said
<1>8. Said(out, p) \in [1 .. Cardinality(to) -> S]
  <2> HIDE DEF to, At, S
  <2> QED
    BY <1>6, <1>7
<1>9. Said(out, p) \in Seq(S)
  <2> HIDE DEF to, S
  <2> QED
    BY <1>4, <1>8, SeqDef
<1>10. IsSeq(Said(out, p)) /\ Elems(Said(out, p)) \subseteq S
  BY <1>9, IsOne
<1>11. \A o \in S : o \in Elems(out) /\ o.type # "Failed"
  BY <1>1
<1> QED
  BY <1>10, <1>11

\* Of the places from i to the end, one is the first with something there.
LEMMA FirstIs ==
  ASSUME NEW said \in Seq(Nat), NEW i \in 1 .. Len(said) + 1
  PROVE  /\ FirstLong(said, i) \in i .. Len(said) + 1
         /\ \A m \in i .. FirstLong(said, i) - 1 : said[m] = 0
<1> PICK end : end = Len(said) + 1
  OBVIOUS
<1>1. /\ Len(said) \in Nat /\ end \in Nat \ {0} /\ i \in Nat /\ i <= end
      /\ \A m \in 1 .. Len(said) : said[m] \in Nat
  BY LenProperties, ElementOfSeq
<1> DEFINE S == {m \in i .. end : m = end \/ said[m] > 0}
<1>2. S \in SUBSET Nat /\ end \in S /\ S \in SUBSET (1 .. end)
  BY <1>1
<1>3. IsFiniteSet(S)
  <2>1. IsFiniteSet(1 .. end)
    BY <1>1, FS_Interval
  <2> HIDE DEF S
  <2> QED
    BY <1>2, <2>1, FS_Subset
<1>4. Cardinality(S) \in Nat /\ Cardinality(S) # 0
  <2> HIDE DEF S
  <2> QED
    BY <1>2, <1>3, FS_CardinalityType, FS_EmptySet
<1>5. PICK n \in S : Cardinality({h \in S : h <= n}) = 1
  <2> HIDE DEF S
  <2>1. 1 \in 1 .. Cardinality(S)
    BY <1>4
  <2> QED
    BY <1>2, <1>3, <2>1, Ranks
<1>6. \A m \in S : ~(m < n)
  <2> HIDE DEF S
  <2>1. {h \in S : h <= n} \in SUBSET S
    OBVIOUS
  <2>2. IsFiniteSet({h \in S : h <= n})
    BY <1>3, <2>1, FS_Subset
  <2>3. PICK x : {h \in S : h <= n} = {x}
    BY <1>5, <2>2, FS_Singleton
  <2> QED
    BY <1>2, <2>3
<1>7. /\ n \in i .. Len(said) + 1
      /\ \A m \in i .. n - 1 : said[m] = 0
      /\ n <= Len(said) => said[n] > 0
  <2>1. n \in i .. end /\ (n = end \/ said[n] > 0)
    BY <1>5
  <2>2. ASSUME NEW m \in i .. n - 1 PROVE said[m] = 0
    <3>1. m \in i .. end /\ m < n /\ m \in 1 .. Len(said)
      BY <1>1, <2>1
    <3>2. m \notin S
      BY <1>6, <3>1
    <3>3. ~(said[m] > 0) /\ said[m] \in Nat
      BY <1>1, <3>1, <3>2
    <3> QED
      BY <3>3
  <2> QED
    BY <1>1, <2>1, <2>2
<1> QED
  BY <1>7 DEF FirstLong

-----------------------------------------------------------------------------
(* What is said: requests, pieces and refusals, and every piece is of a    *)
(* copy that was announced under the name it is asked for by.              *)

\* A piece that answers k.
Good(k, data) ==
  data = <<>> \/ \E a \in announced : /\ a.id = k.id
                                    /\ data = <<<<a.copy, k.index, k.at + 1>>>>

Well(m) == /\ m.type \in {"FileRequest", "FileChunk", "FileAbort"}
           /\ m.type = "FileChunk" => Good(m.key, m.data)

\* What a Transfer gives to do: messages and news of its own, or one thing.
Messages(out) == \A o \in Elems(out) : o.type = "Failed" \/ Well(o)
Deed(o)       == o.type = "ReadFile" \/ (o.type = "Chunk" /\ Good(o.key, o.data))
Sound(out)    == IsSeq(out) /\ (Messages(out) \/ \E o : out = <<o>> /\ Deed(o))

\* A machine's Transfer is a record, and remembers finitely much.
IsTransfer(t) ==
  /\ t = [peers |-> t.peers, relays |-> t.relays, pulling |-> t.pulling,
          awaiting |-> t.awaiting]
  /\ IsFiniteSet(DOMAIN t.relays) /\ IsFiniteSet(DOMAIN t.pulling)

Turned(r) == IsTransfer(r.t) /\ Sound(r.out)

\* A Transfer with some of it changed.
LEMMA ChangedIs ==
  ASSUME NEW t, IsTransfer(t), NEW p, NEW r, NEW u, NEW w,
         IsFiniteSet(DOMAIN r), IsFiniteSet(DOMAIN u)
  PROVE  /\ IsTransfer([t EXCEPT !.peers = p])
         /\ IsTransfer([t EXCEPT !.relays = r])
         /\ IsTransfer([t EXCEPT !.awaiting = w])
         /\ IsTransfer([t EXCEPT !.pulling = u, !.awaiting = w])
         /\ IsTransfer([t EXCEPT !.peers = p, !.relays = r])
<1> PICK P : P = {p, t.peers}
  OBVIOUS
<1> PICK R : R = {r, t.relays}
  OBVIOUS
<1> PICK U : U = {u, t.pulling}
  OBVIOUS
<1> PICK W : W = {w, t.awaiting}
  OBVIOUS
<1>1. t \in [peers : P, relays : R, pulling : U, awaiting : W]
  BY DEF IsTransfer
<1>2. p \in P /\ r \in R /\ u \in U /\ w \in W
  OBVIOUS
<1>3. \A x \in R \cup U : IsFiniteSet(DOMAIN x)
  BY DEF IsTransfer
<1>4. ASSUME NEW q \in [peers : P, relays : R, pulling : U, awaiting : W]
      PROVE  IsTransfer(q)
  BY <1>3 DEF IsTransfer
<1>5. [t EXCEPT !.peers = p] \in [peers : P, relays : R, pulling : U, awaiting : W]
  BY <1>1, <1>2
<1>6. [t EXCEPT !.relays = r] \in [peers : P, relays : R, pulling : U, awaiting : W]
  BY <1>1, <1>2
<1>7. [t EXCEPT !.awaiting = w] \in [peers : P, relays : R, pulling : U, awaiting : W]
  BY <1>1, <1>2
<1>8. [t EXCEPT !.pulling = u, !.awaiting = w]
        \in [peers : P, relays : R, pulling : U, awaiting : W]
  BY <1>1, <1>2
<1>9. [t EXCEPT !.peers = p, !.relays = r]
        \in [peers : P, relays : R, pulling : U, awaiting : W]
  BY <1>1, <1>2
<1>10. IsTransfer([t EXCEPT !.peers = p]) /\ IsTransfer([t EXCEPT !.relays = r])
  BY <1>4, <1>5, <1>6
<1>11. IsTransfer([t EXCEPT !.awaiting = w])
  BY <1>4, <1>7
<1>12. IsTransfer([t EXCEPT !.pulling = u, !.awaiting = w])
  BY <1>4, <1>8
<1>13. IsTransfer([t EXCEPT !.peers = p, !.relays = r])
  BY <1>4, <1>9
<1> QED
  BY <1>10, <1>11, <1>12, <1>13

\* Forgetting and noting keep it finite.
LEMMA KeptFinite ==
  ASSUME NEW f, IsFiniteSet(DOMAIN f)
  PROVE  /\ \A ks : IsFiniteSet(DOMAIN Without(f, ks))
         /\ \A k, v : IsFiniteSet(DOMAIN With(f, k, v))
<1>1. ASSUME NEW ks PROVE IsFiniteSet(DOMAIN Without(f, ks))
  <2>1. DOMAIN Without(f, ks) \in SUBSET DOMAIN f
    BY DEF Without, Restrict
  <2> QED
    BY <2>1, FS_Subset
<1>2. ASSUME NEW k, NEW v PROVE IsFiniteSet(DOMAIN With(f, k, v))
  <2>1. DOMAIN With(f, k, v) = DOMAIN f \cup {k}
    BY DEF With
  <2> QED
    BY <2>1, FS_AddElement
<1> QED
  BY <1>1, <1>2

LEMMA DroppedIs ==
  ASSUME NEW t, IsTransfer(t), NEW ids
  PROVE  IsTransfer(Dropped(t, ids))
<1> PICK u : u = Without(t.pulling, ids)
  OBVIOUS
<1> PICK w : w = {k \in t.awaiting : k.id \notin ids}
  OBVIOUS
<1>1. IsFiniteSet(DOMAIN u) /\ IsFiniteSet(DOMAIN t.relays)
  BY KeptFinite DEF IsTransfer
<1>2. Dropped(t, ids) = [t EXCEPT !.pulling = u, !.awaiting = w]
  BY DEF Dropped
<1>3. IsTransfer([t EXCEPT !.pulling = u, !.awaiting = w])
  BY <1>1, ChangedIs
<1> QED
  BY <1>2, <1>3

\* One message is something to say; one deed is something to do.
LEMMA OneSound ==
  ASSUME NEW o, o.type = "Failed" \/ Well(o) \/ Deed(o)
  PROVE  Sound(<<o>>)
<1>1. IsSeq(<<o>>) /\ Elems(<<o>>) = {o}
  BY FewIs
<1> QED
  BY <1>1 DEF Sound, Messages

LEMMA NoneSound == Sound(<<>>)
BY FewIs DEF Sound, Messages

LEMMA Plain ==
  /\ \A to, k : Well(Request(to, k))
  /\ \A to, id : Well(Abort(to, id))
  /\ \A id : Failed(id).type = "Failed"
  /\ \A to, k : Deed(ReadFile(to, k))
  /\ \A to, k, d, end : Good(k, d) => Well(Chunk(to, k, d, end))
  /\ \A k, d, end : Good(k, d) => Deed(Arrived(k, d, end))
BY DEF Well, Deed, Request, Abort, Failed, ReadFile, Chunk, Arrived

\* Several messages of a finite number of transfers.
LEMMA ManySound ==
  ASSUME NEW S, NEW T, IsFiniteSet(S), IsFiniteSet(T),
         \A o \in S \cup T : o.type = "Failed" \/ Well(o)
  PROVE  Sound(SetToSeq(S) \o SetToSeq(T)) /\ Sound(SetToSeq(S) \o <<>>)
<1>1. /\ IsSeq(SetToSeq(S)) /\ Elems(SetToSeq(S)) \subseteq S
      /\ IsSeq(SetToSeq(T)) /\ Elems(SetToSeq(T)) \subseteq T
      /\ IsSeq(<<>>) /\ Elems(<<>>) = {}
  BY ListedIs, FewIs
<1> PICK a, b : a = SetToSeq(S) /\ b = SetToSeq(T)
  OBVIOUS
<1>2. /\ IsSeq(a \o b) /\ Elems(a \o b) \subseteq S \cup T
      /\ IsSeq(a \o <<>>) /\ Elems(a \o <<>>) \subseteq S
  BY <1>1, JoinedIs
<1> QED
  BY <1>2 DEF Sound, Messages

-----------------------------------------------------------------------------
(* What each operation of a Transfer gives.                                *)

LEMMA DoneIs ==
  ASSUME NEW t, NEW out
  PROVE  /\ Done(t, out).t = t /\ Done(t, out).out = out
         /\ IsTransfer(t) /\ Sound(out) => Turned(Done(t, out))
BY DEF Done, Turned

LEMMA PeerUpIs == ASSUME NEW t, IsTransfer(t), NEW p PROVE IsTransfer(PeerUp(t, p))
<1> PICK ps : ps = t.peers \cup {p}
  OBVIOUS
<1>1. PeerUp(t, p) = [t EXCEPT !.peers = ps]
  BY DEF PeerUp
<1>2. IsFiniteSet(DOMAIN t.relays) /\ IsFiniteSet(DOMAIN t.pulling)
  BY DEF IsTransfer
<1>3. IsTransfer([t EXCEPT !.peers = ps])
  BY <1>2, ChangedIs
<1> QED
  BY <1>1, <1>3

\* A pull asks, or finds nobody to ask: it says one thing.
LEMMA PullIs ==
  ASSUME NEW me, NEW t, IsTransfer(t), NEW k
  PROVE  /\ IsTransfer(Pull(me, t, k).t)
         /\ IsSeq(Pull(me, t, k).out) /\ Messages(Pull(me, t, k).out)
<1> PICK source : source = CHOOSE s \in SourceOf(me, t, k.id) : TRUE
  OBVIOUS
<1> PICK u : u = With(t.pulling, k.id, source)
  OBVIOUS
<1> PICK w : w = t.awaiting \cup {k}
  OBVIOUS
<1> DEFINE on == [t EXCEPT !.pulling = u, !.awaiting = w]
<1>1. Pull(me, t, k) = Done(t, <<Failed(k.id)>>)
      \/ Pull(me, t, k) = Done(on, <<Request(source, k)>>)
  BY DEF Pull
<1>2. IsTransfer(on)
  <2>1. IsFiniteSet(DOMAIN u) /\ IsFiniteSet(DOMAIN t.relays)
    BY KeptFinite DEF IsTransfer
  <2> QED
    BY <2>1, ChangedIs
<1>3. ASSUME NEW o, o.type = "Failed" \/ Well(o) PROVE IsSeq(<<o>>) /\ Messages(<<o>>)
  <2>1. IsSeq(<<o>>) /\ Elems(<<o>>) = {o}
    BY FewIs
  <2> QED
    BY <1>3, <2>1 DEF Messages
<1>4. /\ IsSeq(<<Failed(k.id)>>) /\ Messages(<<Failed(k.id)>>)
      /\ IsSeq(<<Request(source, k)>>) /\ Messages(<<Request(source, k)>>)
  BY <1>3, Plain
<1> HIDE DEF on
<1> QED
  BY <1>1, <1>2, <1>4, DoneIs

LEMMA RequestArrivedIs ==
  ASSUME NEW me, NEW t, IsTransfer(t), NEW p, NEW k
  PROVE  Turned(RequestArrived(me, t, p, k))
<1> PICK source : source = CHOOSE s \in SourceOf(me, t, k.id) \ {p} : TRUE
  OBVIOUS
<1> PICK r : r = With(t.relays, k, p)
  OBVIOUS
<1>1. \/ RequestArrived(me, t, p, k) = Done(t, <<ReadFile(p, k)>>)
      \/ RequestArrived(me, t, p, k) = Done([t EXCEPT !.relays = r], <<Request(source, k)>>)
      \/ RequestArrived(me, t, p, k) = Done(t, <<Abort(p, k.id)>>)
  BY DEF RequestArrived
<1>2. IsTransfer([t EXCEPT !.relays = r])
  <2>1. IsFiniteSet(DOMAIN r) /\ IsFiniteSet(DOMAIN t.relays)
    BY KeptFinite DEF IsTransfer
  <2> QED
    BY <2>1, ChangedIs
<1>3. /\ Sound(<<ReadFile(p, k)>>) /\ Sound(<<Request(source, k)>>)
      /\ Sound(<<Abort(p, k.id)>>)
  BY Plain, OneSound
<1> QED
  BY <1>1, <1>2, <1>3, DoneIs

LEMMA ChunkArrivedIs ==
  ASSUME NEW t, IsTransfer(t), NEW p, NEW k, NEW data, NEW last, Good(k, data)
  PROVE  Turned(ChunkArrived(t, p, k, data, last))
<1> PICK r : r = Without(t.relays, {k})
  OBVIOUS
<1> PICK w : w = t.awaiting \ {k}
  OBVIOUS
<1> PICK asker : asker = t.relays[k]
  OBVIOUS
<1>1. \/ ChunkArrived(t, p, k, data, last)
           = Done([t EXCEPT !.relays = r], <<Chunk(asker, k, data, last)>>)
      \/ ChunkArrived(t, p, k, data, last)
           = Done([t EXCEPT !.awaiting = w], <<Arrived(k, data, last)>>)
      \/ ChunkArrived(t, p, k, data, last) = Done(t, <<>>)
  BY DEF ChunkArrived
<1>2. IsTransfer([t EXCEPT !.relays = r]) /\ IsTransfer([t EXCEPT !.awaiting = w])
  <2>1. IsFiniteSet(DOMAIN r) /\ IsFiniteSet(DOMAIN t.relays)
    BY KeptFinite DEF IsTransfer
  <2> QED
    BY <2>1, ChangedIs
<1>3. Sound(<<Chunk(asker, k, data, last)>>) /\ Sound(<<Arrived(k, data, last)>>)
  BY Plain, OneSound
<1> QED
  BY <1>1, <1>2, <1>3, NoneSound, DoneIs

LEMMA AbortArrivedIs ==
  ASSUME NEW t, IsTransfer(t), NEW p, NEW id
  PROVE  Turned(AbortArrived(t, p, id))
<1> PICK ks : ks = {k \in DOMAIN t.relays : k.id = id}
  OBVIOUS
<1> PICK r : r = Without(t.relays, ks)
  OBVIOUS
<1> PICK S : S = {Abort(t.relays[k], id) : k \in ks}
  OBVIOUS
<1>1. \/ AbortArrived(t, p, id) = Done(Dropped([t EXCEPT !.relays = r], {id}),
                                       SetToSeq(S) \o <<Failed(id)>>)
      \/ AbortArrived(t, p, id) = Done([t EXCEPT !.relays = r], SetToSeq(S) \o <<>>)
  BY DEF AbortArrived
<1>2. /\ IsTransfer([t EXCEPT !.relays = r])
      /\ IsTransfer(Dropped([t EXCEPT !.relays = r], {id}))
  <2>1. IsFiniteSet(DOMAIN r) /\ IsFiniteSet(DOMAIN t.relays)
    BY KeptFinite DEF IsTransfer
  <2>2. IsTransfer([t EXCEPT !.relays = r])
    BY <2>1, ChangedIs
  <2> QED
    BY <2>2, DroppedIs
<1>3. IsFiniteSet(S) /\ \A o \in S : o.type = "Failed" \/ Well(o)
  <2>1. IsFiniteSet(ks)
    BY FS_Subset DEF IsTransfer
  <2> PICK g : g = [k \in ks |-> Abort(t.relays[k], id)]
    OBVIOUS
  <2>2. {g[k] : k \in ks} = S
    OBVIOUS
  <2>3. IsFiniteSet({g[k] : k \in ks})
    BY <2>1, ImageFinite
  <2>4. ASSUME NEW o \in S PROVE Well(o)
    <3>1. PICK k \in ks : o = Abort(t.relays[k], id)
      OBVIOUS
    <3> QED
      BY <3>1, Plain
  <2>5. IsFiniteSet(S)
    BY <2>2, <2>3
  <2> QED
    BY <2>4, <2>5
<1>4. Sound(SetToSeq(S) \o <<Failed(id)>>) /\ Sound(SetToSeq(S) \o <<>>)
  <2>1. /\ IsSeq(SetToSeq(S)) /\ Elems(SetToSeq(S)) \subseteq S
        /\ IsSeq(<<Failed(id)>>) /\ Elems(<<Failed(id)>>) = {Failed(id)}
        /\ IsSeq(<<>>) /\ Elems(<<>>) = {}
    BY <1>3, ListedIs, FewIs
  <2> PICK a, b, e : a = SetToSeq(S) /\ b = <<Failed(id)>> /\ e = <<>>
    OBVIOUS
  <2>2. /\ IsSeq(a \o b) /\ Elems(a \o b) \subseteq S \cup {Failed(id)}
        /\ IsSeq(a \o e) /\ Elems(a \o e) \subseteq S
    BY <2>1, JoinedIs
  <2> QED
    BY <1>3, <2>2, Plain DEF Sound, Messages
<1> QED
  BY <1>1, <1>2, <1>4, DoneIs

LEMMA PeerGoneIs ==
  ASSUME NEW t, IsTransfer(t), NEW p
  PROVE  Turned(PeerGone(t, p))
<1> PICK ks : ks = {k \in DOMAIN t.relays : k.id.device = p}
  OBVIOUS
<1> PICK lost : lost = {id \in DOMAIN t.pulling : t.pulling[id] = p}
  OBVIOUS
<1> PICK r : r = Without(t.relays, {k \in DOMAIN t.relays : k.id.device = p \/ t.relays[k] = p})
  OBVIOUS
<1> PICK ps : ps = t.peers \ {p}
  OBVIOUS
<1> PICK S : S = {Abort(t.relays[k], k.id) : k \in ks}
  OBVIOUS
<1> PICK T : T = {Failed(id) : id \in lost}
  OBVIOUS
<1> PICK rest : rest = [t EXCEPT !.peers = ps, !.relays = r]
  OBVIOUS
<1>1. PeerGone(t, p) = Done(Dropped(rest, lost), SetToSeq(S) \o SetToSeq(T))
  BY DEF PeerGone
<1>2. IsTransfer(Dropped(rest, lost))
  <2>1. IsFiniteSet(DOMAIN r) /\ IsFiniteSet(DOMAIN t.relays)
    BY KeptFinite DEF IsTransfer
  <2>2. IsTransfer([t EXCEPT !.peers = ps, !.relays = r])
    BY <2>1, ChangedIs
  <2> QED
    BY <2>2, DroppedIs
<1>3. IsFiniteSet(S) /\ \A o \in S : o.type = "Failed" \/ Well(o)
  <2>1. IsFiniteSet(ks)
    BY FS_Subset DEF IsTransfer
  <2> PICK g : g = [k \in ks |-> Abort(t.relays[k], k.id)]
    OBVIOUS
  <2>2. {g[k] : k \in ks} = S
    OBVIOUS
  <2>3. IsFiniteSet({g[k] : k \in ks})
    BY <2>1, ImageFinite
  <2>4. ASSUME NEW o \in S PROVE Well(o)
    <3>1. PICK k \in ks : o = Abort(t.relays[k], k.id)
      OBVIOUS
    <3> QED
      BY <3>1, Plain
  <2>5. IsFiniteSet(S)
    BY <2>2, <2>3
  <2> QED
    BY <2>4, <2>5
<1>4. IsFiniteSet(T) /\ \A o \in T : o.type = "Failed" \/ Well(o)
  <2>1. IsFiniteSet(lost)
    BY FS_Subset DEF IsTransfer
  <2> PICK g : g = [id \in lost |-> Failed(id)]
    OBVIOUS
  <2>2. {g[id] : id \in lost} = T
    OBVIOUS
  <2>3. IsFiniteSet({g[id] : id \in lost})
    BY <2>1, ImageFinite
  <2> QED
    BY <2>2, <2>3, Plain
<1>5. Sound(SetToSeq(S) \o SetToSeq(T))
  BY <1>3, <1>4, ManySound
<1> QED
  BY <1>1, <1>2, <1>5, DoneIs

LEMMA PeerSaidIs ==
  ASSUME NEW me, NEW t, IsTransfer(t), NEW p, NEW m, Well(m)
  PROVE  Turned(PeerSaid(me, t, p, m))
<1>1. CASE m.type = "FileRequest"
  <2>1. PeerSaid(me, t, p, m) = RequestArrived(me, t, p, m.key)
    BY <1>1 DEF PeerSaid
  <2> QED
    BY <2>1, RequestArrivedIs
<1>2. CASE m.type = "FileChunk"
  <2>1. PeerSaid(me, t, p, m) = ChunkArrived(t, p, m.key, m.data, m.last)
    BY <1>2 DEF PeerSaid
  <2> QED
    BY <1>2, <2>1, ChunkArrivedIs DEF Well
<1>3. CASE m.type = "FileAbort"
  <2>1. PeerSaid(me, t, p, m) = AbortArrived(t, p, m.id)
    BY <1>3 DEF PeerSaid
  <2> QED
    BY <2>1, AbortArrivedIs
<1> QED
  BY <1>1, <1>2, <1>3 DEF Well

-----------------------------------------------------------------------------
(* The invariant.                                                          *)

OnDevices(f) == f = [d \in Devices |-> f[d]]

\* A name that stands for one copy.  A client that was restarted may give it again.
OneCopy(id) == \A a, b \in announced : a.id = id /\ b.id = id => a.copy = b.copy

Naming ==
  /\ announced \in SUBSET [id : Ids, copy : DOMAIN Copies] /\ IsFiniteSet(announced)
  /\ counter \in [Devices -> Nat]
  /\ OnDevices(offered)
  /\ \A d \in Devices : IsSeq(offered[d]) /\ Elems(offered[d]) \subseteq announced
  /\ pasted \in Seq([at : Devices, id : Ids, copy : DOMAIN Copies])
  /\ \A n \in DOMAIN pasted :
       \E a \in announced : a.id = pasted[n].id /\ a.copy = pasted[n].copy

\* What the machines remember and what is on the links.
Mailed(u) ==
  /\ u = [c \in Clients |-> u[c]]
  /\ \A c \in Clients : IsSeq(u[c]) /\ \A m \in Elems(u[c]) : Well(m)

Carrying == /\ OnDevices(tr) /\ \A d \in Devices : IsTransfer(tr[d])
            /\ Mailed(up) /\ Mailed(downward)

\* What is on a disk is of pastes.
Places == (DOMAIN pasted) \X Nat

OnDisk(dsk) == /\ dsk = [x \in DOMAIN dsk |-> dsk[x]]
               /\ \A x \in DOMAIN dsk : x \in Places /\ IsSeq(dsk[x])

\* Paste n is machine d's, of transfer id, and has not been told it landed.
Open(d, n, id) ==
  /\ n \in DOMAIN pasted /\ pasted[n].at = d /\ pasted[n].id = id
  /\ n \in DOMAIN answers => answers[n] # "landed"

\* The first pieces of a file.
Portion(n, i, l) == [j \in 1 .. l |-> <<n, i, j>>]

\* The files of paste n are on this disk, up to the k-th.
Upto(dsk, n, k) ==
  OneCopy(pasted[n].id) =>
    \A i \in 1 .. k : <<n, i>> \in DOMAIN dsk /\ dsk[<<n, i>>] = Whole(pasted[n].copy, i)

\* As long as it was said to be.
Long(dsk, x) == Len(dsk[x]) = Copies[pasted[x[1]].copy][x[2]]

\* Nothing of paste n is cut short on this disk, but what is in S.
Clean(dsk, n, S) ==
  \A x \in DOMAIN dsk \ S : x[1] = n => Long(dsk, x) \/ x \in orphans

\* inc is a pull of machine d's.
PullOf(d, inc) == /\ inc \in Incoming /\ Open(d, inc.ticket, inc.id)
                  /\ inc.said = Copies[pasted[inc.ticket].copy]

\* It is writing a file, with this on the disk: what came before it is there.
Writes(d, inc, dsk) ==
  /\ PullOf(d, inc) /\ inc.writing /\ inc.index \in 1 .. Len(inc.said)
  /\ Slot(inc) \in DOMAIN dsk
  /\ Upto(dsk, inc.ticket, inc.index - 1)
  /\ OneCopy(inc.id) =>
       dsk[Slot(inc)] = Portion(pasted[inc.ticket].copy, inc.index, Len(dsk[Slot(inc)]))

Writing(d) == incoming[d] # None => Writes(d, incoming[d], disk)

Queued(d) ==
  /\ IsSeq(pulls[d])
  /\ \A p \in Elems(pulls[d]) :
       /\ Open(d, p.ticket, p.id) /\ p.copy = pasted[p.ticket].copy
       /\ incoming[d] # None => incoming[d].ticket # p.ticket
  /\ \A i, j \in DOMAIN pulls[d] : i # j => pulls[d][i].ticket # pulls[d][j].ticket

Holding ==
  /\ OnDevices(incoming) /\ OnDevices(pulls)
  /\ answers = [n \in DOMAIN answers |-> answers[n]] /\ DOMAIN answers \subseteq DOMAIN pasted
  /\ OnDisk(disk)
  /\ \A d \in Devices : Queued(d) /\ Writing(d)
  /\ \A n \in DOMAIN answers :
       answers[n] = "landed" => Upto(disk, n, Len(Copies[pasted[n].copy]))
  /\ NoHalfFiles

Sharings == Naming /\ Carrying /\ Holding

-----------------------------------------------------------------------------
(* What a turn says, and what it does to the pull of one paste.            *)

Speaks(d, q) ==
  \E t, out : IsTransfer(t) /\ IsSeq(out) /\ Messages(out) /\ Ends(d, t, out, q)

\* Of no paste but n is anything else on this disk.
Apart(n, dsk) ==
  \A x \in Places : x[1] # n =>
    /\ x \in DOMAIN dsk <=> x \in DOMAIN disk
    /\ x \in DOMAIN disk => dsk[x] = disk[x]

Turn(d, n) ==
  /\ incoming' = [incoming EXCEPT ![d] = incoming'[d]]
  /\ answers' = [k \in DOMAIN answers' |-> answers'[k]]
  /\ DOMAIN answers \subseteq DOMAIN answers' /\ DOMAIN answers' \subseteq DOMAIN answers \cup {n}
  /\ \A k \in DOMAIN answers : answers'[k] = answers[k]
  /\ OnDisk(disk') /\ Apart(n, disk')
  /\ Writing(d)' /\ (incoming'[d] # None => incoming'[d].ticket = n)
  /\ n \in DOMAIN answers' /\ answers'[n] = "landed" =>
       incoming'[d] = None /\ Upto(disk', n, Len(Copies[pasted[n].copy]))
  /\ Clean(disk', n, IF incoming'[d] # None THEN {Slot(incoming'[d])} ELSE {})

-----------------------------------------------------------------------------
(* What a turn says stays sound.                                           *)

LEMMA EndsKeep ==
  ASSUME Carrying, UNCHANGED announced, NEW d \in Devices, NEW q,
         Mailed(q.up), Mailed(q.down), Speaks(d, q)
  PROVE  Carrying'
<1> PICK t, out : IsTransfer(t) /\ IsSeq(out) /\ Messages(out) /\ Ends(d, t, out, q)
  BY DEF Speaks
<1> PICK qu, qd : qu = q.up /\ qd = q.down
  OBVIOUS
<1>1. \A p : IsSeq(Said(out, p)) /\ \A o \in Elems(Said(out, p)) : Well(o)
  BY SaidIs DEF Messages
<1>2. ASSUME NEW u, IsSeq(u), \A m \in Elems(u) : Well(m), NEW p
      PROVE  IsSeq(u \o Said(out, p)) /\ \A m \in Elems(u \o Said(out, p)) : Well(m)
  <2> PICK v : v = Said(out, p)
    OBVIOUS
  <2>1. IsSeq(v) /\ \A o \in Elems(v) : Well(o)
    BY <1>1
  <2>2. IsSeq(u \o v) /\ Elems(u \o v) \subseteq Elems(u) \cup Elems(v)
    BY <1>2, <2>1, JoinedIs
  <2> QED
    BY <1>2, <2>1, <2>2
<1>3. /\ tr' = [tr EXCEPT ![d] = t]
      /\ up' = IF d \in Clients /\ link[d] # "cut"
                  THEN [qu EXCEPT ![d] = @ \o Said(out, Hub)] ELSE qu
      /\ downward' = [c \in Clients |->
           IF d = Hub /\ link[c] = "open" /\ c \in tr'[Hub].peers
             THEN qd[c] \o Said(out, c) ELSE qd[c]]
  BY DEF Ends
<1>4. OnDevices(tr') /\ \A e \in Devices : IsTransfer(tr'[e])
  BY <1>3 DEF Carrying, OnDevices
<1>5. up' = [c \in Clients |-> up'[c]]
  BY <1>3 DEF Mailed
<1>6. ASSUME NEW c \in Clients PROVE IsSeq(up'[c]) /\ \A m \in Elems(up'[c]) : Well(m)
  <2>1. IsSeq(qu[c]) /\ \A m \in Elems(qu[c]) : Well(m)
    BY DEF Mailed
  <2>2. up'[c] = qu[c] \/ up'[c] = qu[c] \o Said(out, Hub)
    BY <1>3 DEF Mailed
  <2> QED
    BY <1>2, <2>1, <2>2
<1>7. downward' = [c \in Clients |-> downward'[c]]
  BY <1>3
<1>8. ASSUME NEW c \in Clients
      PROVE  IsSeq(downward'[c]) /\ \A m \in Elems(downward'[c]) : Well(m)
  <2>1. IsSeq(qd[c]) /\ \A m \in Elems(qd[c]) : Well(m)
    BY DEF Mailed
  <2>2. downward'[c] = qd[c] \/ downward'[c] = qd[c] \o Said(out, c)
    BY <1>3
  <2> QED
    BY <1>2, <2>1, <2>2
<1>9. \A m : Well(m)' <=> Well(m)
  BY DEF Well, Good
<1> QED
  BY <1>4, <1>5, <1>6, <1>7, <1>8, <1>9 DEF Carrying, Mailed, OnDevices, IsTransfer

\* Messages that are said: a refusal of nothing, or what a Transfer gave.
LEMMA SpeaksOf ==
  ASSUME NEW d, NEW t, NEW out, NEW q, IsTransfer(t), IsSeq(out), Messages(out),
         Ends(d, t, out, q)
  PROVE  Speaks(d, q)
BY DEF Speaks

LEMMA SilenceIs == IsSeq(<<>>) /\ Messages(<<>>)
BY FewIs DEF Messages

-----------------------------------------------------------------------------
(* What a pull does to its own paste, and to no other.                     *)

Still == UNCHANGED <<announced, pasted, orphans>>

\* A disk other than this one's, on which only inc's files are different.
Amid(d, inc, dsk) ==
  /\ PullOf(d, inc) /\ OnDisk(dsk) /\ Apart(inc.ticket, dsk)

LEMMA IncomingIs ==
  ASSUME NEW inc \in Incoming
  PROVE  /\ inc # None /\ inc.ticket \in Nat /\ inc.said \in Seq(Nat) /\ inc.index \in Nat
         /\ Slot(inc) = <<inc.ticket, inc.index>>
         /\ Slot(inc)[1] = inc.ticket /\ Slot(inc)[2] = inc.index
BY NoneAssumption DEF Incoming, Slot

\* A pull that goes on leaves the files before the one it writes.
LEMMA GoesTurns ==
  ASSUME Holding, Still, NEW d \in Devices, NEW t, NEW inc, NEW dsk, NEW out, NEW q,
         Goes(d, t, inc, dsk, out, q), Amid(d, inc, dsk), Writes(d, inc, dsk),
         Clean(dsk, inc.ticket, {Slot(inc)})
  PROVE  Turn(d, inc.ticket)
<1>1. incoming' = [incoming EXCEPT ![d] = inc] /\ disk' = dsk /\ answers' = answers
  BY DEF Goes
<1>2. incoming'[d] = inc /\ inc # None
  BY <1>1, IncomingIs DEF Holding, OnDevices, Amid, PullOf
<1>3. Writing(d)'
  <2>1. Writes(d, inc, disk)'
    BY <1>1 DEF Still, Writes, PullOf, Open, Upto, OneCopy
  <2> QED
    BY <1>2, <2>1 DEF Writing
<1>4. OnDisk(disk') /\ Apart(inc.ticket, disk') /\ Clean(disk', inc.ticket, {Slot(inc)})
  BY <1>1 DEF Amid
<1>5. inc.ticket \in DOMAIN answers => answers[inc.ticket] # "landed"
  BY DEF Amid, PullOf, Open
<1> QED
  BY <1>1, <1>2, <1>3, <1>4, <1>5 DEF Turn, Holding

\* A pull that is over leaves what is whole, and all of it if it says so.
LEMMA FinishTurns ==
  ASSUME Holding, Still, NEW d \in Devices, NEW t, NEW inc, NEW dsk, NEW out, NEW q,
         NEW result, Finish(d, t, inc, dsk, result, out, q), Amid(d, inc, dsk),
         Clean(dsk, inc.ticket, IF inc.writing THEN {Slot(inc)} ELSE {}),
         result = "landed" => /\ ~inc.writing
                              /\ Upto(dsk, inc.ticket, Len(inc.said))
  PROVE  Turn(d, inc.ticket)
<1> PICK n : n = inc.ticket
  OBVIOUS
<1>1. /\ incoming' = [incoming EXCEPT ![d] = None]
      /\ disk' = IF inc.writing THEN Without(dsk, {Slot(inc)}) ELSE dsk
      /\ answers' = IF n \in DOMAIN answers THEN answers ELSE With(answers, n, result)
  BY DEF Finish, Told
<1>2. incoming'[d] = None
  BY <1>1 DEF Holding, OnDevices
<1>3. /\ answers' = [k \in DOMAIN answers' |-> answers'[k]]
      /\ DOMAIN answers \subseteq DOMAIN answers' /\ DOMAIN answers' \subseteq DOMAIN answers \cup {n}
      /\ \A k \in DOMAIN answers : answers'[k] = answers[k]
      /\ n \in DOMAIN answers' /\ n \notin DOMAIN answers => answers'[n] = result
  <2>1. CASE n \in DOMAIN answers
    BY <1>1, <2>1 DEF Holding
  <2>2. CASE n \notin DOMAIN answers
    BY <1>1, <2>2 DEF With
  <2> QED
    BY <2>1, <2>2
<1>4. /\ DOMAIN disk' = DOMAIN dsk \ (IF inc.writing THEN {Slot(inc)} ELSE {})
      /\ disk' = [x \in DOMAIN disk' |-> disk'[x]]
      /\ \A x \in DOMAIN disk' : disk'[x] = dsk[x]
  BY <1>1 DEF Without, Restrict, Amid, OnDisk
<1>5. OnDisk(disk')
  BY <1>4 DEF Amid, OnDisk
<1>6. Apart(n, disk')
  <2>1. Slot(inc)[1] = n
    BY IncomingIs DEF Amid, PullOf
  <2> QED
    BY <1>4, <2>1 DEF Amid, Apart
<1>7. Clean(disk', n, {})
  BY <1>4 DEF Clean, Long
<1>8. n \in DOMAIN answers' /\ answers'[n] = "landed" => Upto(disk', n, Len(Copies[pasted[n].copy]))
  <2> SUFFICES ASSUME n \in DOMAIN answers', answers'[n] = "landed"
               PROVE  Upto(disk', n, Len(Copies[pasted[n].copy]))
    OBVIOUS
  <2>1. n \notin DOMAIN answers
    BY <1>3 DEF Amid, PullOf, Open
  <2>2. result = "landed"
    BY <1>3, <2>1
  <2> QED
    BY <1>1, <2>2 DEF Amid, PullOf
<1> QED
  BY <1>1, <1>2, <1>3, <1>5, <1>6, <1>7, <1>8 DEF Turn, Writing

LEMMA FailTurns ==
  ASSUME Holding, Still, NEW d \in Devices, NEW t, IsTransfer(t), NEW inc, NEW dsk, NEW q,
         Fail(d, t, inc, dsk, q), Amid(d, inc, dsk),
         Clean(dsk, inc.ticket, IF inc.writing THEN {Slot(inc)} ELSE {})
  PROVE  Turn(d, inc.ticket) /\ Speaks(d, q)
<1> PICK u : u = Dropped(t, {inc.id})
  OBVIOUS
<1>1. Finish(d, u, inc, dsk, "failed", <<>>, q)
  BY DEF Fail
<1>2. Turn(d, inc.ticket)
  BY <1>1, FinishTurns
<1>3. Speaks(d, q)
  BY <1>1, DroppedIs, SilenceIs, SpeaksOf DEF Finish
<1> QED
  BY <1>2, <1>3

LEMMA WantTurns ==
  ASSUME Holding, Still, NEW d \in Devices, NEW t, IsTransfer(t), NEW inc, NEW dsk, NEW q,
         NEW at, Want(d, t, inc, dsk, at, q), Amid(d, inc, dsk), Writes(d, inc, dsk),
         Clean(dsk, inc.ticket, {Slot(inc)})
  PROVE  Turn(d, inc.ticket) /\ Speaks(d, q)
<1> PICK r : r = Pull(d, t, Piece(inc.id, inc.index, at))
  OBVIOUS
<1>1. IsTransfer(r.t) /\ IsSeq(r.out) /\ Messages(r.out)
  BY PullIs
<1>2. CASE Goes(d, r.t, inc, dsk, r.out, q)
  <2>1. Turn(d, inc.ticket)
    BY <1>2, GoesTurns
  <2>2. Speaks(d, q)
    BY <1>1, <1>2, SpeaksOf DEF Goes
  <2> QED
    BY <2>1, <2>2
<1>3. CASE Finish(d, r.t, inc, dsk, "failed", <<>>, q)
  <2>1. inc.writing
    BY DEF Writes
  <2>2. Turn(d, inc.ticket)
    BY <1>3, <2>1, FinishTurns
  <2>3. Speaks(d, q)
    BY <1>1, <1>3, SilenceIs, SpeaksOf DEF Finish
  <2> QED
    BY <2>2, <2>3
<1> QED
  BY <1>2, <1>3 DEF Want

\* A file of no pieces is whole as soon as it is made, and so are no pieces of any.
LEMMA NoPieces ==
  /\ IsSeq(<<>>) /\ Len(<<>>) = 0
  /\ \A n, i : Portion(n, i, 0) = <<>>
  /\ \A n, i : Copies[n][i] = 0 => Whole(n, i) = <<>>
<1>1. \A n, i : [j \in 1 .. 0 |-> <<n, i, j>>] = <<>>
  OBVIOUS
<1> QED
  BY <1>1, FewIs DEF Portion, Whole

\* The files made from the i-th on, and a disk with them on it.
Begun(inc, i) ==
  {<<inc.ticket, m>> : m \in i .. Min({FirstLong(inc.said, i), Len(inc.said)})}
WithMade(dsk, made) ==
  [x \in DOMAIN dsk \cup made |-> IF x \in made THEN <<>> ELSE dsk[x]]

\* What is on the disk once they are made: nothing is amiss but the next file, if
\* there is one.
Prepared(d, inc, n, made, now) ==
  /\ Amid(d, inc, now)
  /\ Upto(now, inc.ticket, n - 1)
  /\ \A x \in made : x \in DOMAIN now /\ now[x] = <<>>
  /\ n > Len(inc.said) => n = Len(inc.said) + 1 /\ Clean(now, inc.ticket, {})
  /\ n <= Len(inc.said) =>
       /\ n \in 1 .. Len(inc.said) /\ <<inc.ticket, n>> \in made
       /\ Clean(now, inc.ticket, {<<inc.ticket, n>>})

LEMMA MadeIs ==
  ASSUME Holding, Still, NEW d \in Devices, NEW inc, NEW dsk, Amid(d, inc, dsk),
         NEW i \in 1 .. Len(inc.said) + 1, Upto(dsk, inc.ticket, i - 1),
         Clean(dsk, inc.ticket, {})
  PROVE  Prepared(d, inc, FirstLong(inc.said, i), Begun(inc, i), WithMade(dsk, Begun(inc, i)))
<1> PICK n : n = FirstLong(inc.said, i)
  OBVIOUS
<1> PICK made : made = Begun(inc, i)
  OBVIOUS
<1> PICK now : now = WithMade(dsk, made)
  OBVIOUS
<1> PICK k, said, c : k = inc.ticket /\ said = inc.said /\ c = pasted[k].copy
  OBVIOUS
<1> PICK l : l = Len(said)
  OBVIOUS
<1>1. /\ k \in Nat /\ k \in DOMAIN pasted /\ said \in Seq(Nat) /\ said = Copies[c]
      /\ l \in Nat /\ i \in Nat /\ 1 <= i /\ i <= l + 1
  BY IncomingIs, LenProperties DEF Amid, PullOf, Open
<1>2. n \in i .. l + 1 /\ \A m \in i .. n - 1 : said[m] = 0
  BY <1>1, FirstIs
<1>3. n \in Nat /\ i <= n /\ n <= l + 1
  BY <1>1, <1>2
<1>4. /\ n <= l => Min({n, l}) = n
      /\ n > l => Min({n, l}) = l
  BY <1>1, <1>3 DEF Min
<1> PICK top : top = Min({n, l})
  OBVIOUS
<1>15. made = {<<k, m>> : m \in i .. top}
  BY DEF Begun
<1>17. l \in Nat /\ i \in Nat /\ 1 <= i /\ i <= l + 1
  BY <1>1
<1>16. top \in Nat /\ top <= n /\ top <= l /\ (n <= l => top = n) /\ (n > l => top = l)
  BY <1>3, <1>4, <1>17
<1>5. \A m : <<k, m>> \in made <=> m \in i .. top
  BY <1>15
<1>6. ASSUME NEW x \in made PROVE \E m \in i .. n : x = <<k, m>> /\ m \in Nat /\ m <= l
  <2> PICK m \in i .. top : x = <<k, m>>
    BY <1>15
  <2>1. m \in Nat /\ i <= m /\ m <= top
    BY <1>16, <1>17
  <2>2. m <= n /\ m <= l
    BY <1>3, <1>16, <1>17, <2>1
  <2>3. m \in i .. n
    BY <1>3, <1>17, <2>1, <2>2
  <2> QED
    BY <2>1, <2>2, <2>3
<1>7. /\ DOMAIN now = DOMAIN dsk \cup made
      /\ \A x \in made : now[x] = <<>>
      /\ \A x \in DOMAIN dsk \ made : now[x] = dsk[x]
      /\ now = [x \in DOMAIN now |-> now[x]]
  BY DEF WithMade
<1>8. OnDisk(now)
  <2>1. \A x \in made : x \in Places
    BY <1>1, <1>6 DEF Places
  <2>2. \A x \in DOMAIN dsk : x \in Places /\ IsSeq(dsk[x])
    BY DEF Amid, OnDisk
  <2>3. \A x \in DOMAIN now : x \in Places /\ IsSeq(now[x])
    BY <1>7, <2>1, <2>2, NoPieces
  <2> QED
    BY <1>7, <2>3 DEF OnDisk
<1>9. Apart(k, now)
  <2>1. \A x \in made : x[1] = k
    BY <1>6
  <2> QED
    BY <1>7, <2>1 DEF Amid, Apart
<1>10. ASSUME OneCopy(pasted[k].id), NEW m \in 1 .. n - 1
       PROVE  <<k, m>> \in DOMAIN now /\ now[<<k, m>>] = Whole(c, m)
  <2>1. CASE m < i
    <3>1. m \in 1 .. i - 1 /\ <<k, m>> \notin made
      BY <1>1, <1>3, <1>5, <2>1
    <3>2. <<k, m>> \in DOMAIN dsk /\ dsk[<<k, m>>] = Whole(c, m)
      BY <1>10, <3>1 DEF Upto
    <3> QED
      BY <1>7, <3>1, <3>2
  <2>2. CASE i <= m
    <3>5. m \in Int /\ m <= n - 1
      BY <1>3
    <3>1. m \in i .. n - 1 /\ m \in i .. top
      <4>1. m \in i .. n - 1
        BY <1>3, <1>17, <2>2, <3>5
      <4>2. CASE n <= l
        BY <1>3, <1>16, <1>17, <2>2, <3>5, <4>1, <4>2
      <4>3. CASE n > l
        BY <1>3, <1>16, <1>17, <2>2, <3>5, <4>1, <4>3
      <4> QED
        BY <1>3, <1>17, <4>2, <4>3
    <3>2. <<k, m>> \in made /\ Copies[c][m] = 0
      BY <1>1, <1>2, <1>5, <3>1
    <3>3. Whole(c, m) = <<>>
      BY <3>2, NoPieces
    <3> PICK x : x = <<k, m>>
      OBVIOUS
    <3>4. x \in DOMAIN now /\ now[x] = <<>>
      BY <1>7, <3>2
    <3> QED
      BY <3>3, <3>4
  <2>3. m < i \/ i <= m
    <3>1. m \in Int /\ i \in Int
      BY <1>1, <1>3
    <3> QED
      BY <3>1
  <2> QED
    BY <2>1, <2>2, <2>3
<1>11. ASSUME NEW x \in DOMAIN now, x[1] = k, n > l \/ x # <<k, n>>
       PROVE  Long(now, x) \/ x \in orphans
  <2>1. CASE x \in made
    <3> PICK m \in i .. n : x = <<k, m>> /\ m \in Nat /\ m <= l
      BY <1>6, <2>1
    <3>1. m \in i .. n - 1
      BY <1>3, <1>11
    <3>2. Copies[pasted[x[1]].copy][x[2]] = 0
      BY <1>1, <1>2, <3>1
    <3> QED
      BY <1>7, <2>1, <3>2, NoPieces DEF Long
  <2>2. CASE x \notin made
    <3>1. x \in DOMAIN dsk /\ now[x] = dsk[x]
      BY <1>7, <2>2
    <3>2. Long(dsk, x) \/ x \in orphans
      BY <1>11, <3>1 DEF Clean
    <3> QED
      BY <3>1, <3>2 DEF Long
  <2> QED
    BY <2>1, <2>2
<1>12. Amid(d, inc, now) /\ Upto(now, k, n - 1)
  BY <1>8, <1>9, <1>10 DEF Amid, Upto
<1>13. n > l => n = l + 1 /\ Clean(now, k, {})
  <2>1. n > l => n = l + 1
    <3>1. \A a, b \in Nat : a <= b + 1 /\ a > b => a = b + 1
      OBVIOUS
    <3> QED
      BY <1>1, <1>3, <3>1
  <2> QED
    BY <1>11, <2>1 DEF Clean
<1>14. n <= l => /\ n \in 1 .. l /\ <<k, n>> \in made
                 /\ Clean(now, k, {<<k, n>>})
  <2>1. n <= l => n \in 1 .. l /\ n \in i .. top
    BY <1>1, <1>3, <1>16
  <2>2. n <= l => <<k, n>> \in made
    BY <1>5, <2>1
  <2>3. Clean(now, k, {<<k, n>>})
    BY <1>11 DEF Clean
  <2> QED
    BY <2>1, <2>2, <2>3
<1> QED
  BY <1>7, <1>12, <1>13, <1>14 DEF Prepared

LEMMA AdvanceTurns ==
  ASSUME Holding, Still, NEW d \in Devices, NEW t, IsTransfer(t), NEW inc, NEW dsk,
         Amid(d, inc, dsk), NEW i \in 1 .. Len(inc.said) + 1,
         Upto(dsk, inc.ticket, i - 1), Clean(dsk, inc.ticket, {}),
         NEW ok, NEW q, Advance(d, t, inc, i, dsk, ok, q)
  PROVE  Turn(d, inc.ticket) /\ Speaks(d, q)
<1> PICK n : n = FirstLong(inc.said, i)
  OBVIOUS
<1> PICK made : made = Begun(inc, i)
  OBVIOUS
<1> PICK now : now = WithMade(dsk, made)
  OBVIOUS
<1> PICK rest : rest = [inc EXCEPT !.writing = FALSE]
  OBVIOUS
<1> PICK next : next = [inc EXCEPT !.index = n, !.writing = TRUE]
  OBVIOUS
<1>15. Prepared(d, inc, n, made, now)
  BY MadeIs
<1>1. /\ Amid(d, inc, now)
      /\ Upto(now, inc.ticket, n - 1)
      /\ \A x \in made : x \in DOMAIN now /\ now[x] = <<>>
      /\ n > Len(inc.said) => n = Len(inc.said) + 1 /\ Clean(now, inc.ticket, {})
      /\ n <= Len(inc.said) =>
           /\ n \in 1 .. Len(inc.said) /\ <<inc.ticket, n>> \in made
           /\ Clean(now, inc.ticket, {<<inc.ticket, n>>})
  BY <1>15 DEF Prepared
<1>2. /\ rest \in Incoming /\ rest.ticket = inc.ticket /\ rest.id = inc.id
      /\ rest.said = inc.said /\ ~rest.writing
  BY DEF Amid, PullOf, Incoming
<1>3. PullOf(d, rest)
  BY <1>2 DEF Amid, PullOf
<1>4. CASE Fail(d, t, rest, dsk, q)
  <2>1. Amid(d, rest, dsk)
    BY <1>2, <1>3 DEF Amid
  <2> QED
    BY <1>2, <1>4, <2>1, FailTurns
<1>5. CASE n > Len(inc.said) /\ Finish(d, t, rest, now, "landed", <<>>, q)
  <2>1. Amid(d, rest, now)
    BY <1>1, <1>2, <1>3 DEF Amid
  <2>2. Upto(now, rest.ticket, Len(rest.said))
    <3>1. Len(inc.said) \in Nat
      BY IncomingIs, LenProperties DEF Amid, PullOf
    <3>2. n - 1 = Len(inc.said)
      BY <1>1, <1>5, <3>1
    <3> QED
      BY <1>1, <1>2, <3>2
  <2>3. Turn(d, inc.ticket)
    BY <1>1, <1>2, <1>5, <2>1, <2>2, FinishTurns
  <2>4. Speaks(d, q)
    BY <1>5, SilenceIs, SpeaksOf DEF Finish
  <2> QED
    BY <2>3, <2>4
<1>6. CASE n <= Len(inc.said) /\ Want(d, t, next, now, 0, q)
  <2>1. n \in 1 .. Len(inc.said) /\ n \in Nat
    BY <1>1, <1>6
  <2>2. /\ next \in Incoming /\ next.ticket = inc.ticket /\ next.id = inc.id
        /\ next.said = inc.said /\ next.writing /\ next.index = n
    BY <2>1 DEF Amid, PullOf, Incoming
  <2>3. PullOf(d, next)
    BY <2>2 DEF Amid, PullOf
  <2>4. Amid(d, next, now)
    BY <1>1, <2>2, <2>3 DEF Amid
  <2>5. Slot(next) = <<inc.ticket, n>>
    BY <2>2 DEF Slot
  <2>6. Slot(next) \in DOMAIN now /\ now[Slot(next)] = <<>>
    BY <1>1, <1>6, <2>5
  <2>7. Writes(d, next, now)
    BY <1>1, <2>1, <2>2, <2>3, <2>6, NoPieces DEF Writes
  <2>8. Clean(now, next.ticket, {Slot(next)})
    BY <1>1, <1>6, <2>2, <2>5
  <2> QED
    BY <1>6, <2>2, <2>4, <2>7, <2>8, WantTurns
<1> QED
  BY <1>4, <1>5, <1>6 DEF Advance, Begun, WithMade

-----------------------------------------------------------------------------
(* A turn of one machine, about one paste, leaves the rest as it was.      *)

\* Machine d may have taken some of the pulls that wait; the others have not.
Shorter(d) ==
  /\ OnDevices(pulls') /\ \A e \in Devices \ {d} : pulls'[e] = pulls[e]
  /\ IsSeq(pulls'[d]) /\ Elems(pulls'[d]) \subseteq Elems(pulls[d])
  /\ \A i, j \in DOMAIN pulls'[d] : i # j => pulls'[d][i].ticket # pulls'[d][j].ticket

LEMMA SameIsShorter ==
  ASSUME Holding, NEW d \in Devices, UNCHANGED pulls
  PROVE  Shorter(d)
BY DEF Holding, Shorter, Queued

\* No two that wait are of one paste.
LEMMA TakenIsShorter ==
  ASSUME Holding, NEW d \in Devices, pulls[d] # <<>>,
         pulls' = [pulls EXCEPT ![d] = Tail(@)]
  PROVE  /\ Shorter(d) /\ Head(pulls[d]) \in Elems(pulls[d])
         /\ \A p \in Elems(pulls'[d]) : p.ticket # Head(pulls[d]).ticket
<1> PICK q : q = pulls[d]
  OBVIOUS
<1>1. /\ IsSeq(q) /\ q # <<>>
      /\ \A i, j \in DOMAIN q : i # j => q[i].ticket # q[j].ticket
  BY DEF Holding, Queued
<1>2. /\ IsSeq(Tail(q)) /\ Elems(Tail(q)) \subseteq Elems(q) /\ Head(q) \in Elems(q)
  BY <1>1, TailIs
<1>3. /\ OnDevices(pulls') /\ pulls'[d] = Tail(q)
      /\ \A e \in Devices \ {d} : pulls'[e] = pulls[e]
  BY DEF Holding, OnDevices
<1>4. /\ Len(q) \in Nat /\ Len(q) >= 1 /\ DOMAIN q = 1 .. Len(q) /\ Head(q) = q[1]
      /\ DOMAIN Tail(q) = 1 .. Len(q) - 1
      /\ \A i \in 1 .. Len(q) - 1 : Tail(q)[i] = q[i + 1]
  <2>1. q \in Seq(Elems(q))
    BY <1>1 DEF IsSeq
  <2>5. Head(q) = q[1]
    OBVIOUS
  <2>2. /\ Tail(q) \in Seq(Elems(q)) /\ Len(Tail(q)) = Len(q) - 1
        /\ \A i \in 1 .. Len(Tail(q)) : Tail(q)[i] = q[i + 1]
    BY <1>1, <2>1, HeadTailProperties
  <2>3. Len(q) \in Nat /\ DOMAIN q = 1 .. Len(q) /\ DOMAIN Tail(q) = 1 .. Len(Tail(q))
    BY <2>1, <2>2, LenProperties
  <2>4. Len(q) # 0
    BY <1>1, <2>1, EmptySeq
  <2> QED
    BY <2>2, <2>3, <2>4, <2>5
<1>5. \A i \in DOMAIN Tail(q) : Tail(q)[i] = q[i + 1] /\ i + 1 \in DOMAIN q /\ i + 1 # 1
  BY <1>4
<1>6. \A i, j \in DOMAIN Tail(q) : i # j => Tail(q)[i].ticket # Tail(q)[j].ticket
  <2> SUFFICES ASSUME NEW i \in DOMAIN Tail(q), NEW j \in DOMAIN Tail(q), i # j
               PROVE  Tail(q)[i].ticket # Tail(q)[j].ticket
    OBVIOUS
  <2>1. i + 1 # j + 1
    BY <1>4
  <2> QED
    BY <1>1, <1>5, <2>1
<1>7. \A p \in Elems(Tail(q)) : p.ticket # Head(q).ticket
  <2> SUFFICES ASSUME NEW i \in DOMAIN Tail(q) PROVE Tail(q)[i].ticket # q[1].ticket
    BY <1>4 DEF Elems
  <2>1. 1 \in DOMAIN q
    BY <1>4
  <2> QED
    BY <1>1, <1>5, <2>1
<1> QED
  BY <1>2, <1>3, <1>6, <1>7 DEF Shorter

LEMMA NamesStay == ASSUME Still PROVE \A id : OneCopy(id)' <=> OneCopy(id)
BY DEF Still, OneCopy

LEMMA TurnKeeps ==
  ASSUME Holding, Still, NEW d \in Devices, NEW n \in DOMAIN pasted, pasted[n].at = d,
         incoming[d] # None => incoming[d].ticket = n, Turn(d, n),
         Shorter(d), \A p \in Elems(pulls'[d]) : p.ticket # n
  PROVE  Holding'
<1>1. /\ OnDevices(incoming)' /\ OnDevices(pulls)'
      /\ \A e \in Devices \ {d} : incoming'[e] = incoming[e] /\ pulls'[e] = pulls[e]
  BY DEF Holding, OnDevices, Turn, Shorter
<1>2. /\ answers' = [k \in DOMAIN answers' |-> answers'[k]]
      /\ DOMAIN answers' \subseteq DOMAIN pasted'
      /\ \A k \in DOMAIN answers' : k # n => k \in DOMAIN answers /\ answers'[k] = answers[k]
  BY DEF Holding, Turn, Still
<1>3. ASSUME NEW e, NEW k, NEW id, Open(e, k, id), k # n PROVE Open(e, k, id)'
  BY <1>2, <1>3 DEF Open, Still
<1>4. ASSUME NEW k \in DOMAIN pasted, k # n, NEW i \in Nat
      PROVE  /\ <<k, i>> \in DOMAIN disk' <=> <<k, i>> \in DOMAIN disk
             /\ <<k, i>> \in DOMAIN disk => disk'[<<k, i>>] = disk[<<k, i>>]
  <2> PICK x : x = <<k, i>>
    OBVIOUS
  <2>1. x \in Places /\ x[1] # n
    BY <1>4 DEF Places
  <2> QED
    BY <2>1 DEF Turn, Apart
<1>5. ASSUME NEW k \in DOMAIN pasted, k # n, NEW m, Upto(disk, k, m) PROVE Upto(disk, k, m)'
  <2> SUFFICES ASSUME OneCopy(pasted[k].id), NEW i \in 1 .. m
               PROVE  /\ <<k, i>> \in DOMAIN disk'
                      /\ disk'[<<k, i>>] = Whole(pasted[k].copy, i)
    BY NamesStay DEF Upto, Still
  <2>1. i \in Nat
    BY <1>5
  <2>2. <<k, i>> \in DOMAIN disk /\ disk[<<k, i>>] = Whole(pasted[k].copy, i)
    BY <1>5 DEF Upto
  <2> QED
    BY <1>4, <1>5, <2>1, <2>2
<1>6. ASSUME NEW e \in Devices \ {d} PROVE Writing(e)'
  <2> SUFFICES ASSUME incoming[e] # None PROVE Writes(e, incoming[e], disk)'
    BY <1>1 DEF Writing
  <2> PICK inc : inc = incoming[e]
    OBVIOUS
  <2>1. Writes(e, inc, disk)
    BY DEF Holding, Writing
  <2>2. /\ inc \in Incoming /\ Open(e, inc.ticket, inc.id) /\ inc.ticket \in DOMAIN pasted
        /\ inc.ticket # n
    BY <2>1 DEF Writes, PullOf, Open
  <2>3. Slot(inc) = <<inc.ticket, inc.index>> /\ inc.index \in Nat
    BY <2>2, IncomingIs
  <2>4. Slot(inc) \in DOMAIN disk' /\ disk'[Slot(inc)] = disk[Slot(inc)]
    BY <1>4, <2>1, <2>2, <2>3 DEF Writes
  <2>5. Upto(disk, inc.ticket, inc.index - 1)'
    BY <1>5, <2>1, <2>2 DEF Writes
  <2>6. PullOf(e, inc)'
    BY <1>3, <2>1, <2>2 DEF Writes, PullOf, Still
  <2>7. Writes(e, inc, disk)'
    BY <2>1, <2>4, <2>5, <2>6, NamesStay DEF Writes, Still
  <2> QED
    BY <1>1, <2>7
<1>7. Writing(d)'
  BY DEF Turn
<1>8. ASSUME NEW e \in Devices \ {d} PROVE Queued(e)'
  <2>1. Queued(e)
    BY DEF Holding
  <2>2. \A p \in Elems(pulls[e]) : Open(e, p.ticket, p.id) /\ p.ticket # n
    BY <2>1 DEF Queued, Open
  <2>3. \A p \in Elems(pulls[e]) : Open(e, p.ticket, p.id)'
    BY <1>3, <2>2
  <2> QED
    BY <1>1, <2>1, <2>3 DEF Queued, Still
<1>13. Queued(d)'
  <2> PICK q : q = pulls'[d]
    OBVIOUS
  <2>1. Queued(d)
    BY DEF Holding
  <2>2. \A p \in Elems(q) : p \in Elems(pulls[d]) /\ p.ticket # n
    BY DEF Shorter
  <2>3. \A p \in Elems(q) : Open(d, p.ticket, p.id)'
    BY <1>3, <2>1, <2>2 DEF Queued
  <2>4. \A p \in Elems(q) : p.copy = pasted[p.ticket].copy
    BY <2>1, <2>2 DEF Queued
  <2>11. incoming'[d] # None => \A p \in Elems(q) : incoming'[d].ticket # p.ticket
    BY <2>2 DEF Turn
  <2>5. IsSeq(q) /\ \A i, j \in DOMAIN q : i # j => q[i].ticket # q[j].ticket
    BY DEF Shorter
  <2>6. (\A i, j \in DOMAIN pulls[d] : i # j => pulls[d][i].ticket # pulls[d][j].ticket)'
    BY <2>5
  <2>7. (\A p \in Elems(pulls[d]) : Open(d, p.ticket, p.id))'
    BY <2>3
  <2>8. (\A p \in Elems(pulls[d]) : p.copy = pasted[p.ticket].copy)'
    BY <2>4 DEF Still
  <2>9. (\A p \in Elems(pulls[d]) : incoming[d] # None => incoming[d].ticket # p.ticket)'
    BY <2>11
  <2>10. IsSeq(pulls[d])'
    BY <2>5
  <2> QED
    BY <2>6, <2>7, <2>8, <2>9, <2>10 DEF Queued
<1>9. ASSUME NEW k \in DOMAIN answers', answers'[k] = "landed"
      PROVE  Upto(disk, k, Len(Copies[pasted[k].copy]))'
  <2>1. CASE k = n
    <3>1. Upto(disk', n, Len(Copies[pasted[n].copy]))
      BY <1>9, <2>1 DEF Turn
    <3> QED
      BY <2>1, <3>1, NamesStay DEF Upto, Still
  <2>2. CASE k # n
    <3>1. k \in DOMAIN pasted /\ Upto(disk, k, Len(Copies[pasted[k].copy]))
      BY <1>2, <1>9, <2>2 DEF Holding
    <3> QED
      BY <1>5, <2>2, <3>1 DEF Still
  <2> QED
    BY <2>1, <2>2
<1>10. ASSUME NEW x \in DOMAIN disk'
       PROVE  \/ Len(disk'[x]) = Copies[pasted[x[1]].copy][x[2]]
              \/ \E e \in Devices : /\ incoming'[e] # None /\ incoming'[e].writing
                                    /\ Slot(incoming'[e]) = x
              \/ x \in orphans
  <2>1. CASE x[1] = n
    <3>1. CASE incoming'[d] # None /\ x = Slot(incoming'[d])
      <4>1. incoming'[d].writing
        BY <1>7, <3>1 DEF Writing, Writes
      <4> QED
        BY <3>1, <4>1
    <3>2. CASE ~(incoming'[d] # None /\ x = Slot(incoming'[d]))
      BY <2>1, <3>2 DEF Turn, Clean, Long
    <3> QED
      BY <3>1, <3>2
  <2>2. CASE x[1] # n
    <3>1. x \in Places /\ x \in DOMAIN disk /\ disk'[x] = disk[x]
      BY <2>2 DEF Turn, OnDisk, Apart
    <3>2. CASE \E e \in Devices : incoming[e] # None /\ incoming[e].writing /\ Slot(incoming[e]) = x
      <4> PICK e \in Devices : incoming[e] # None /\ incoming[e].writing /\ Slot(incoming[e]) = x
        BY <3>2
      <4>1. incoming[e] \in Incoming
        BY DEF Holding, Writing, Writes, PullOf
      <4>2. e # d
        BY <2>2, <4>1, IncomingIs
      <4> QED
        BY <1>1, <4>2
    <3>3. CASE ~\E e \in Devices : incoming[e] # None /\ incoming[e].writing /\ Slot(incoming[e]) = x
      BY <3>1, <3>3 DEF Holding, NoHalfFiles
    <3> QED
      BY <3>2, <3>3
  <2> QED
    BY <2>1, <2>2
<1>11. OnDisk(disk)'
  BY DEF Turn, OnDisk, Places, Still
<1>12. NoHalfFiles'
  BY <1>10 DEF NoHalfFiles, Slot, Still
<1> QED
  BY <1>1, <1>2, <1>6, <1>7, <1>8, <1>9, <1>11, <1>12, <1>13 DEF Holding

\* Nothing is pulled meanwhile, and whoever is told anything is told it failed.
LEMMA AnswerKeeps ==
  ASSUME Holding, Still, UNCHANGED <<incoming, disk>>, NEW d \in Devices, Shorter(d),
         answers' = [k \in DOMAIN answers' |-> answers'[k]],
         DOMAIN answers' \subseteq DOMAIN pasted,
         \A k \in DOMAIN answers' :
           \/ k \in DOMAIN answers /\ answers'[k] = answers[k]
           \/ answers'[k] = "failed"
  PROVE  Holding'
<1>1. /\ OnDevices(incoming)' /\ OnDevices(pulls)' /\ OnDisk(disk)'
      /\ \A e \in Devices \ {d} : pulls'[e] = pulls[e]
  BY DEF Holding, OnDevices, Shorter, OnDisk, Places, Still
<1>2. ASSUME NEW e, NEW k, NEW id, Open(e, k, id) PROVE Open(e, k, id)'
  <2>1. k \in DOMAIN answers' => answers'[k] # "landed"
    BY <1>2 DEF Open
  <2> QED
    BY <1>2, <2>1 DEF Open, Still
<1>3. \A k, m : Upto(disk, k, m)' <=> Upto(disk, k, m)
  BY NamesStay DEF Upto, Still
<1>4. ASSUME NEW e \in Devices PROVE Writing(e)'
  <2> SUFFICES ASSUME incoming[e] # None PROVE Writes(e, incoming[e], disk)'
    BY DEF Writing
  <2> PICK inc : inc = incoming[e]
    OBVIOUS
  <2>1. Writes(e, inc, disk)
    BY DEF Holding, Writing
  <2>2. PullOf(e, inc)'
    BY <1>2, <2>1 DEF Writes, PullOf, Still
  <2>3. Writes(e, inc, disk)'
    BY <1>3, <2>1, <2>2, NamesStay DEF Writes, Still
  <2> QED
    BY <2>3
<1>5. ASSUME NEW e \in Devices PROVE Queued(e)'
  <2> PICK q : q = pulls'[e]
    OBVIOUS
  <2>1. Queued(e)
    BY DEF Holding
  <2>2. /\ IsSeq(q) /\ Elems(q) \subseteq Elems(pulls[e])
        /\ \A i, j \in DOMAIN q : i # j => q[i].ticket # q[j].ticket
    <3>1. CASE e = d
      BY <3>1 DEF Shorter
    <3>2. CASE e # d
      BY <1>1, <2>1, <3>2 DEF Queued
    <3> QED
      BY <3>1, <3>2
  <2>3. \A p \in Elems(q) : Open(e, p.ticket, p.id)'
    BY <1>2, <2>1, <2>2 DEF Queued
  <2>4. \A p \in Elems(q) : p.copy = pasted[p.ticket].copy
    BY <2>1, <2>2 DEF Queued
  <2>5. \A p \in Elems(q) : incoming[e] # None => incoming[e].ticket # p.ticket
    BY <2>1, <2>2 DEF Queued
  <2>6. (\A i, j \in DOMAIN pulls[e] : i # j => pulls[e][i].ticket # pulls[e][j].ticket)'
    BY <2>2
  <2>7. (\A p \in Elems(pulls[e]) : Open(e, p.ticket, p.id))'
    BY <2>3
  <2>8. (\A p \in Elems(pulls[e]) : p.copy = pasted[p.ticket].copy)'
    BY <2>4 DEF Still
  <2>9. (\A p \in Elems(pulls[e]) : incoming[e] # None => incoming[e].ticket # p.ticket)'
    BY <2>5
  <2>10. IsSeq(pulls[e])'
    BY <2>2
  <2> QED
    BY <2>6, <2>7, <2>8, <2>9, <2>10 DEF Queued
<1>6. ASSUME NEW k \in DOMAIN answers', answers'[k] = "landed"
      PROVE  Upto(disk, k, Len(Copies[pasted[k].copy]))'
  <2>1. k \in DOMAIN answers /\ answers[k] = "landed"
    BY <1>6
  <2> QED
    BY <1>3, <2>1 DEF Holding, Still
<1>7. NoHalfFiles'
  BY DEF Holding, NoHalfFiles, Slot, Still
<1>8. DOMAIN answers' \subseteq DOMAIN pasted'
  BY DEF Still
<1> QED
  BY <1>1, <1>4, <1>5, <1>6, <1>7, <1>8 DEF Holding

-----------------------------------------------------------------------------
(* A pull begun, a piece that arrives, and what a Transfer gives to do.    *)

LEMMA BeginPullTurns ==
  ASSUME Holding, Still, NEW d \in Devices, IsTransfer(tr[d]), NEW pull, NEW ok,
         Open(d, pull.ticket, pull.id), pull.copy = pasted[pull.ticket].copy,
         pull.ticket \in Nat, pull.id \in Ids, Copies[pull.copy] \in Seq(Nat),
         ~Refused(d, Copies[pull.copy]), BeginPull(d, pull, ok)
  PROVE  Turn(d, pull.ticket) /\ Speaks(d, Queues) /\ incoming[d] = None
<1> PICK said : said = Copies[pull.copy]
  OBVIOUS
<1> PICK inc : inc = [ticket |-> pull.ticket, id |-> pull.id, said |-> said,
                      index |-> 1, writing |-> FALSE]
  OBVIOUS
<1>1. Advance(d, tr[d], inc, 1, disk, ok, Queues)
  BY DEF BeginPull
<1>2. /\ inc.ticket = pull.ticket /\ inc.id = pull.id /\ inc.said = said
      /\ inc \in Incoming
  BY DEF Incoming
<1>3. PullOf(d, inc)
  BY <1>2 DEF PullOf
<1>4. Amid(d, inc, disk)
  BY <1>3 DEF Amid, Holding, Apart
<1>5. incoming[d] = None
  BY DEF Refused
<1>6. Upto(disk, inc.ticket, 1 - 1)
  BY DEF Upto
<1>7. Clean(disk, inc.ticket, {})
  <2> SUFFICES ASSUME NEW x \in DOMAIN disk, x[1] = inc.ticket
               PROVE  Long(disk, x) \/ x \in orphans
    BY DEF Clean
  <2>1. ASSUME NEW e \in Devices, incoming[e] # None PROVE Slot(incoming[e]) # x
    <3>1. PullOf(e, incoming[e]) /\ e # d
      BY <1>5, <2>1 DEF Holding, Writing, Writes
    <3>2. pasted[incoming[e].ticket].at = e /\ pasted[inc.ticket].at = d
      BY <1>3, <3>1 DEF PullOf, Open
    <3>3. Slot(incoming[e])[1] = incoming[e].ticket
      BY <3>1, IncomingIs DEF PullOf
    <3> QED
      BY <3>1, <3>2, <3>3
  <2> QED
    BY <2>1 DEF Holding, NoHalfFiles, Long
<1>8. 1 \in 1 .. Len(inc.said) + 1
  BY <1>2, LenProperties
<1> QED
  BY <1>1, <1>2, <1>4, <1>5, <1>6, <1>7, <1>8, AdvanceTurns

\* The first pieces of a file and the next one are its first pieces.
LEMMA PortionGrows ==
  ASSUME NEW q, IsSeq(q), NEW n, NEW i, q = Portion(n, i, Len(q)),
         NEW x, x = <<n, i, Len(q) + 1>>
  PROVE  q \o <<x>> = Portion(n, i, Len(q \o <<x>>))
<1> PICK l : l = Len(q)
  OBVIOUS
<1>1. l \in Nat /\ q \in Seq(Elems(q))
  BY SeqIs DEF IsSeq
<1> PICK S : S = Elems(q) \cup {x}
  OBVIOUS
<1>2. q \in Seq(S) /\ <<x>> \in Seq(S) /\ Len(<<x>>) = 1 /\ <<x>>[1] = x
  BY <1>1, SeqMonotonic
<1>3. /\ q \o <<x>> \in Seq(S) /\ Len(q \o <<x>>) = l + 1
      /\ \A j \in 1 .. l + 1 : (q \o <<x>>)[j] = IF j <= l THEN q[j] ELSE <<x>>[j - l]
  BY <1>1, <1>2, ConcatProperties
<1>4. ASSUME NEW j \in 1 .. l + 1 PROVE (q \o <<x>>)[j] = <<n, i, j>>
  <2>1. CASE j <= l
    <3>1. j \in 1 .. l
      BY <1>1, <2>1
    <3>2. q[j] = <<n, i, j>>
      BY <3>1 DEF Portion
    <3> QED
      BY <1>3, <2>1, <3>2
  <2>2. CASE ~(j <= l)
    <3>1. j = l + 1 /\ j - l = 1
      BY <1>1, <2>2
    <3>2. (q \o <<x>>)[j] = <<x>>[1]
      BY <1>3, <2>2, <3>1
    <3> QED
      BY <1>2, <3>1, <3>2
  <2> QED
    BY <2>1, <2>2
<1> PICK r : r = q \o <<x>>
  OBVIOUS
<1>5. r = [j \in 1 .. l + 1 |-> r[j]]
  BY <1>3, LenProperties
<1>6. r = Portion(n, i, l + 1)
  BY <1>4, <1>5 DEF Portion
<1> QED
  BY <1>3, <1>6

\* A piece that continues the file being written, while the name it was asked for by
\* stands for one copy, is the next piece of that copy's.
LEMMA PieceFits ==
  ASSUME Naming, NEW d \in Devices, NEW inc, Writes(d, inc, disk), IsSeq(disk[Slot(inc)]),
         NEW k, NEW data, Good(k, data), k.id = inc.id, k.index = inc.index,
         k.at = Len(disk[Slot(inc)])
  PROVE  OneCopy(inc.id) =>
           disk[Slot(inc)] \o data
             = Portion(pasted[inc.ticket].copy, inc.index, Len(disk[Slot(inc)] \o data))
<1> PICK q, c : q = disk[Slot(inc)] /\ c = pasted[inc.ticket].copy
  OBVIOUS
<1>2. ASSUME OneCopy(inc.id) PROVE q \o data = Portion(c, inc.index, Len(q \o data))
  <2>1. q = Portion(c, inc.index, Len(q))
    BY <1>2 DEF Writes
  <2>2. \E a \in announced : a.id = inc.id /\ a.copy = c
    BY DEF Naming, Writes, PullOf, Open
  <2>3. \A a \in announced : a.id = inc.id => a.copy = c
    BY <1>2, <2>2 DEF OneCopy
  <2> PICK i : i = inc.index
    OBVIOUS
  <2>4. data = <<>> \/ data = <<<<c, i, Len(q) + 1>>>>
    BY <2>3 DEF Good
  <2>5. IsSeq(q) /\ q = Portion(c, i, Len(q))
    BY <2>1
  <2>6. q \o data = Portion(c, i, Len(q \o data))
    <3>1. CASE data = <<>>
      <4>1. q \o <<>> = q
        BY <2>5, ConcatEmptySeq DEF IsSeq
      <4> QED
        BY <2>5, <3>1, <4>1
    <3>2. CASE data = <<<<c, i, Len(q) + 1>>>>
      <4> PICK x : x = <<c, i, Len(q) + 1>>
        OBVIOUS
      <4>1. q \o <<x>> = Portion(c, i, Len(q \o <<x>>))
        BY <2>5, PortionGrows
      <4> QED
        BY <3>2, <4>1
    <3> QED
      BY <2>4, <3>1, <3>2
  <2> QED
    BY <2>6
<1> QED
  BY <1>2

\* On a disk as it is, nothing of the paste being pulled is cut short but the file
\* being written.
LEMMA OwnClean ==
  ASSUME Holding, NEW d \in Devices, incoming[d] # None
  PROVE  /\ Writes(d, incoming[d], disk) /\ Amid(d, incoming[d], disk)
         /\ Clean(disk, incoming[d].ticket, {Slot(incoming[d])})
<1> PICK inc, n : inc = incoming[d] /\ n = inc.ticket
  OBVIOUS
<1>1. Writes(d, inc, disk) /\ PullOf(d, inc)
  BY DEF Holding, Writing, Writes
<1>2. Amid(d, inc, disk)
  BY <1>1 DEF Holding, Amid, Apart
<1>3. ASSUME NEW x \in DOMAIN disk, x # Slot(inc), x[1] = n PROVE Long(disk, x) \/ x \in orphans
  <2>1. ASSUME NEW e \in Devices, incoming[e] # None PROVE Slot(incoming[e]) # x
    <3>1. PullOf(e, incoming[e])
      BY <2>1 DEF Holding, Writing, Writes
    <3>2. pasted[incoming[e].ticket].at = e /\ pasted[n].at = d
      BY <1>1, <3>1 DEF PullOf, Open
    <3>3. Slot(incoming[e])[1] = incoming[e].ticket
      BY <3>1, IncomingIs DEF PullOf
    <3> QED
      BY <1>3, <3>2, <3>3
  <2> QED
    BY <2>1 DEF Holding, NoHalfFiles, Long
<1>4. Clean(disk, n, {Slot(inc)})
  BY <1>3 DEF Clean
<1> QED
  BY <1>1, <1>2, <1>4

\* A piece that arrives is no news, or the end of the pull, or the next piece.
LEMMA PieceTurns ==
  ASSUME Naming, Holding, Still, NEW d \in Devices, NEW t, IsTransfer(t), NEW m,
         Good(m.key, m.data), NEW ok, NEW q, PieceArrived(d, t, m, ok, q)
  PROVE  /\ Speaks(d, q)
         /\ \/ UNCHANGED <<incoming, disk, answers>>
            \/ incoming[d] # None /\ Turn(d, incoming[d].ticket)
<1> PICK inc : inc = incoming[d]
  OBVIOUS
<1> PICK n, slot, old, all : /\ n = inc.ticket /\ slot = Slot(inc) /\ old = disk[slot]
                             /\ all = old \o m.data
  OBVIOUS
<1> PICK dsk : dsk = [disk EXCEPT ![slot] = all]
  OBVIOUS
<1> DEFINE ours == inc # None /\ inc.id = m.key.id /\ inc.index = m.key.index /\ inc.writing
           bad  == ~ok \/ m.key.at # Len(old) \/ WrongSize(all, inc.said[inc.index], m.last)
<1>1. CASE ~ours
  <2>1. Passes(d, t, <<>>, q)
    BY <1>1 DEF PieceArrived
  <2> QED
    BY <2>1, SilenceIs, SpeaksOf DEF Passes
<1>2. CASE ours
  <2>1. Writes(d, inc, disk) /\ PullOf(d, inc) /\ inc.writing
    BY <1>2 DEF Holding, Writing, Writes
  <2>2. /\ inc \in Incoming /\ slot = <<n, inc.index>> /\ n \in Nat
        /\ slot[1] = n /\ slot[2] = inc.index
        /\ inc.index \in Nat /\ inc.index \in 1 .. Len(inc.said) /\ inc.said \in Seq(Nat)
    BY <2>1, IncomingIs DEF Writes, PullOf
  <2>3. slot \in DOMAIN disk /\ slot \in Places /\ IsSeq(old)
    BY <2>1 DEF Writes, Holding, OnDisk
  <2>4. /\ DOMAIN dsk = DOMAIN disk /\ dsk[slot] = all
        /\ \A x \in DOMAIN disk \ {slot} : dsk[x] = disk[x]
        /\ dsk = [x \in DOMAIN dsk |-> dsk[x]]
    BY <2>3 DEF Holding, OnDisk
  <2>5. IsSeq(all)
    <3>1. IsSeq(m.data)
      BY FewIs DEF Good
    <3> QED
      BY <2>3, <3>1, JoinedIs
  <2>6. Amid(d, inc, dsk)
    <3>1. OnDisk(dsk)
      BY <2>3, <2>4, <2>5 DEF Holding, OnDisk
    <3>2. Apart(n, dsk)
      BY <2>2, <2>4 DEF Apart
    <3> QED
      BY <2>1, <3>1, <3>2 DEF Amid
  <2>7. Clean(dsk, n, {slot})
    <3>1. Clean(disk, n, {slot})
      BY <1>2, OwnClean
    <3> QED
      BY <2>4, <3>1 DEF Clean, Long
  <2>8. Upto(dsk, n, inc.index - 1)
    <3> SUFFICES ASSUME OneCopy(pasted[n].id), NEW i \in 1 .. inc.index - 1
                 PROVE  /\ <<n, i>> \in DOMAIN dsk
                        /\ dsk[<<n, i>>] = Whole(pasted[n].copy, i)
      BY DEF Upto
    <3> PICK x : x = <<n, i>>
      OBVIOUS
    <3>1. i # inc.index
      BY <2>2
    <3>2. x # slot
      BY <2>2, <3>1
    <3>3. x \in DOMAIN disk /\ disk[x] = Whole(pasted[n].copy, i)
      BY <2>1 DEF Writes, Upto
    <3> QED
      BY <2>4, <3>2, <3>3
  <2>9. CASE bad
    <3>1. Fail(d, t, inc, dsk, q)
      BY <1>2, <2>9 DEF PieceArrived
    <3>2. Turn(d, n) /\ Speaks(d, q)
      BY <2>1, <2>6, <2>7, <3>1, FailTurns
    <3> QED
      BY <1>2, <3>2
  <2>10. CASE ~bad
    <3>1. /\ m.key.at = Len(old) /\ ~WrongSize(all, inc.said[inc.index], m.last)
          /\ OneCopy(inc.id) => all = Portion(pasted[n].copy, inc.index, Len(all))
      <4>1. m.key.at = Len(old) /\ ~WrongSize(all, inc.said[inc.index], m.last)
        BY <2>10
      <4> PICK k : k = m.key
        OBVIOUS
      <4> PICK data, was : data = m.data /\ was = disk[Slot(inc)]
        OBVIOUS
      <4>2. /\ Good(k, data) /\ k.id = inc.id /\ k.index = inc.index
            /\ k.at = Len(disk[Slot(inc)]) /\ IsSeq(disk[Slot(inc)])
        BY <1>2, <2>3, <4>1
      <4>4. OneCopy(inc.id) =>
              disk[Slot(inc)] \o data
                = Portion(pasted[inc.ticket].copy, inc.index, Len(disk[Slot(inc)] \o data))
        BY <2>1, <4>2, PieceFits, Zenon
      <4>5. all = was \o data /\ was = disk[Slot(inc)]
        OBVIOUS
      <4>3. OneCopy(inc.id) => all = Portion(pasted[n].copy, inc.index, Len(all))
        BY <4>4, <4>5
      <4> QED
        BY <4>1, <4>3
    <3>2. CASE ~m.last
      <4>1. Want(d, t, inc, dsk, Len(all), q)
        BY <1>2, <2>10, <3>2 DEF PieceArrived
      <4>2. Writes(d, inc, dsk)
        BY <2>1, <2>2, <2>3, <2>4, <2>8, <3>1 DEF Writes
      <4>3. Turn(d, n) /\ Speaks(d, q)
        BY <2>6, <2>7, <4>1, <4>2, WantTurns
      <4> QED
        BY <1>2, <4>3
    <3>3. CASE m.last
      <4>1. Advance(d, t, inc, inc.index + 1, dsk, TRUE, q)
        BY <1>2, <2>10, <3>3 DEF PieceArrived
      <4>2. Len(all) = inc.said[inc.index]
        BY <3>1, <3>3 DEF WrongSize
      <4>3. Len(all) = Copies[pasted[n].copy][inc.index]
        BY <2>1, <4>2 DEF PullOf
      <4>4. Clean(dsk, n, {})
        <5>1. Long(dsk, slot)
          <6>1. slot[1] = n /\ slot[2] = inc.index /\ dsk[slot] = all
            BY <2>2, <2>4
          <6> QED
            BY <4>3, <6>1 DEF Long
        <5> QED
          BY <2>7, <5>1 DEF Clean
      <4> PICK next : next = inc.index + 1
        OBVIOUS
      <4>5. Upto(dsk, n, next - 1)
        <5> SUFFICES ASSUME OneCopy(pasted[n].id), NEW i \in 1 .. inc.index
                     PROVE  /\ <<n, i>> \in DOMAIN dsk
                            /\ dsk[<<n, i>>] = Whole(pasted[n].copy, i)
          <6>1. next - 1 = inc.index
            BY <2>2
          <6> QED
            BY <6>1 DEF Upto
        <5>1. CASE i = inc.index
          <6>1. all = Portion(pasted[n].copy, inc.index, Copies[pasted[n].copy][inc.index])
            BY <2>1, <3>1, <4>3 DEF PullOf, Open
          <6> QED
            BY <2>2, <2>3, <2>4, <5>1, <6>1 DEF Portion, Whole
        <5>2. CASE i # inc.index
          <6>1. i \in 1 .. inc.index - 1
            BY <2>2, <5>2
          <6> QED
            BY <2>8, <6>1 DEF Upto
        <5> QED
          BY <5>1, <5>2
      <4>6. next \in 1 .. Len(inc.said) + 1
        BY <2>2, LenProperties
      <4>7. Turn(d, n) /\ Speaks(d, q)
        <5>1. /\ next \in 1 .. Len(inc.said) + 1 /\ Upto(dsk, inc.ticket, next - 1)
              /\ Clean(dsk, inc.ticket, {}) /\ Advance(d, t, inc, next, dsk, TRUE, q)
          BY <4>1, <4>4, <4>5, <4>6
        <5>2. Turn(d, inc.ticket) /\ Speaks(d, q)
          BY <2>6, <5>1, AdvanceTurns
        <5> QED
          BY <5>2
      <4> QED
        BY <1>2, <4>7
    <3> QED
      BY <3>2, <3>3
  <2> QED
    BY <2>9, <2>10
<1> QED
  BY <1>1, <1>2

\* A piece that is read is of the copy served under that name.
LEMMA PieceOfIs ==
  ASSUME Naming, NEW d \in Devices, NEW to, NEW k
  PROVE  Well(PieceOf(d, to, k))
<1> PICK found : found = {i \in DOMAIN offered[d] : offered[d][i].id = k.id}
  OBVIOUS
<1>1. CASE found = {}
  <2>1. PieceOf(d, to, k) = Abort(to, k.id)
    BY <1>1 DEF PieceOf
  <2> QED
    BY <2>1, Plain
<1>2. CASE found # {}
  <2> PICK j : j = CHOOSE i \in found : TRUE
    OBVIOUS
  <2> PICK o : o = offered[d][j]
    OBVIOUS
  <2>1. o \in announced /\ o.id = k.id
    <3>1. j \in found
      BY <1>2
    <3>2. j \in DOMAIN offered[d] /\ o.id = k.id
      BY <3>1
    <3>3. o \in Elems(offered[d])
      BY <3>2 DEF Elems
    <3> QED
      BY <3>2, <3>3 DEF Naming
  <2> PICK copy, size : copy = o.copy /\ size = sizes[copy][k.index]
    OBVIOUS
  <2> PICK next : next = <<<<copy, k.index, k.at + 1>>>>
    OBVIOUS
  <2> PICK last : last = (k.at + 1 >= size)
    OBVIOUS
  <2>2. Good(k, <<>>) /\ Good(k, next)
    BY <2>1 DEF Good
  <2>3. \/ PieceOf(d, to, k) = Abort(to, k.id)
        \/ PieceOf(d, to, k) = Chunk(to, k, <<>>, last)
        \/ PieceOf(d, to, k) = Chunk(to, k, next, last)
    BY DEF PieceOf
  <2> QED
    BY <2>2, <2>3, Plain
<1> QED
  BY <1>1, <1>2

\* The end of a turn: what is said is sound, and nothing is pulled meanwhile or the
\* pull of one paste went on or ended.
Worked(d, q) ==
  /\ Speaks(d, q)
  /\ \/ UNCHANGED <<incoming, disk, answers>>
     \/ incoming[d] # None /\ Turn(d, incoming[d].ticket)

LEMMA ApplyTurns ==
  ASSUME Naming, Holding, Still, NEW d \in Devices, NEW r, Turned(r), NEW ok, NEW q,
         Apply(d, r, ok, q)
  PROVE  Worked(d, q)
<1> PICK out, first : out = r.out /\ first = Head(out)
  OBVIOUS
<1>1. IsTransfer(r.t) /\ IsSeq(out)
  BY DEF Turned, Sound
<1>2. CASE out # <<>> /\ first.type = "ReadFile"
  <2> PICK said : said = <<PieceOf(d, first.to, first.key)>>
    OBVIOUS
  <2>1. Passes(d, r.t, said, q)
    BY <1>2 DEF Apply
  <2>2. IsSeq(said) /\ Messages(said)
    <3>1. IsSeq(said) /\ Elems(said) = {PieceOf(d, first.to, first.key)}
      BY FewIs
    <3> QED
      BY <3>1, PieceOfIs DEF Messages
  <2> QED
    BY <1>1, <2>1, <2>2, SpeaksOf DEF Passes, Worked
<1>3. CASE out # <<>> /\ first.type = "Chunk"
  <2>1. PieceArrived(d, r.t, first, ok, q)
    BY <1>3 DEF Apply
  <2>2. Good(first.key, first.data)
    <3>1. ~Messages(out)
      <4>1. first \in Elems(out)
        BY <1>1, <1>3, TailIs
      <4> QED
        BY <1>3, <4>1 DEF Messages, Well
    <3>2. PICK o : out = <<o>> /\ Deed(o)
      BY <3>1 DEF Turned, Sound
    <3>3. first = o
      BY <3>2
    <3> QED
      BY <1>3, <3>2, <3>3 DEF Deed
  <2> QED
    BY <1>1, <2>1, <2>2, PieceTurns DEF Worked
<1>4. CASE ~(out # <<>> /\ first.type = "ReadFile") /\ ~(out # <<>> /\ first.type = "Chunk")
  <2>1. Messages(out)
    <3> SUFFICES ASSUME NEW o, out = <<o>>, Deed(o) PROVE FALSE
      BY DEF Turned, Sound
    <3>1. out # <<>> /\ first = o
      OBVIOUS
    <3> QED
      BY <1>4, <3>1 DEF Deed
  <2>2. CASE Passes(d, r.t, out, q)
    BY <1>1, <2>1, <2>2, SpeaksOf DEF Passes, Worked
  <2>3. CASE incoming[d] # None /\ Finish(d, r.t, incoming[d], disk, "failed", out, q)
    <3> PICK inc : inc = incoming[d]
      OBVIOUS
    <3>1. /\ Amid(d, inc, disk) /\ inc.writing /\ Clean(disk, inc.ticket, {Slot(inc)})
      BY <2>3, OwnClean DEF Writes
    <3>2. Turn(d, inc.ticket)
      BY <2>3, <3>1, FinishTurns
    <3>3. Speaks(d, q)
      BY <1>1, <2>1, <2>3, SpeaksOf DEF Finish
    <3> QED
      BY <2>3, <3>2, <3>3 DEF Worked
  <2> QED
    BY <1>4, <2>2, <2>3 DEF Apply
<1> QED
  BY <1>2, <1>3, <1>4

-----------------------------------------------------------------------------
(* Every step keeps it.                                                    *)

LEMMA WorkedKeeps ==
  ASSUME Sharings, Still, UNCHANGED <<offered, counter, pulls>>, NEW d \in Devices, NEW q,
         Mailed(q.up), Mailed(q.down), Worked(d, q)
  PROVE  Sharings'
<1>1. Naming'
  BY DEF Sharings, Naming, OnDevices, Still
<1>2. Carrying'
  BY EndsKeep DEF Sharings, Worked, Still
<1>3. Shorter(d)
  BY SameIsShorter DEF Sharings
<1>4. CASE UNCHANGED <<incoming, disk, answers>>
  <2>1. answers' = [k \in DOMAIN answers' |-> answers'[k]] /\ DOMAIN answers' \subseteq DOMAIN pasted
    BY <1>4 DEF Sharings, Holding
  <2>2. \A k \in DOMAIN answers' : k \in DOMAIN answers /\ answers'[k] = answers[k]
    BY <1>4
  <2>3. Holding'
    BY <1>3, <1>4, <2>1, <2>2, AnswerKeeps DEF Sharings
  <2> QED
    BY <1>1, <1>2, <2>3 DEF Sharings
<1>5. CASE incoming[d] # None /\ Turn(d, incoming[d].ticket)
  <2> PICK inc, n : inc = incoming[d] /\ n = inc.ticket
    OBVIOUS
  <2>1. n \in DOMAIN pasted /\ pasted[n].at = d
    BY <1>5 DEF Sharings, Holding, Writing, Writes, PullOf, Open
  <2>2. \A p \in Elems(pulls'[d]) : p.ticket # n
    BY <1>5 DEF Sharings, Holding, Queued
  <2>3. Holding'
    BY <1>3, <1>5, <2>1, <2>2, TurnKeeps DEF Sharings
  <2> QED
    BY <1>1, <1>2, <2>3 DEF Sharings
<1> QED
  BY <1>4, <1>5 DEF Worked

LEMMA QueuesAre ==
  ASSUME Carrying
  PROVE  /\ Queues.up = up /\ Queues.down = downward
         /\ Mailed(Queues.up) /\ Mailed(Queues.down)
BY DEF Carrying, Queues

\* Some of the messages to or from one machine, of what there were.
LEMMA MailedSome ==
  ASSUME NEW u, Mailed(u), NEW c \in Clients, NEW v, IsSeq(v), Elems(v) \subseteq Elems(u[c])
  PROVE  Mailed([u EXCEPT ![c] = v])
<1> PICK w : w = [u EXCEPT ![c] = v]
  OBVIOUS
<1>1. w = [e \in Clients |-> w[e]] /\ w[c] = v /\ \A e \in Clients \ {c} : w[e] = u[e]
  BY DEF Mailed
<1> QED
  BY <1>1 DEF Mailed

LEMMA MailedTail ==
  ASSUME NEW u, Mailed(u), NEW c \in Clients, u[c] # <<>>
  PROVE  Mailed([u EXCEPT ![c] = Tail(@)]) /\ Well(Head(u[c]))
<1>1. IsSeq(u[c]) /\ \A m \in Elems(u[c]) : Well(m)
  BY DEF Mailed
<1>2. IsSeq(Tail(u[c])) /\ Elems(Tail(u[c])) \subseteq Elems(u[c]) /\ Head(u[c]) \in Elems(u[c])
  BY <1>1, TailIs
<1> QED
  BY <1>1, <1>2, MailedSome

LEMMA TakeInKeeps ==
  ASSUME Sharings, NEW c \in Clients, TakeIn(c)
  PROVE  Sharings'
<1> PICK gone : gone = PeerGone(tr[Hub], c)
  OBVIOUS
<1> PICK r : r = [gone EXCEPT !.t = PeerUp(@, c)]
  OBVIOUS
<1>1. Apply(Hub, r, TRUE, Queues) /\ Still /\ UNCHANGED <<offered, counter, pulls>>
  BY DEF TakeIn, Elsewhere, Still
<1>2. Hub \in Devices /\ IsTransfer(tr[Hub])
  BY HubAssumption DEF Sharings, Carrying
<1>3. Turned(gone)
  BY <1>2, PeerGoneIs
<1>4. \E t, out : gone = Done(t, out)
  BY DEF PeerGone
<1>5. r.t = PeerUp(gone.t, c) /\ r.out = gone.out
  BY <1>4 DEF Done
<1>6. Turned(r)
  BY <1>3, <1>5, PeerUpIs DEF Turned
<1>7. Mailed(Queues.up) /\ Mailed(Queues.down)
  BY QueuesAre DEF Sharings
<1>8. Worked(Hub, Queues)
  BY <1>1, <1>2, <1>6, ApplyTurns DEF Sharings
<1> QED
  BY <1>1, <1>2, <1>7, <1>8, WorkedKeeps

LEMMA LosesKeeps ==
  ASSUME Sharings, NEW d \in Devices, NEW p, Apply(d, PeerGone(tr[d], p), TRUE, Queues),
         UNCHANGED Elsewhere
  PROVE  Sharings'
<1>1. Still /\ UNCHANGED <<offered, counter, pulls>>
  BY DEF Elsewhere, Still
<1>2. Turned(PeerGone(tr[d], p))
  BY PeerGoneIs DEF Sharings, Carrying
<1>3. Mailed(Queues.up) /\ Mailed(Queues.down)
  BY QueuesAre DEF Sharings
<1>4. Worked(d, Queues)
  BY <1>1, <1>2, ApplyTurns DEF Sharings
<1> QED
  BY <1>1, <1>3, <1>4, WorkedKeeps

LEMMA HubHearsKeeps ==
  ASSUME Sharings, NEW c \in Clients, NEW ok, HubHears(c, ok)
  PROVE  Sharings'
<1> PICK q : q = [Queues EXCEPT !.up[c] = Tail(@)]
  OBVIOUS
<1> PICK r : r = PeerSaid(Hub, tr[Hub], c, Head(up[c]))
  OBVIOUS
<1>1. Still /\ UNCHANGED <<offered, counter, pulls>> /\ Apply(Hub, r, ok, q) /\ up[c] # <<>>
  BY DEF HubHears, Elsewhere, Still
<1>2. Hub \in Devices /\ IsTransfer(tr[Hub]) /\ Mailed(up) /\ Mailed(downward)
  BY HubAssumption DEF Sharings, Carrying
<1>3. q.up = [up EXCEPT ![c] = Tail(@)] /\ q.down = downward
  BY DEF Queues
<1>4. Mailed(q.up) /\ Mailed(q.down) /\ Well(Head(up[c]))
  BY <1>1, <1>2, <1>3, MailedTail
<1>5. Worked(Hub, q)
  BY <1>1, <1>2, <1>4, PeerSaidIs, ApplyTurns DEF Sharings
<1> QED
  BY <1>1, <1>2, <1>4, <1>5, WorkedKeeps

LEMMA ClientHearsKeeps ==
  ASSUME Sharings, NEW c \in Clients, NEW ok, ClientHears(c, ok)
  PROVE  Sharings'
<1> PICK q : q = [Queues EXCEPT !.down[c] = Tail(@)]
  OBVIOUS
<1> PICK r : r = PeerSaid(c, tr[c], Hub, Head(downward[c]))
  OBVIOUS
<1>1. Still /\ UNCHANGED <<offered, counter, pulls>> /\ Apply(c, r, ok, q) /\ downward[c] # <<>>
  BY DEF ClientHears, Elsewhere, Still
<1>2. c \in Devices /\ IsTransfer(tr[c]) /\ Mailed(up) /\ Mailed(downward)
  BY DEF Clients, Sharings, Carrying
<1>3. q.up = up /\ q.down = [downward EXCEPT ![c] = Tail(@)]
  BY DEF Queues
<1>4. Mailed(q.up) /\ Mailed(q.down) /\ Well(Head(downward[c]))
  BY <1>1, <1>2, <1>3, MailedTail
<1>5. Worked(c, q)
  BY <1>1, <1>2, <1>4, PeerSaidIs, ApplyTurns DEF Sharings
<1> QED
  BY <1>1, <1>2, <1>4, <1>5, WorkedKeeps

\* A pull that is refused fails; one that is begun is of a paste nothing pulls yet.
LEMMA PullFilesKeeps ==
  ASSUME Sharings, NEW d \in Devices, NEW ok, PullFiles(d, ok)
  PROVE  Sharings'
<1> PICK pull, n : pull = Head(pulls[d]) /\ n = pull.ticket
  OBVIOUS
<1> PICK said : said = Copies[pull.copy]
  OBVIOUS
<1>1. /\ Still /\ UNCHANGED <<offered, counter>> /\ BeginPull(d, pull, ok)
      /\ pulls[d] # <<>> /\ pulls' = [pulls EXCEPT ![d] = Tail(@)]
  BY DEF PullFiles, Still
<1>2. /\ Shorter(d) /\ pull \in Elems(pulls[d])
      /\ \A p \in Elems(pulls'[d]) : p.ticket # n
  BY <1>1, TakenIsShorter DEF Sharings
<1>3. Open(d, n, pull.id) /\ pull.copy = pasted[n].copy
  BY <1>2 DEF Sharings, Holding, Queued
<1>4. n \in Nat /\ pull.id \in Ids /\ said \in Seq(Nat) /\ n \in DOMAIN pasted
  <2>1. n \in DOMAIN pasted /\ pasted[n].id = pull.id
    BY <1>3 DEF Open
  <2>2. pasted \in Seq([at : Devices, id : Ids, copy : DOMAIN Copies])
    BY DEF Sharings, Naming
  <2>3. n \in 1 .. Len(pasted) /\ Len(pasted) \in Nat
    BY <2>1, <2>2, LenProperties
  <2>4. pasted[n] \in [at : Devices, id : Ids, copy : DOMAIN Copies]
    BY <2>2, <2>3, ElementOfSeq
  <2>5. \A i \in DOMAIN Copies : Copies[i] \in Seq(Nat)
    BY CopiesAssumption, LenProperties, ElementOfSeq
  <2> QED
    BY <1>3, <2>1, <2>3, <2>4, <2>5
<1>5. Naming'
  BY <1>1 DEF Sharings, Naming, OnDevices, Still
<1>6. CASE Refused(d, said) /\ Told(n, "failed") /\ UNCHANGED <<tr, incoming, disk, up, downward>>
  <2>1. /\ answers' = [k \in DOMAIN answers' |-> answers'[k]]
        /\ DOMAIN answers' \subseteq DOMAIN pasted
        /\ \A k \in DOMAIN answers' : \/ k \in DOMAIN answers /\ answers'[k] = answers[k]
                                     \/ answers'[k] = "failed"
    <3>1. CASE n \in DOMAIN answers
      BY <1>6, <3>1 DEF Told, Sharings, Holding
    <3>2. CASE n \notin DOMAIN answers
      BY <1>4, <1>6, <3>2 DEF Told, With, Sharings, Holding
    <3> QED
      BY <3>1, <3>2
  <2>2. Holding'
    BY <1>1, <1>2, <1>6, <2>1, AnswerKeeps DEF Sharings
  <2>3. Carrying'
    BY <1>1, <1>6 DEF Sharings, Carrying, Mailed, Well, Good, OnDevices, Still
  <2> QED
    BY <1>5, <2>2, <2>3 DEF Sharings
<1>7. CASE ~Refused(d, said)
  <2>1. IsTransfer(tr[d]) /\ Holding
    BY DEF Sharings, Carrying
  <2>2. Turn(d, n) /\ Speaks(d, Queues) /\ incoming[d] = None
    BY <1>1, <1>3, <1>4, <1>7, <2>1, BeginPullTurns
  <2>3. pasted[n].at = d
    BY <1>3 DEF Open
  <2>4. Holding'
    BY <1>1, <1>2, <1>4, <2>1, <2>2, <2>3, TurnKeeps
  <2>5. Mailed(Queues.up) /\ Mailed(Queues.down)
    BY QueuesAre DEF Sharings
  <2>6. Carrying'
    BY <1>1, <2>2, <2>5, EndsKeep DEF Sharings, Still
  <2> QED
    BY <1>5, <2>4, <2>6 DEF Sharings
<1> QED
  BY <1>1, <1>6, <1>7 DEF BeginPull

-----------------------------------------------------------------------------
(* The links, and what else happens.                                       *)

\* What the machines hold depends on nothing else.
LEMMA HoldingStays ==
  ASSUME Holding, Still, UNCHANGED <<incoming, disk, answers, pulls>>
  PROVE  Holding'
<1>1. \A k, m : Upto(disk, k, m)' <=> Upto(disk, k, m)
  BY NamesStay DEF Upto, Still
<1>2. \A e \in Devices : Queued(e)'
  BY DEF Holding, Queued, Open, Still
<1>3. \A e \in Devices : Writing(e)'
  <2> SUFFICES ASSUME NEW e \in Devices, incoming[e] # None
               PROVE  Writes(e, incoming[e], disk)'
    BY DEF Writing
  <2>1. Writes(e, incoming[e], disk)
    BY DEF Holding, Writing
  <2>2. PullOf(e, incoming[e])'
    BY <2>1 DEF Writes, PullOf, Open, Still
  <2> QED
    BY <1>1, <2>1, <2>2, NamesStay DEF Writes, Still
<1>4. NoHalfFiles' /\ OnDisk(disk)'
  BY DEF Holding, NoHalfFiles, Slot, OnDisk, Places, Still
<1> QED
  BY <1>1, <1>2, <1>3, <1>4 DEF Holding, OnDevices, Still

LEMMA NamingStays ==
  ASSUME Naming, UNCHANGED <<announced, counter, offered, pasted>>
  PROVE  Naming'
BY DEF Naming, OnDevices

\* What is on the links is as good as it was.
LEMMA MailedStays ==
  ASSUME NEW u, Mailed(u), announced \subseteq announced'
  PROVE  Mailed(u)'
<1>1. \A k, data : Good(k, data) => Good(k, data)'
  BY DEF Good
<1>2. \A m : Well(m) => Well(m)'
  BY <1>1 DEF Well
<1> QED
  BY <1>2 DEF Mailed

LEMMA ConnectKeeps ==
  ASSUME Sharings, NEW c \in Clients, Connect(c)
  PROVE  Sharings'
<1> PICK u, v : u = up' /\ v = downward'
  OBVIOUS
<1>1. Still /\ UNCHANGED <<announced, counter, offered, pasted, pulls, incoming, disk, answers>>
  BY DEF Connect, Elsewhere, Still
<1>2. Naming' /\ Holding'
  BY <1>1, HoldingStays, NamingStays DEF Sharings
<1>3. c \in Devices /\ IsTransfer(tr[c])
  BY DEF Clients, Sharings, Carrying
<1>4. \A e \in Devices : tr'[e] = IF e = c THEN PeerUp(tr[c], Hub) ELSE tr[e]
  BY <1>3 DEF Connect, Sharings, Carrying, OnDevices
<1>5. OnDevices(tr') /\ \A e \in Devices : IsTransfer(tr'[e])
  <2>1. OnDevices(tr')
    BY <1>3 DEF Connect, Sharings, Carrying, OnDevices
  <2> QED
    BY <1>3, <1>4, <2>1, PeerUpIs DEF Sharings, Carrying
<1> PICK none : none = <<>>
  OBVIOUS
<1>6. IsSeq(none) /\ Elems(none) \subseteq Elems(up[c]) /\ Elems(none) \subseteq Elems(downward[c])
  <2>1. Elems(none) = {}
    BY DEF Elems
  <2> QED
    BY <2>1, SilenceIs
<1>10. Mailed(up) /\ Mailed(downward)
  BY DEF Sharings, Carrying
<1>11. Mailed([up EXCEPT ![c] = none]) /\ Mailed([downward EXCEPT ![c] = none])
  BY <1>6, <1>10, MailedSome
<1>12. u = [up EXCEPT ![c] = none] /\ v = [downward EXCEPT ![c] = none]
  BY DEF Connect
<1>7. Mailed(u) /\ Mailed(v)
  BY <1>11, <1>12
<1>8. Mailed(u)' /\ Mailed(v)'
  BY <1>1, <1>7, MailedStays
<1>9. Carrying'
  BY <1>5, <1>8 DEF Carrying, OnDevices
<1> QED
  BY <1>2, <1>9 DEF Sharings

\* What was on the link is lost, but for the beginning of it.
LEMMA CutKeeps ==
  ASSUME Sharings, NEW c \in Clients, Cut(c)
  PROVE  Sharings'
<1> PICK u, v : u = up' /\ v = downward'
  OBVIOUS
<1>1. Still /\ UNCHANGED <<announced, counter, offered, pasted, pulls, incoming, disk, answers, tr>>
  BY DEF Cut, Elsewhere, sharing, Still
<1>2. Naming' /\ Holding'
  BY <1>1, HoldingStays, NamingStays DEF Sharings
<1>3. PICK n \in 0 .. Len(downward[c]), m \in 0 .. Len(up[c]) :
        /\ v = [downward EXCEPT ![c] = SubSeq(@, 1, n)]
        /\ u = [up EXCEPT ![c] = SubSeq(@, 1, m)]
  BY DEF Cut
<1>4. IsSeq(downward[c]) /\ IsSeq(up[c]) /\ Mailed(up) /\ Mailed(downward)
  BY DEF Sharings, Carrying, Mailed
<1> PICK few, less : few = SubSeq(downward[c], 1, n) /\ less = SubSeq(up[c], 1, m)
  OBVIOUS
<1>5. IsSeq(few) /\ Elems(few) \subseteq Elems(downward[c])
  BY <1>4, CutIs
<1>6. IsSeq(less) /\ Elems(less) \subseteq Elems(up[c])
  BY <1>4, CutIs
<1>11. v = [downward EXCEPT ![c] = few] /\ u = [up EXCEPT ![c] = less]
  BY <1>3
<1>12. Mailed([downward EXCEPT ![c] = few])
  BY <1>4, <1>5, MailedSome
<1>13. Mailed([up EXCEPT ![c] = less])
  BY <1>4, <1>6, MailedSome
<1>7. Mailed(v)
  BY <1>11, <1>12
<1>10. Mailed(u)
  BY <1>11, <1>13
<1>8. Mailed(u)' /\ Mailed(v)'
  BY <1>1, <1>7, <1>10, MailedStays
<1>9. Carrying'
  BY <1>1, <1>8 DEF Sharings, Carrying, OnDevices
<1> QED
  BY <1>2, <1>9 DEF Sharings

\* The application stops waiting; the pull goes on.
LEMMA GiveUpKeeps ==
  ASSUME Sharings, NEW n \in DOMAIN pasted, GiveUp(n)
  PROVE  Sharings'
<1>1. /\ Still /\ n \in DOMAIN pasted /\ n \notin DOMAIN answers
      /\ UNCHANGED <<announced, counter, offered, pasted, pulls, incoming, disk, tr, up, downward>>
      /\ answers' = With(answers, n, "failed")
  BY DEF GiveUp, links, Still
<1>2. /\ answers' = [k \in DOMAIN answers' |-> answers'[k]]
      /\ DOMAIN answers' \subseteq DOMAIN pasted
      /\ \A k \in DOMAIN answers' : \/ k \in DOMAIN answers /\ answers'[k] = answers[k]
                                   \/ answers'[k] = "failed"
  BY <1>1 DEF With, Sharings, Holding
<1>3. Hub \in Devices /\ Holding
  BY HubAssumption DEF Sharings
<1>4. Shorter(Hub)
  BY <1>1, <1>3, SameIsShorter
<1>5. Holding'
  BY <1>1, <1>2, <1>3, <1>4, AnswerKeeps
<1>6. Mailed(up)' /\ Mailed(downward)'
  BY <1>1, MailedStays DEF Sharings, Carrying, Mailed, Well, Good
<1>7. Carrying'
  BY <1>1, <1>6 DEF Sharings, Carrying, OnDevices
<1> QED
  BY <1>1, <1>5, <1>7, NamingStays DEF Sharings

\* Files edited, files turned off or on, or nothing at all.
LEMMA AsideKeeps ==
  ASSUME Sharings, UNCHANGED <<announced, counter, offered, pasted, pulls, incoming, disk,
                               answers, tr, up, downward, orphans>>
  PROVE  Sharings'
<1>1. Naming' /\ Holding'
  BY HoldingStays, NamingStays DEF Sharings, Still
<1>2. Mailed(up)' /\ Mailed(downward)'
  BY MailedStays DEF Sharings, Carrying, Mailed, Well, Good
<1>3. Carrying'
  BY <1>2 DEF Sharings, Carrying, OnDevices
<1> QED
  BY <1>1, <1>3 DEF Sharings

-----------------------------------------------------------------------------
(* A copy that is announced, and a paste.                                  *)

\* More copies may only take from what has a single name.
LEMMA MoreNames ==
  ASSUME announced \subseteq announced'
  PROVE  \A id : OneCopy(id)' => OneCopy(id)
BY DEF OneCopy

LEMMA AnnounceKeeps ==
  ASSUME Sharings, NEW d \in Devices, Announce(d)
  PROVE  Sharings'
<1> PICK new : new = [id |-> [device |-> d, counter |-> counter[d]],
                      copy |-> Cardinality(announced) + 1]
  OBVIOUS
<1> PICK kept, q : kept = Append(offered[d], new) /\ q = offered'[d]
  OBVIOUS
<1>1. /\ announced' = announced \cup {new}
      /\ offered' = [offered EXCEPT ![d] = IF Len(kept) > Kept THEN Tail(kept) ELSE kept]
      /\ Cardinality(announced) < Len(Copies)
      /\ counter' = [counter EXCEPT ![d] = @ + 1]
      /\ UNCHANGED <<pasted, pulls, incoming, disk, answers, tr, up, downward, orphans>>
  BY DEF Announce, sharing, links
<1>2. announced \subseteq announced' /\ \A id : OneCopy(id)' => OneCopy(id)
  BY <1>1, MoreNames
<1>3. new \in [id : Ids, copy : DOMAIN Copies]
  <2>1. Cardinality(announced) \in Nat
    BY FS_CardinalityType DEF Sharings, Naming
  <2>2. Len(Copies) \in Nat /\ DOMAIN Copies = 1 .. Len(Copies)
    BY CopiesAssumption, LenProperties
  <2>3. Cardinality(announced) + 1 \in DOMAIN Copies
    BY <1>1, <2>1, <2>2
  <2>4. counter[d] \in Nat
    BY DEF Sharings, Naming
  <2> QED
    BY <2>3, <2>4 DEF Ids
<1>4. announced' \in SUBSET [id : Ids, copy : DOMAIN Copies] /\ IsFiniteSet(announced')
  <2>1. IsFiniteSet(announced \cup {new})
    <3>1. IsFiniteSet(announced)
      BY DEF Sharings, Naming
    <3> QED
      BY <3>1, FS_AddElement
  <2>2. announced \cup {new} \subseteq [id : Ids, copy : DOMAIN Copies]
    BY <1>3 DEF Sharings, Naming
  <2> QED
    BY <1>1, <2>1, <2>2
<1>5. counter' \in [Devices -> Nat]
  BY <1>1 DEF Sharings, Naming
<1>6. IsSeq(kept) /\ Elems(kept) \subseteq announced' /\ kept # <<>>
  <2>1. offered[d] \in Seq(announced')
    <3>1. IsSeq(offered[d]) /\ Elems(offered[d]) \subseteq announced
      BY DEF Sharings, Naming
    <3> QED
      BY <1>1, <3>1, SeqMonotonic DEF IsSeq
  <2>2. new \in announced'
    BY <1>1
  <2>3. kept \in Seq(announced') /\ kept # <<>>
    BY <2>1, <2>2, AppendProperties
  <2> QED
    BY <2>3, IsOne
<1>7. OnDevices(offered') /\ \A e \in Devices : e # d => offered'[e] = offered[e]
  BY <1>1 DEF Sharings, Naming, OnDevices
<1>8. IsSeq(q) /\ Elems(q) \subseteq announced'
  <2>1. q = Tail(kept) \/ q = kept
    BY <1>1 DEF Sharings, Naming, OnDevices
  <2>2. IsSeq(Tail(kept)) /\ Elems(Tail(kept)) \subseteq Elems(kept)
    BY <1>6, TailIs
  <2> QED
    BY <1>6, <2>1, <2>2
<1>9. \A e \in Devices : IsSeq(offered'[e]) /\ Elems(offered'[e]) \subseteq announced'
  BY <1>2, <1>7, <1>8 DEF Sharings, Naming
<1>10. Naming'
  BY <1>1, <1>2, <1>4, <1>5, <1>7, <1>9 DEF Sharings, Naming, OnDevices
<1>11. Mailed(up)' /\ Mailed(downward)'
  <2> PICK u, v : u = up /\ v = downward
    OBVIOUS
  <2>1. Mailed(u)' /\ Mailed(v)'
    BY <1>2, MailedStays DEF Sharings, Carrying
  <2> QED
    BY <1>1, <2>1
<1>12. Carrying'
  BY <1>1, <1>11 DEF Sharings, Carrying, OnDevices
<1>13. \A k, m : Upto(disk, k, m) => Upto(disk, k, m)'
  BY <1>1, <1>2 DEF Upto
<1>14. \A e \in Devices : Queued(e)'
  BY <1>1 DEF Sharings, Holding, Queued, Open
<1>15. ASSUME NEW e \in Devices PROVE Writing(e)'
  <2> SUFFICES ASSUME incoming[e] # None PROVE Writes(e, incoming[e], disk)'
    BY <1>1 DEF Writing
  <2> PICK inc : inc = incoming[e]
    OBVIOUS
  <2>1. Writes(e, inc, disk)
    BY DEF Sharings, Holding, Writing
  <2>2. PullOf(e, inc)'
    BY <1>1, <2>1 DEF Writes, PullOf, Open
  <2>3. Upto(disk, inc.ticket, inc.index - 1)'
    BY <1>13, <2>1 DEF Writes
  <2>4. Writes(e, inc, disk)'
    BY <1>1, <1>2, <2>1, <2>2, <2>3 DEF Writes
  <2> QED
    BY <1>1, <2>4
<1>16. NoHalfFiles' /\ OnDisk(disk)'
  BY <1>1 DEF Sharings, Holding, NoHalfFiles, Slot, OnDisk, Places
<1>17. ASSUME NEW k \in DOMAIN answers, answers[k] = "landed"
       PROVE  Upto(disk, k, Len(Copies[pasted[k].copy]))'
  <2> PICK m : m = Len(Copies[pasted[k].copy])
    OBVIOUS
  <2>1. Upto(disk, k, m)'
    BY <1>13, <1>17 DEF Sharings, Holding
  <2> QED
    BY <1>1, <2>1
<1>18. Holding'
  BY <1>1, <1>14, <1>15, <1>16, <1>17 DEF Sharings, Holding, OnDevices
<1> QED
  BY <1>10, <1>12, <1>18 DEF Sharings

\* A paste is the next one; it waits behind what its machine pasted before.
LEMMA PasteKeeps ==
  ASSUME Sharings, NEW d \in Devices, Paste(d)
  PROVE  Sharings'
<1> DEFINE Pastes == [at : Devices, id : Ids, copy : DOMAIN Copies]
<1> PICK n : n = Len(pasted) + 1
  OBVIOUS
<1>1. PICK a \in announced :
        /\ pasted' = Append(pasted, [at |-> d, id |-> a.id, copy |-> a.copy])
        /\ pulls' = [pulls EXCEPT ![d] = Append(@,
             [ticket |-> Len(pasted'), id |-> a.id, copy |-> a.copy])]
  BY DEF Paste
<1>2. UNCHANGED <<announced, counter, offered, incoming, disk, answers, tr, up, downward, orphans>>
  BY DEF Paste, sharing, links
<1> PICK paste, pull, q, r : /\ paste = [at |-> d, id |-> a.id, copy |-> a.copy]
                             /\ pull = [ticket |-> n, id |-> a.id, copy |-> a.copy]
                             /\ q = pulls[d] /\ r = pulls'[d]
  OBVIOUS
<1>3. paste \in Pastes /\ pasted \in Seq(Pastes) /\ Len(pasted) \in Nat
  <2>1. a.id \in Ids /\ a.copy \in DOMAIN Copies
    BY DEF Sharings, Naming
  <2>2. pasted \in Seq(Pastes)
    BY DEF Sharings, Naming
  <2> QED
    BY <2>1, <2>2, LenProperties
<1>4. /\ pasted' \in Seq(Pastes) /\ Len(pasted') = n /\ DOMAIN pasted' = 1 .. n /\ n \in Nat
      /\ DOMAIN pasted = 1 .. Len(pasted) /\ n \notin DOMAIN pasted
      /\ pasted'[n] = paste /\ \A k \in DOMAIN pasted : pasted'[k] = pasted[k]
  <2>1. pasted' = Append(pasted, paste)
    BY <1>1
  <2>2. /\ Append(pasted, paste) \in Seq(Pastes)
        /\ Len(Append(pasted, paste)) = Len(pasted) + 1
        /\ \A i \in 1 .. Len(pasted) : Append(pasted, paste)[i] = pasted[i]
        /\ Append(pasted, paste)[Len(pasted) + 1] = paste
    BY <1>3, AppendProperties
  <2>3. DOMAIN pasted = 1 .. Len(pasted) /\ DOMAIN pasted' = 1 .. Len(pasted')
    BY <1>3, <2>1, <2>2, LenProperties
  <2> QED
    BY <1>3, <2>1, <2>2, <2>3
<1>5. Naming'
  <2>1. \A k \in DOMAIN pasted' :
          \E b \in announced : b.id = pasted'[k].id /\ b.copy = pasted'[k].copy
    <3> SUFFICES ASSUME NEW k \in DOMAIN pasted'
                 PROVE  \E b \in announced : b.id = pasted'[k].id /\ b.copy = pasted'[k].copy
      OBVIOUS
    <3>1. CASE k \in DOMAIN pasted
      BY <1>4, <3>1 DEF Sharings, Naming
    <3>2. CASE k \notin DOMAIN pasted
      <4>1. k = n
        BY <1>3, <1>4, <3>2
      <4> QED
        BY <1>4, <4>1
    <3> QED
      BY <3>1, <3>2
  <2> QED
    BY <1>2, <1>4, <2>1 DEF Sharings, Naming, OnDevices
<1>6. Carrying'
  <2>1. Mailed(up)' /\ Mailed(downward)'
    BY <1>2, MailedStays DEF Sharings, Carrying, Mailed, Well, Good
  <2> QED
    BY <1>2, <2>1 DEF Sharings, Carrying, OnDevices
<1>7. \A e, k, id : Open(e, k, id) => Open(e, k, id)'
  BY <1>2, <1>3, <1>4 DEF Open
<1>8. n \notin DOMAIN answers /\ DOMAIN answers \subseteq DOMAIN pasted'
  BY <1>3, <1>4 DEF Sharings, Holding
<1>9. Open(d, n, a.id)'
  BY <1>2, <1>4, <1>8 DEF Open
<1>10. \A k, m : k \in DOMAIN pasted /\ Upto(disk, k, m) => Upto(disk, k, m)'
  BY <1>2, <1>4 DEF Upto, OneCopy
<1>11. ASSUME NEW e \in Devices PROVE Writing(e)'
  <2> SUFFICES ASSUME incoming[e] # None PROVE Writes(e, incoming[e], disk)'
    BY <1>2 DEF Writing
  <2> PICK inc : inc = incoming[e]
    OBVIOUS
  <2>1. Writes(e, inc, disk) /\ inc.ticket \in DOMAIN pasted
    BY DEF Sharings, Holding, Writing, Writes, PullOf, Open
  <2>2. PullOf(e, inc)'
    BY <1>4, <1>7, <2>1 DEF Writes, PullOf
  <2>3. Upto(disk, inc.ticket, inc.index - 1)'
    BY <1>10, <2>1 DEF Writes
  <2>4. Writes(e, inc, disk)'
    BY <1>2, <1>4, <2>1, <2>2, <2>3 DEF Writes, OneCopy
  <2> QED
    BY <1>2, <2>4
<1>12. /\ OnDevices(pulls') /\ r = Append(q, pull)
       /\ \A e \in Devices : e # d => pulls'[e] = pulls[e]
  <2>1. pulls' = [pulls EXCEPT ![d] = Append(q, pull)]
    BY <1>1, <1>4
  <2> QED
    BY <2>1 DEF Sharings, Holding, OnDevices
<1>13. IsSeq(q) /\ \A i, j \in DOMAIN q : i # j => q[i].ticket # q[j].ticket
  BY DEF Sharings, Holding, Queued
<1>22. \A p \in Elems(q) : Open(d, p.ticket, p.id)
  BY DEF Sharings, Holding, Queued
<1>23. \A p \in Elems(q) : p.copy = pasted[p.ticket].copy
  BY DEF Sharings, Holding, Queued
<1>24. \A p \in Elems(q) : incoming[d] # None => incoming[d].ticket # p.ticket
  BY DEF Sharings, Holding, Queued
<1>14. /\ IsSeq(r) /\ DOMAIN r = DOMAIN q \cup {Len(q) + 1} /\ r[Len(q) + 1] = pull
       /\ \A i \in DOMAIN q : r[i] = q[i] /\ q[i] \in Elems(q)
  <2>1. q \in Seq(Elems(q) \cup {pull}) /\ pull \in Elems(q) \cup {pull}
    BY <1>13, SeqMonotonic DEF IsSeq
  <2>2. /\ r \in Seq(Elems(q) \cup {pull}) /\ Len(r) = Len(q) + 1
        /\ \A i \in 1 .. Len(q) : r[i] = q[i]
        /\ r[Len(q) + 1] = pull
    BY <1>12, <2>1, AppendProperties
  <2>3. Len(q) \in Nat /\ DOMAIN q = 1 .. Len(q) /\ DOMAIN r = 1 .. Len(r)
    BY <2>1, <2>2, LenProperties
  <2>4. IsSeq(r)
    BY <2>2, IsOne
  <2>5. \A i \in DOMAIN q : q[i] \in Elems(q)
    BY DEF Elems
  <2>6. 1 .. Len(q) + 1 = 1 .. Len(q) \cup {Len(q) + 1}
    BY <2>3
  <2> QED
    BY <2>2, <2>3, <2>4, <2>5, <2>6
<1>15. \A p \in Elems(q) : p.ticket \in DOMAIN pasted /\ p.ticket # n
  BY <1>4, <1>22 DEF Open
<1>16. \A p \in Elems(r) : p \in Elems(q) \/ p = pull
  BY <1>14 DEF Elems
<1>17. Queued(d)'
  <2>1. IsSeq(pulls[d])'
    BY <1>14
  <2>2. \A p \in Elems(r) : Open(d, p.ticket, p.id)'
    BY <1>7, <1>9, <1>16, <1>22
  <2>3. \A p \in Elems(r) : p.copy = pasted'[p.ticket].copy
    BY <1>4, <1>15, <1>16, <1>23
  <2>4. \A p \in Elems(r) : incoming[d] # None => incoming[d].ticket # p.ticket
    <3>1. incoming[d] # None => incoming[d].ticket \in DOMAIN pasted
      BY DEF Sharings, Holding, Writing, Writes, PullOf, Open
    <3> QED
      BY <1>4, <1>16, <1>24, <3>1
  <2>5. \A i, j \in DOMAIN r : i # j => r[i].ticket # r[j].ticket
    <3> SUFFICES ASSUME NEW i \in DOMAIN r, NEW j \in DOMAIN r, i # j
                 PROVE  r[i].ticket # r[j].ticket
      OBVIOUS
    <3>1. pull.ticket = n
      OBVIOUS
    <3>2. CASE i \in DOMAIN q /\ j \in DOMAIN q
      BY <1>13, <1>14, <3>2
    <3>3. CASE i \in DOMAIN q /\ j \notin DOMAIN q
      BY <1>14, <1>15, <3>1, <3>3
    <3>4. CASE i \notin DOMAIN q
      BY <1>14, <1>15, <3>1, <3>4
    <3> QED
      BY <3>2, <3>3, <3>4
  <2>6. (\A p \in Elems(pulls[d]) : Open(d, p.ticket, p.id))'
    BY <2>2
  <2>7. (\A p \in Elems(pulls[d]) : p.copy = pasted[p.ticket].copy)'
    BY <2>3
  <2>8. (\A p \in Elems(pulls[d]) : incoming[d] # None => incoming[d].ticket # p.ticket)'
    BY <1>2, <2>4
  <2>9. (\A i, j \in DOMAIN pulls[d] : i # j => pulls[d][i].ticket # pulls[d][j].ticket)'
    BY <2>5
  <2> QED
    BY <2>1, <2>6, <2>7, <2>8, <2>9 DEF Queued
<1>18. ASSUME NEW e \in Devices, e # d PROVE Queued(e)'
  <2>1. Queued(e) /\ pulls'[e] = pulls[e]
    BY <1>12, <1>18 DEF Sharings, Holding
  <2>2. \A p \in Elems(pulls[e]) : /\ Open(e, p.ticket, p.id)' /\ p.ticket \in DOMAIN pasted
                                   /\ p.copy = pasted'[p.ticket].copy
    <3>1. \A p \in Elems(pulls[e]) : Open(e, p.ticket, p.id) /\ p.copy = pasted[p.ticket].copy
      BY <2>1 DEF Queued
    <3>2. \A p \in Elems(pulls[e]) : p.ticket \in DOMAIN pasted
      BY <3>1 DEF Open
    <3> QED
      BY <1>4, <1>7, <3>1, <3>2
  <2>3. (\A p \in Elems(pulls[e]) : Open(e, p.ticket, p.id))'
    BY <2>1, <2>2
  <2>4. (\A p \in Elems(pulls[e]) : p.copy = pasted[p.ticket].copy)'
    BY <2>1, <2>2
  <2> QED
    BY <1>2, <2>1, <2>3, <2>4 DEF Queued
<1>19. OnDisk(disk)' /\ NoHalfFiles'
  <2>1. \A x \in DOMAIN disk : x[1] \in DOMAIN pasted /\ x \in (DOMAIN pasted') \X Nat
    BY <1>3, <1>4 DEF Sharings, Holding, OnDisk, Places
  <2>2. OnDisk(disk)'
    BY <1>2, <2>1 DEF Sharings, Holding, OnDisk, Places
  <2> QED
    BY <1>2, <1>4, <2>1, <2>2 DEF Sharings, Holding, NoHalfFiles, Slot
<1>20. ASSUME NEW k \in DOMAIN answers, answers[k] = "landed"
       PROVE  Upto(disk, k, Len(Copies[pasted[k].copy]))'
  <2> PICK m : m = Len(Copies[pasted[k].copy])
    OBVIOUS
  <2>1. k \in DOMAIN pasted /\ pasted'[k] = pasted[k] /\ Upto(disk, k, m)
    BY <1>4, <1>20 DEF Sharings, Holding
  <2>2. Upto(disk, k, m)'
    BY <1>10, <2>1
  <2> QED
    BY <2>1, <2>2
<1>21. Holding'
  BY <1>2, <1>8, <1>11, <1>12, <1>17, <1>18, <1>19, <1>20 DEF Sharings, Holding, OnDevices
<1> QED
  BY <1>5, <1>6, <1>21 DEF Sharings

\* A daemon that is killed forgets what it was doing; what it was writing stays.
LEMMA RestartKeeps ==
  ASSUME Sharings, NEW c \in Clients, Restart(c)
  PROVE  Sharings'
<1> PICK none : none = <<>>
  OBVIOUS
<1>1. /\ UNCHANGED <<announced, pasted, disk, up>>
      /\ tr' = [tr EXCEPT ![c] = NoTransfer] /\ incoming' = [incoming EXCEPT ![c] = None]
      /\ offered' = [offered EXCEPT ![c] = none] /\ counter' = [counter EXCEPT ![c] = 1]
      /\ pulls' = [pulls EXCEPT ![c] = none] /\ downward' = [downward EXCEPT ![c] = none]
      /\ orphans' = IF incoming[c] # None /\ incoming[c].writing
                      THEN orphans \cup {Slot(incoming[c])} ELSE orphans
  BY DEF Restart
<1>2. answers' = [n \in DOMAIN answers \cup {m \in DOMAIN pasted : pasted[m].at = c} |->
                    IF n \in DOMAIN answers THEN answers[n] ELSE "failed"]
  BY DEF Restart
<1>3. c \in Devices /\ IsSeq(none) /\ Elems(none) = {}
  BY SilenceIs DEF Clients, Elems
<1>4. Naming'
  <2>1. OnDevices(offered') /\ offered'[c] = none /\ \A e \in Devices : e # c => offered'[e] = offered[e]
    BY <1>1, <1>3 DEF Sharings, Naming, OnDevices
  <2>2. counter' \in [Devices -> Nat]
    BY <1>1, <1>3 DEF Sharings, Naming
  <2>3. \A e \in Devices : IsSeq(offered'[e]) /\ Elems(offered'[e]) \subseteq announced
    BY <1>3, <2>1 DEF Sharings, Naming
  <2> QED
    BY <1>1, <2>1, <2>2, <2>3 DEF Sharings, Naming, OnDevices
<1>5. Carrying'
  <2>1. IsTransfer(NoTransfer)
    <3>1. DOMAIN <<>> = {} /\ IsFiniteSet({})
      BY FS_EmptySet
    <3> QED
      BY <3>1 DEF NoTransfer, IsTransfer
  <2>2. OnDevices(tr') /\ tr'[c] = NoTransfer /\ \A e \in Devices : e # c => tr'[e] = tr[e]
    BY <1>1, <1>3 DEF Sharings, Carrying, OnDevices
  <2>3. \A e \in Devices : IsTransfer(tr'[e])
    BY <2>1, <2>2 DEF Sharings, Carrying
  <2> PICK u, v : u = up /\ v = downward'
    OBVIOUS
  <2>4. Mailed(u) /\ Mailed(downward)
    BY DEF Sharings, Carrying
  <2>5. Mailed([downward EXCEPT ![c] = none])
    BY <1>3, <2>4, MailedSome
  <2>6. Mailed(v)
    BY <1>1, <2>5
  <2>7. Mailed(u)' /\ Mailed(v)'
    BY <1>1, <2>4, <2>6, MailedStays
  <2> QED
    BY <1>1, <2>2, <2>3, <2>7 DEF Carrying, OnDevices
<1>6. /\ answers' = [k \in DOMAIN answers' |-> answers'[k]]
      /\ DOMAIN answers' \subseteq DOMAIN pasted
      /\ \A k \in DOMAIN answers' : \/ k \in DOMAIN answers /\ answers'[k] = answers[k]
                                   \/ answers'[k] = "failed"
  BY <1>2 DEF Sharings, Holding
<1>7. ASSUME NEW e, NEW k, NEW id, Open(e, k, id) PROVE Open(e, k, id)'
  <2>1. k \in DOMAIN answers' => answers'[k] # "landed"
    BY <1>6, <1>7 DEF Open
  <2> QED
    BY <1>1, <1>7, <2>1 DEF Open
<1>8. /\ OnDevices(incoming') /\ OnDevices(pulls') /\ incoming'[c] = None /\ pulls'[c] = none
      /\ \A e \in Devices : e # c => incoming'[e] = incoming[e] /\ pulls'[e] = pulls[e]
  BY <1>1, <1>3 DEF Sharings, Holding, OnDevices
<1>9. /\ \A k, m : Upto(disk, k, m)' <=> Upto(disk, k, m)
      /\ \A id : OneCopy(id)' <=> OneCopy(id)
  BY <1>1 DEF Upto, OneCopy
<1>10. ASSUME NEW e \in Devices PROVE Writing(e)'
  <2>1. CASE incoming'[e] = None
    BY <2>1 DEF Writing
  <2>2. CASE incoming'[e] # None
    <3> PICK inc : inc = incoming[e]
      OBVIOUS
    <3>1. incoming'[e] = inc /\ inc # None
      BY <1>8, <2>2
    <3>2. Writes(e, inc, disk)
      BY <3>1 DEF Sharings, Holding, Writing
    <3>3. PullOf(e, inc)'
      BY <1>1, <1>7, <3>2 DEF Writes, PullOf
    <3>4. Writes(e, inc, disk)'
      BY <1>1, <1>9, <3>2, <3>3 DEF Writes
    <3> QED
      BY <3>1, <3>4 DEF Writing
  <2> QED
    BY <2>1, <2>2
<1>11. Queued(c)'
  <2>1. none = <<>> /\ DOMAIN none = {}
    OBVIOUS
  <2> QED
    BY <1>3, <1>8, <2>1 DEF Queued
<1>12. ASSUME NEW e \in Devices, e # c PROVE Queued(e)'
  <2>1. Queued(e) /\ pulls'[e] = pulls[e] /\ incoming'[e] = incoming[e]
    BY <1>8, <1>12 DEF Sharings, Holding
  <2>2. \A p \in Elems(pulls[e]) : Open(e, p.ticket, p.id)'
    BY <1>7, <2>1 DEF Queued
  <2>3. (\A p \in Elems(pulls[e]) : Open(e, p.ticket, p.id))'
    BY <2>1, <2>2
  <2>4. (\A p \in Elems(pulls[e]) : p.copy = pasted[p.ticket].copy)'
    BY <1>1, <2>1 DEF Queued
  <2> QED
    BY <2>1, <2>3, <2>4 DEF Queued
<1>13. ASSUME NEW k \in DOMAIN answers', answers'[k] = "landed"
       PROVE  Upto(disk, k, Len(Copies[pasted[k].copy]))'
  <2> PICK m : m = Len(Copies[pasted[k].copy])
    OBVIOUS
  <2>1. Upto(disk, k, m)
    BY <1>6, <1>13 DEF Sharings, Holding
  <2> QED
    BY <1>1, <1>9, <2>1
<1>14. ASSUME NEW x \in DOMAIN disk
       PROVE  \/ Len(disk[x]) = Copies[pasted[x[1]].copy][x[2]]
              \/ \E e \in Devices : /\ incoming'[e] # None /\ incoming'[e].writing
                                    /\ Slot(incoming'[e]) = x
              \/ x \in orphans'
  <2>1. CASE \E e \in Devices : incoming[e] # None /\ incoming[e].writing /\ Slot(incoming[e]) = x
    <3> PICK e \in Devices : incoming[e] # None /\ incoming[e].writing /\ Slot(incoming[e]) = x
      BY <2>1
    <3>1. CASE e = c
      BY <1>1, <3>1
    <3>2. CASE e # c
      BY <1>8, <3>2
    <3> QED
      BY <3>1, <3>2
  <2>2. CASE ~\E e \in Devices : incoming[e] # None /\ incoming[e].writing /\ Slot(incoming[e]) = x
    BY <1>1, <2>2 DEF Sharings, Holding, NoHalfFiles
  <2> QED
    BY <2>1, <2>2
<1>15. NoHalfFiles'
  BY <1>1, <1>14 DEF NoHalfFiles, Slot
<1>16. OnDisk(disk)'
  BY <1>1 DEF Sharings, Holding, OnDisk, Places
<1>17. DOMAIN answers' \subseteq DOMAIN pasted'
  BY <1>1, <1>6
<1>18. Holding'
  BY <1>6, <1>8, <1>10, <1>11, <1>12, <1>13, <1>15, <1>16, <1>17 DEF Holding, OnDevices
<1> QED
  BY <1>4, <1>5, <1>18 DEF Sharings

-----------------------------------------------------------------------------
(* The theorem.                                                            *)

LEMMA Starts == Init => Sharings
<1> SUFFICES ASSUME Init PROVE Sharings
  OBVIOUS
<1> PICK none : none = <<>>
  OBVIOUS
<1>1. /\ IsSeq(none) /\ Elems(none) = {} /\ DOMAIN none = {} /\ none = [x \in DOMAIN none |-> none[x]]
      /\ none = <<>> /\ IsFiniteSet({})
  <2>1. IsSeq(<<>>)
    BY SilenceIs
  <2>2. DOMAIN <<>> = {}
    OBVIOUS
  <2>3. Elems(<<>>) = {}
    BY <2>2 DEF Elems
  <2>4. <<>> = [x \in {} |-> <<>>[x]]
    OBVIOUS
  <2> QED
    BY <2>1, <2>2, <2>3, <2>4, FS_EmptySet
<1>2. /\ \A d \in Devices : /\ offered[d] = none /\ pulls[d] = none /\ incoming[d] = None
                            /\ tr[d] = NoTransfer
      /\ \A c \in Clients : up[c] = none /\ downward[c] = none
      /\ disk = none /\ answers = none /\ pasted = none /\ announced = {}
  BY DEF Init
<1>3. IsTransfer(NoTransfer)
  BY <1>1 DEF NoTransfer, IsTransfer
<1>4. Naming
  <2>1. pasted \in Seq([at : Devices, id : Ids, copy : DOMAIN Copies])
    BY DEF Init
  <2>2. counter \in [Devices -> Nat] /\ OnDevices(offered)
    BY DEF Init, OnDevices
  <2> QED
    BY <1>1, <1>2, <2>1, <2>2 DEF Naming
<1>5. Carrying
  <2>1. OnDevices(tr) /\ up = [c \in Clients |-> up[c]] /\ downward = [c \in Clients |-> downward[c]]
    BY DEF Init, OnDevices
  <2> QED
    BY <1>1, <1>2, <1>3, <2>1 DEF Carrying, Mailed
<1>6. Holding
  <2>1. OnDevices(incoming) /\ OnDevices(pulls)
    BY DEF Init, OnDevices
  <2>2. \A d \in Devices : Queued(d) /\ Writing(d)
    BY <1>1, <1>2 DEF Queued, Writing
  <2>3. OnDisk(disk) /\ NoHalfFiles
    BY <1>1, <1>2 DEF OnDisk, NoHalfFiles
  <2> QED
    BY <1>1, <1>2, <2>1, <2>2, <2>3 DEF Holding
<1> QED
  BY <1>4, <1>5, <1>6 DEF Sharings

LEMMA Keeps == ASSUME Sharings, [Next]_vars PROVE Sharings'
<1>1. CASE Serves
  <2>1. CASE PullFiles(Hub, TRUE)
    BY <2>1, HubAssumption, PullFilesKeeps
  <2>2. ASSUME NEW c \in Clients, TakeIn(c) PROVE Sharings'
    BY <2>2, TakeInKeeps
  <2>3. ASSUME NEW c \in Clients, HubLoses(c) PROVE Sharings'
    BY <2>3, HubAssumption, LosesKeeps DEF HubLoses
  <2>4. ASSUME NEW c \in Clients, HubHears(c, TRUE) PROVE Sharings'
    BY <2>4, HubHearsKeeps
  <2> QED
    BY <1>1, <2>1, <2>2, <2>3, <2>4 DEF Serves
<1>2. CASE PullFiles(Hub, FALSE)
  BY <1>2, HubAssumption, PullFilesKeeps
<1>3. CASE Reconfigure
  BY <1>3, AsideKeeps DEF Reconfigure, sharing, links
<1>4. ASSUME NEW d \in Devices, Announce(d) \/ Paste(d) PROVE Sharings'
  BY <1>4, AnnounceKeeps, PasteKeeps
<1>5. ASSUME NEW c \in Clients, Follows(c) PROVE Sharings'
  <2>1. c \in Devices
    BY DEF Clients
  <2>2. CASE PullFiles(c, TRUE)
    BY <2>1, <2>2, PullFilesKeeps
  <2>3. CASE ClientLoses(c)
    BY <2>1, <2>3, LosesKeeps DEF ClientLoses
  <2>4. CASE ClientHears(c, TRUE)
    BY <2>4, ClientHearsKeeps
  <2> QED
    BY <1>5, <2>2, <2>3, <2>4 DEF Follows
<1>6. ASSUME NEW c \in Clients, Connect(c) \/ Cut(c) \/ Restart(c) PROVE Sharings'
  BY <1>6, ConnectKeeps, CutKeeps, RestartKeeps
<1>7. ASSUME NEW c \in Clients, HubHears(c, FALSE) \/ PullFiles(c, FALSE) \/ ClientHears(c, FALSE)
      PROVE  Sharings'
  BY <1>7, HubHearsKeeps, PullFilesKeeps, ClientHearsKeeps DEF Clients
<1>8. ASSUME NEW n \in DOMAIN pasted, GiveUp(n) PROVE Sharings'
  BY <1>8, GiveUpKeeps
<1>9. ASSUME NEW n, NEW i, Edit(n, i) PROVE Sharings'
  BY <1>9, AsideKeeps DEF Edit, sharing, links
<1>10. CASE UNCHANGED vars
  BY <1>10, AsideKeeps DEF vars, sharing, links
<1> QED
  BY <1>1, <1>2, <1>3, <1>4, <1>5, <1>6, <1>7, <1>8, <1>9, <1>10 DEF Next

\* A number that was given once stands for one copy.
LEMMA OnceIsOne ==
  ASSUME Naming, NEW id, NamedOnce(id)
  PROVE  OneCopy(id)
<1> DEFINE S == {a \in announced : a.id = id}
<1>1. IsFiniteSet(S)
  BY FS_Subset DEF Naming
<1>2. \E a : S = {a}
  BY <1>1, FS_Singleton DEF NamedOnce
<1> QED
  BY <1>2 DEF OneCopy

LEMMA Shows == Sharings => WholeOrNothing
<1> SUFFICES ASSUME Sharings PROVE WholeOrNothing
  OBVIOUS
<1>1. NoHalfFiles
  BY DEF Sharings, Holding
<1>2. ASSUME NEW n \in DOMAIN answers, answers[n] = "landed", NamedOnce(pasted[n].id),
             NEW i \in DOMAIN Copies[pasted[n].copy]
      PROVE  <<n, i>> \in DOMAIN disk /\ disk[<<n, i>>] = Whole(pasted[n].copy, i)
  <2>1. n \in DOMAIN pasted /\ Upto(disk, n, Len(Copies[pasted[n].copy]))
    BY <1>2 DEF Sharings, Holding
  <2>2. OneCopy(pasted[n].id)
    BY <1>2, OnceIsOne DEF Sharings
  <2>3. pasted[n].copy \in DOMAIN Copies
    <3>1. pasted \in Seq([at : Devices, id : Ids, copy : DOMAIN Copies])
      BY DEF Sharings, Naming
    <3>2. pasted[n] \in [at : Devices, id : Ids, copy : DOMAIN Copies]
      BY <2>1, <3>1, LenProperties, ElementOfSeq
    <3> QED
      BY <3>2
  <2>4. i \in 1 .. Len(Copies[pasted[n].copy])
    BY <1>2, <2>3, CopiesAssumption, LenProperties, ElementOfSeq
  <2> QED
    BY <2>1, <2>2, <2>4 DEF Upto
<1>3. LandedWhole
  BY <1>2 DEF LandedWhole
<1> QED
  BY <1>1, <1>3 DEF WholeOrNothing

\* A paste that is told its files have landed finds every piece of them, in
\* order and of the length announced, and what is left of any other pull is
\* removed: whatever is cut, relayed, refused, edited or asked for twice
\* (core/transfer.rs, cli/clipboard.rs).
THEOREM WholeOrNothingAlways == Spec => []WholeOrNothing
<1>1. Init => Sharings
  BY Starts
<1>2. Sharings /\ [Next]_vars => Sharings'
  BY Keeps
<1>3. Sharings => WholeOrNothing
  BY Shows
<1> QED
  BY <1>1, <1>2, <1>3, PTL DEF Spec
=============================================================================
