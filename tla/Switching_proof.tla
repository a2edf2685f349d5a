-------------------------- MODULE Switching_proof --------------------------
(***************************************************************************)
(* Proofs about Switching, for any number of machines, keys and places and *)
(* queues of any length: the server's map of machines is the daemon's, and *)
(* where no screen is kept from input both ends of every link agree on who *)
(* has the cursor, what is down follows it, and pointers are given back.   *)
(*                                                                         *)
(* What is not yet read decides what a machine will do once it has been:   *)
(* Queue is what is written to it and what waits to be, in the order the   *)
(* writer takes it.  The last Enter or Leave in it is whether the machine  *)
(* will act, and the last message that speaks of a key whether that key    *)
(* will be down.  The invariant says that both will be as the server has   *)
(* it, of every machine that is attached to an open link.                  *)
(*                                                                         *)
(* And the server in the middle is Server: each step of a desk is one      *)
(* event it is given, or none (DeskServed).                                *)
(***************************************************************************)
EXTENDS Switching, SequenceTheorems, TLAPS

-----------------------------------------------------------------------------
(* What a queue of messages comes to.                                      *)

Devices == {Local} \cup Clients

\* What a machine is sent.
ToClient ==      [type : {"Leave", "ReleaseAll"}]
            \cup [type : {"MoveTo"}, at : Points]
            \cup [type : {"Enter"}, at : Points, keys : SUBSET Keys]
            \cup [type : {"Key"}, key : Keys, down : BOOLEAN]

\* Of which these may be dropped, and wait apart.
Positions == [type : {"MoveTo"}, at : Points]

\* What a machine says of itself.
Reports == {"Monitors", "Suspended", "Resumed"}

\* And all it says where nothing is in its way.
Unhindered == {"Monitors"}

Enters == {m \in ToClient : m.type = "Enter"}
Leaves == {m \in ToClient : m.type = "Leave"}

\* What puts key k down where it is read, and what lets it go.
Presses(k) == {m \in ToClient : \/ m.type = "Enter" /\ k \in m.keys
                                \/ m.type = "Key" /\ m.key = k /\ m.down}
Lifts(k) == {m \in ToClient : \/ m.type \in {"Leave", "ReleaseAll"}
                              \/ m.type = "Enter" /\ k \notin m.keys
                              \/ m.type = "Key" /\ m.key = k /\ ~m.down}

\* Whether something that is so now is so after the first n messages of s, if
\* those in on make it so and those in off make it not so.
After(s, n, now, on, off) ==
  \/ \E i \in 1 .. n : s[i] \in on /\ \A j \in i+1 .. n : s[j] \notin off
  \/ now /\ \A i \in 1 .. n : s[i] \notin off

Acts(s, n, now)    == After(s, n, now, Enters, Leaves)
Holds(s, n, now, k) == After(s, n, now, Presses(k), Lifts(k))

\* Before the first message it is as it is now.
LEMMA AfterNothing ==
  ASSUME NEW s, NEW now \in BOOLEAN, NEW on, NEW off
  PROVE  After(s, 0, now, on, off) <=> now
BY DEF After

\* A message at the end changes nothing before it, and decides if it speaks.
LEMMA AfterAppend ==
  ASSUME NEW M, NEW s \in Seq(M), NEW m \in M, NEW now \in BOOLEAN, NEW on, NEW off,
         on \cap off = {}
  PROVE  /\ \A n \in 0 .. Len(s) :
              After(Append(s, m), n, now, on, off) <=> After(s, n, now, on, off)
         /\ After(Append(s, m), Len(s) + 1, now, on, off)
              <=> m \in on \/ (m \notin off /\ After(s, Len(s), now, on, off))
<1> DEFINE t == Append(s, m)
<1>1. /\ Len(s) \in Nat /\ t[Len(s) + 1] = m
      /\ \A i \in 1 .. Len(s) : t[i] = s[i]
  OBVIOUS
<1>2. ASSUME NEW n \in 0 .. Len(s)
      PROVE  After(t, n, now, on, off) <=> After(s, n, now, on, off)
  BY <1>1 DEF After
<1>3. After(t, Len(s) + 1, now, on, off)
        <=> m \in on \/ (m \notin off /\ After(s, Len(s), now, on, off))
  <2> HIDE DEF t
  <2>1. \A i \in 1 .. Len(s) : i + 1 .. Len(s) + 1 = (i + 1 .. Len(s)) \cup {Len(s) + 1}
    BY <1>1
  <2>2. CASE m \in on
    <3>1. Len(s) + 1 \in 1 .. Len(s) + 1 /\ Len(s) + 1 + 1 .. Len(s) + 1 = {}
      BY <1>1
    <3> QED
      BY <1>1, <2>2, <3>1 DEF After
  <2>3. CASE m \notin on
    <3>1. 1 .. Len(s) + 1 = (1 .. Len(s)) \cup {Len(s) + 1}
      BY <1>1
    <3>2. CASE m \in off
      <4>1. \A i \in 1 .. Len(s) : Len(s) + 1 \in i + 1 .. Len(s) + 1
        BY <1>1
      <4> QED
        BY <1>1, <2>3, <3>1, <3>2, <4>1 DEF After
    <3>3. CASE m \notin off
      <4>1. \A i \in 1 .. Len(s) : (\A j \in i + 1 .. Len(s) + 1 : t[j] \notin off)
                                 <=> (\A j \in i + 1 .. Len(s) : s[j] \notin off)
        BY <1>1, <3>3
      <4>2. (\A i \in 1 .. Len(s) + 1 : t[i] \notin off) <=> (\A i \in 1 .. Len(s) : s[i] \notin off)
        BY <1>1, <3>1, <3>3
      <4>3. (\E i \in 1 .. Len(s) + 1 : t[i] \in on /\ \A j \in i + 1 .. Len(s) + 1 : t[j] \notin off)
              <=> (\E i \in 1 .. Len(s) : s[i] \in on /\ \A j \in i + 1 .. Len(s) : s[j] \notin off)
        BY <1>1, <2>3, <3>1, <4>1
      <4> QED
        BY <2>3, <3>3, <4>2, <4>3 DEF After
    <3> QED
      BY <3>2, <3>3
  <2> QED
    BY <2>2, <2>3
<1> QED
  BY <1>2, <1>3

\* What is read decides before what is left.
LEMMA AfterTail ==
  ASSUME NEW M, NEW s \in Seq(M), s # <<>>, NEW now \in BOOLEAN, NEW on, NEW off,
         on \cap off = {}, NEW n \in 0 .. Len(s) - 1
  PROVE  After(s, n + 1, now, on, off)
           <=> After(Tail(s), n, Head(s) \in on \/ (now /\ Head(s) \notin off), on, off)
<1> DEFINE t == Tail(s)
<1>1. /\ Len(s) \in Nat \ {0} /\ s[1] = Head(s) /\ Len(t) = Len(s) - 1
      /\ \A i \in 1 .. n : t[i] = s[i + 1]
  OBVIOUS
<1>2. n \in Nat
  BY <1>1
<1> HIDE DEF t
<1>3. (\A i \in 1 .. n + 1 : s[i] \notin off) <=> s[1] \notin off /\ (\A i \in 1 .. n : t[i] \notin off)
  <2>1. \A i \in 1 .. n + 1 : i = 1 \/ (i - 1 \in 1 .. n /\ s[i] = t[i - 1])
    BY <1>1, <1>2
  <2>2. 1 \in 1 .. n + 1 /\ \A i \in 1 .. n : i + 1 \in 1 .. n + 1
    BY <1>2
  <2> QED
    BY <1>1, <2>1, <2>2
<1>4. (\A i \in 2 .. n + 1 : s[i] \notin off) <=> (\A i \in 1 .. n : t[i] \notin off)
  <2>1. \A i \in 2 .. n + 1 : i - 1 \in 1 .. n /\ s[i] = t[i - 1]
    BY <1>1, <1>2
  <2>2. \A i \in 1 .. n : i + 1 \in 2 .. n + 1
    BY <1>2
  <2> QED
    BY <1>1, <2>1, <2>2
<1>5. \A i \in 1 .. n : (\A j \in i + 1 + 1 .. n + 1 : s[j] \notin off) <=> (\A j \in i + 1 .. n : t[j] \notin off)
  <2> SUFFICES ASSUME NEW i \in 1 .. n
               PROVE  (\A j \in i + 1 + 1 .. n + 1 : s[j] \notin off) <=> (\A j \in i + 1 .. n : t[j] \notin off)
    OBVIOUS
  <2>1. \A j \in i + 1 + 1 .. n + 1 : j - 1 \in i + 1 .. n /\ j - 1 \in 1 .. n /\ s[j] = t[j - 1]
    BY <1>1, <1>2
  <2>2. \A j \in i + 1 .. n : j + 1 \in i + 1 + 1 .. n + 1 /\ t[j] = s[j + 1]
    BY <1>1, <1>2
  <2> QED
    BY <2>1, <2>2
<1>6. (\E i \in 1 .. n + 1 : s[i] \in on /\ \A j \in i + 1 .. n + 1 : s[j] \notin off)
        <=> \/ s[1] \in on /\ \A i \in 1 .. n : t[i] \notin off
            \/ \E i \in 1 .. n : t[i] \in on /\ \A j \in i + 1 .. n : t[j] \notin off
  <2>1. ASSUME NEW i \in 1 .. n + 1, s[i] \in on, \A j \in i + 1 .. n + 1 : s[j] \notin off
        PROVE  \/ s[1] \in on /\ \A j \in 1 .. n : t[j] \notin off
               \/ \E h \in 1 .. n : t[h] \in on /\ \A j \in h + 1 .. n : t[j] \notin off
    <3>1. CASE i = 1
      BY <1>4, <2>1, <3>1
    <3>2. CASE i # 1
      <4>1. i - 1 \in 1 .. n /\ i = (i - 1) + 1 /\ t[i - 1] = s[i]
        BY <1>1, <1>2, <3>2
      <4> QED
        BY <1>5, <2>1, <4>1
    <3> QED
      BY <3>1, <3>2
  <2>2. ASSUME s[1] \in on, \A j \in 1 .. n : t[j] \notin off
        PROVE  \E i \in 1 .. n + 1 : s[i] \in on /\ \A j \in i + 1 .. n + 1 : s[j] \notin off
    <3>1. 1 \in 1 .. n + 1 /\ 1 + 1 = 2
      BY <1>2
    <3> QED
      BY <1>4, <2>2, <3>1
  <2>3. ASSUME NEW h \in 1 .. n, t[h] \in on, \A j \in h + 1 .. n : t[j] \notin off
        PROVE  \E i \in 1 .. n + 1 : s[i] \in on /\ \A j \in i + 1 .. n + 1 : s[j] \notin off
    <3>1. h + 1 \in 1 .. n + 1 /\ s[h + 1] \in on
      BY <1>1, <1>2, <2>3
    <3> QED
      BY <1>5, <2>3, <3>1
  <2> QED
    BY <2>1, <2>2, <2>3
<1>7. After(s, n + 1, now, on, off)
        <=> \/ s[1] \in on /\ \A i \in 1 .. n : t[i] \notin off
            \/ \E i \in 1 .. n : t[i] \in on /\ \A j \in i + 1 .. n : t[j] \notin off
            \/ now /\ s[1] \notin off /\ \A i \in 1 .. n : t[i] \notin off
  BY <1>3, <1>6 DEF After
<1>8. After(t, n, Head(s) \in on \/ (now /\ Head(s) \notin off), on, off)
        <=> \/ \E i \in 1 .. n : t[i] \in on /\ \A j \in i + 1 .. n : t[j] \notin off
            \/ /\ Head(s) \in on \/ (now /\ Head(s) \notin off)
               /\ \A i \in 1 .. n : t[i] \notin off
  BY Zenon DEF After
<1> QED
  BY <1>1, <1>7, <1>8, Zenon DEF t

-----------------------------------------------------------------------------
(* The invariant.                                                          *)

\* What c will still read, apart from positions that wait.
Queue(c) == wire[c] \o control[c]

Linked(c) == c \in attached /\ link[c] = "open"

ServerTyped ==
  /\ active \in Devices
  /\ place \in [Devices -> Screens]
  /\ clients \in [Clients -> {"Absent", "Ready", "Suspended"}]
  /\ keys \subseteq Keys

LinksTyped ==
  /\ attached \subseteq Clients
  /\ todo \subseteq Clients
  /\ arriving \in Clients \cup {None}
  /\ link \in [Clients -> {"cut", "knocking", "open"}]
  /\ control \in [Clients -> Seq(ToClient)]
  /\ motion \in [Clients -> Seq(Positions)]
  /\ wire \in [Clients -> Seq(ToClient)]
  /\ up \in [Clients -> Seq(Reports)]

Typed == ServerTyped /\ LinksTyped

\* The machines the server knows of are those attached and those whose
\* departure it is still owed; the one being taken in is neither.
MapsFollow ==
  /\ \A c \in Clients : clients[c] # "Absent" <=> c \in attached \cup todo
  /\ attached \cap todo = {}
  /\ arriving # None => arriving \notin attached /\ link[arriving] = "knocking"
  /\ active # Local => active \in attached \cup todo

\* A link has a session at its end; one that knocks has nothing on it, and a
\* machine without a session does not act.
SessionsFollow ==
  \A c \in Clients :
    /\ link[c] # "cut" => session[c]
    /\ link[c] = "knocking" => wire[c] = <<>> /\ control[c] = <<>> /\ motion[c] = <<>>
    /\ ~session[c] \/ link[c] = "knocking" => ~acting[c]

\* Nothing keeps input from any screen, and nobody says so.
InputLands ==
  \A c \in Clients :
    /\ screen[c] = "open" /\ suspended[c] = None /\ ~refused[c]
    /\ up[c] \in Seq(Unhindered)

\* A machine will act, once it has read everything, exactly if it has the cursor.
ActsAsSaid ==
  \A c \in Clients :
    Linked(c) => (Acts(Queue(c), Len(Queue(c)), acting[c]) <=> active = c)

\* The record is the truth, and nothing is down without a session.
RecordIsTruth ==
  \A c \in Clients :
    /\ down[c] = held[c]
    /\ ~session[c] \/ link[c] = "knocking" => down[c] = {}

\* A key that is sent is read by a machine that acts.
KeysAreHeard ==
  \A c \in Clients : Linked(c) =>
    \A i \in 1 .. Len(Queue(c)) :
      Queue(c)[i].type = "Key" => Acts(Queue(c), i - 1, acting[c])

\* A key will be down, once everything is read, exactly where the cursor is and
\* if the person holds it.
HoldsAsSaid ==
  \A c \in Clients : Linked(c) =>
    \A k \in Keys :
      Holds(Queue(c), Len(Queue(c)), k \in down[c], k) <=> active = c /\ k \in keys

\* A pointer in the corner is owed the way to a place.
PointersOwed ==
  \A c \in Clients :
    /\ owes[c] \in Points \cup {None}
    /\ at[c] = Corner => session[c] /\ owes[c] \in Points

Maps == Typed /\ MapsFollow
Agreement == Maps /\ C!TypeOK /\ SessionsFollow /\ InputLands /\ ActsAsSaid
Truth == Agreement /\ RecordIsTruth /\ PointersOwed /\ KeysAreHeard /\ HoldsAsSaid

-----------------------------------------------------------------------------
(* What the server says in a step is what it does.                         *)

\* Of the cursor and the keys, a machine is told exactly what changes for it.
SaysWhatItDoes(c) ==
  \/ /\ Told(c) => Said(c) \in Positions
     /\ active' = c <=> active = c
     /\ active = c => keys' = keys
  \/ /\ Told(c) /\ active' = c
     /\ \E p \in Points : Said(c) = [type |-> "Enter", at |-> p, keys |-> keys']
  \/ Told(c) /\ active' # c /\ Said(c) = [type |-> "Leave"]
  \/ /\ Told(c) /\ active = c /\ active' = c
     /\ \E k \in Keys, d \in BOOLEAN :
          /\ Said(c) = [type |-> "Key", key |-> k, down |-> d]
          /\ keys' = IF d THEN keys \cup {k} ELSE keys \ {k}

\* What is said to c, when it is the only thing said to it.
LEMMA SaidIs ==
  ASSUME NEW c, NEW m, NEW i \in DOMAIN out', out'[i] = [to |-> c, msg |-> m],
         \A j \in DOMAIN out' : out'[j].to = c => j = i
  PROVE  Told(c) /\ Said(c) = m
<1>1. Told(c)
  BY DEF Told
<1>2. (CHOOSE j \in DOMAIN out' : out'[j].to = c) = i
  OBVIOUS
<1> QED
  BY <1>1, <1>2 DEF Said

\* Screens lie on the desktop.
LEMMA ScreensOnDesk ==
  ASSUME NEW f \in [Devices -> Screens], NEW d \in Devices
  PROVE  f[d] \subseteq Points
BY DeskAssumption

\* Nothing is said, or one position to one machine, and the cursor stays.
LEMMA QuietSays ==
  ASSUME UNCHANGED <<active, keys>>, NEW c \in Clients, NEW d, NEW p \in Points,
         out' = <<>> \/ out' = S!Position(d, p)
  PROVE  SaysWhatItDoes(c)
<1>1. CASE out' = <<>>
  BY <1>1 DEF SaysWhatItDoes, Told
<1>2. CASE out' = <<[to |-> Local, msg |-> [type |-> "Warp", at |-> p]]>>
  BY <1>2, DeskAssumption DEF SaysWhatItDoes, Told
<1>3. CASE out' = <<[to |-> d, msg |-> [type |-> "MoveTo", at |-> p]]>>
  <2>1. CASE d = c
    <3>1. Told(c) /\ Said(c) = [type |-> "MoveTo", at |-> p]
      BY <1>3, <2>1, SaidIs
    <3> QED
      BY <3>1 DEF SaysWhatItDoes, Positions
  <2>2. CASE d # c
    BY <1>3, <2>2 DEF SaysWhatItDoes, Told
  <2> QED
    BY <2>1, <2>2
<1> QED
  BY <1>1, <1>2, <1>3 DEF S!Position, S!Warp, S!Do

\* One thing after another.
LEMMA InOrder ==
  ASSUME NEW a, NEW b, NEW c
  PROVE  <<a>> \o <<b>> = <<a, b>> /\ <<a>> \o <<b, c>> = <<a, b, c>>
<1> DEFINE M == {a, b, c}
<1>1. <<a>> \in Seq(M) /\ <<b>> \in Seq(M) /\ <<b, c>> \in Seq(M) /\ <<a, b>> \in Seq(M) /\ <<a, b, c>> \in Seq(M)
  OBVIOUS
<1> HIDE DEF M
<1>2. <<a>> \o <<b>> = <<a, b>>
  <2>1. <<a>> \o <<b>> \in Seq(M) /\ Len(<<a>> \o <<b>>) = 2
    BY <1>1
  <2>2. \A i \in 1 .. 2 : (<<a>> \o <<b>>)[i] = <<a, b>>[i]
    BY <1>1
  <2> QED
    BY <1>1, <2>1, <2>2, SeqEqual
<1>3. <<a>> \o <<b, c>> = <<a, b, c>>
  <2>1. <<a>> \o <<b, c>> \in Seq(M) /\ Len(<<a>> \o <<b, c>>) = 3
    BY <1>1
  <2>2. \A i \in 1 .. 3 : (<<a>> \o <<b, c>>)[i] = <<a, b, c>>[i]
    BY <1>1
  <2> QED
    BY <1>1, <2>1, <2>2, SeqEqual
<1> QED
  BY <1>2, <1>3

\* The cursor changes hands.
LEMMA CrossSays ==
  ASSUME ServerTyped, NEW c \in Clients, NEW t \in Devices, t # active,
         NEW p \in Points, S!CrossTo(t, p), keys' = keys
  PROVE  SaysWhatItDoes(c)
<1> DEFINE set(m) == [to |-> Local, msg |-> [type |-> "Mode", mode |-> m]]
           warp == [to |-> Local, msg |-> [type |-> "Warp", at |-> p]]
           leave == [to |-> active, msg |-> [type |-> "Leave"]]
           enter == [to |-> t, msg |-> [type |-> "Enter", at |-> p, keys |-> keys]]
<1> USE DeskAssumption
<1>1. active' = t
  BY DEF S!CrossTo
<1>2. CASE active = Local
  <2>1. out' = <<set("Captured"), enter>>
    BY <1>2, InOrder DEF S!CrossTo, S!Parting, S!Arriving, S!SetMode, S!Do
  <2> HIDE DEF set
  <2>2. CASE c = t
    <3>1. Told(c) /\ Said(c) = enter.msg
      BY <1>2, <2>1, <2>2, SaidIs DEF set
    <3> QED
      BY <1>1, <2>2, <3>1 DEF SaysWhatItDoes
  <2>3. CASE c # t
    BY <1>1, <1>2, <2>1, <2>3 DEF SaysWhatItDoes, Told, set
  <2> QED
    BY <2>2, <2>3
<1>3. CASE active # Local /\ t = Local
  <2>1. out' = <<leave, set("Local"), warp>>
    <3>1. S!Arriving(t, p) = <<set("Local"), warp>>
      BY <1>3, InOrder DEF S!Arriving, S!SetMode, S!Warp, S!Do
    <3>2. out' = <<leave>> \o S!Arriving(t, p)
      BY <1>3 DEF S!CrossTo, S!Parting, S!Do
    <3> HIDE DEF set, leave, warp
    <3>3. out' = <<leave>> \o <<set("Local"), warp>>
      BY <3>1, <3>2
    <3> QED
      BY <3>3, InOrder
  <2>2. CASE c = active
    <3>1. Told(c) /\ Said(c) = leave.msg
      BY <1>3, <2>1, <2>2, SaidIs
    <3> QED
      BY <1>1, <1>3, <2>2, <3>1 DEF SaysWhatItDoes
  <2>3. CASE c # active
    BY <1>1, <1>3, <2>1, <2>3 DEF SaysWhatItDoes, Told
  <2> QED
    BY <2>2, <2>3
<1>4. CASE active # Local /\ t # Local
  <2>1. out' = <<leave, enter>>
    BY <1>4, InOrder DEF S!CrossTo, S!Parting, S!Arriving, S!Do
  <2>2. CASE c = active
    <3>1. Told(c) /\ Said(c) = leave.msg
      BY <1>4, <2>1, <2>2, SaidIs
    <3> QED
      BY <1>1, <1>4, <2>2, <3>1 DEF SaysWhatItDoes
  <2>3. CASE c = t
    <3>1. Told(c) /\ Said(c) = enter.msg
      BY <1>4, <2>1, <2>3, SaidIs
    <3> QED
      BY <1>1, <2>3, <3>1 DEF SaysWhatItDoes
  <2>4. CASE c # active /\ c # t
    BY <1>1, <2>1, <2>4 DEF SaysWhatItDoes, Told
  <2> QED
    BY <2>2, <2>3, <2>4
<1> QED
  BY <1>2, <1>3, <1>4

\* The one with the cursor is one the server knows of.
HolderKnown == active # Local => clients[active] # "Absent"

\* A step that is not about coming or going: who is known stays known.
Turn ==
  /\ ServerTyped' /\ HolderKnown'
  /\ \A c \in Clients : clients'[c] = "Absent" <=> clients[c] = "Absent"

\* Whoever has a point is known.
LEMMA PresentIsKnown ==
  ASSUME NEW d \in S!Present
  PROVE  d \in Devices /\ (d # Local => clients[d] # "Absent")
BY DeskAssumption DEF S!Present, Devices

\* The mouse.
LEMMA MoveTurns ==
  ASSUME ServerTyped, HolderKnown, NEW d, NEW p \in Points, S!PointerBy(d, p)
  PROVE  Turn /\ \A c \in Clients : SaysWhatItDoes(c)
<1>1. d \in S!Present /\ p \in place[d] /\ UNCHANGED <<place, clients, keys>>
  BY DEF S!PointerBy, S!Under
<1>2. CASE d = active /\ cursor' = p /\ out' = S!Position(d, p) /\ UNCHANGED active
  BY <1>1, <1>2, QuietSays DEF Turn, ServerTyped, HolderKnown
<1>3. CASE S!StopAtEdge /\ UNCHANGED active
  <2>1. Turn
    BY <1>1, <1>3 DEF Turn, ServerTyped, HolderKnown
  <2>2. CASE out' = <<>>
    BY <1>1, <1>3, <2>1, <2>2, QuietSays
  <2>3. CASE \E q \in place[active] : \E e \in S!Under(q) : out' = S!Position(e, q)
    <3>1. PICK q \in place[active] : \E e \in S!Under(q) : out' = S!Position(e, q)
      BY <2>3
    <3> PICK e \in S!Under(q) : out' = S!Position(e, q)
      BY <3>1
    <3>2. q \in Points
      BY ScreensOnDesk DEF ServerTyped
    <3> QED
      BY <1>1, <1>3, <2>1, <3>1, <3>2, QuietSays
  <2> QED
    BY <1>3, <2>2, <2>3 DEF S!StopAtEdge
<1>4. CASE d # active /\ S!CrossTo(d, p)
  <2>1. Turn
    BY <1>1, <1>4, PresentIsKnown DEF Turn, ServerTyped, HolderKnown, S!CrossTo
  <2> QED
    BY <1>1, <1>4, <2>1, PresentIsKnown, CrossSays
<1> QED
  BY <1>2, <1>3, <1>4 DEF S!PointerBy

\* A key goes to whoever has the cursor.
LEMMA KeyTurns ==
  ASSUME ServerTyped, HolderKnown, NEW k \in Keys, NEW d \in BOOLEAN, S!Key(k, d)
  PROVE  Turn /\ \A c \in Clients : SaysWhatItDoes(c)
<1> USE DeskAssumption
<1>1. UNCHANGED <<active, place, clients>> /\ keys' = IF d THEN keys \cup {k} ELSE keys \ {k}
  BY DEF S!Key
<1>2. Turn
  BY <1>1 DEF Turn, ServerTyped, HolderKnown
<1>3. ASSUME NEW c \in Clients PROVE SaysWhatItDoes(c)
  <2>1. CASE active = Local
    BY <1>1, <2>1 DEF SaysWhatItDoes, Told, S!Key
  <2>2. CASE active # Local
    <3> DEFINE said == [type |-> "Key", key |-> k, down |-> d]
    <3>1. out' = <<[to |-> active, msg |-> said]>>
      BY <2>2 DEF S!Key, S!Do
    <3>2. CASE c = active
      <4>1. Told(c) /\ Said(c) = said
        BY <3>1, <3>2, SaidIs
      <4> QED
        BY <1>1, <3>2, <4>1 DEF SaysWhatItDoes
    <3>3. CASE c # active
      BY <1>1, <3>1, <3>3 DEF SaysWhatItDoes, Told
    <3> QED
      BY <3>2, <3>3
  <2> QED
    BY <2>1, <2>2
<1> QED
  BY <1>2, <1>3

\* A machine reports its screens, and the cursor is put somewhere real.
LEMMA MonitorsTurn ==
  ASSUME ServerTyped, HolderKnown, NEW d \in Clients, S!ClientMonitors(d, Home[d])
  PROVE  Turn /\ \A c \in Clients : SaysWhatItDoes(c)
<1> DEFINE f == [place EXCEPT ![d] = Home[d]]
<1>1. f \in [Devices -> Screens] /\ place' = f /\ UNCHANGED <<clients, keys>>
  BY DeskAssumption DEF ServerTyped, Devices, S!ClientMonitors
<1>2. PICK p \in S!Snaps(f) : S!Resettle(f, p, pending, lastTap)
  BY DEF S!ClientMonitors
<1> HIDE DEF f
<1>3. PICK e \in S!Present :
        /\ p \in f[e]
        /\ IF e = active THEN out' = <<>> /\ UNCHANGED active ELSE S!CrossTo(e, p)
  BY <1>2 DEF S!Resettle
<1>4. e \in Devices /\ p \in Points
  BY <1>1, <1>3, PresentIsKnown, ScreensOnDesk
<1>5. CASE e = active
  <2>1. Turn
    BY <1>1, <1>3, <1>5 DEF Turn, ServerTyped, HolderKnown
  <2> QED
    BY <1>1, <1>3, <1>4, <1>5, <2>1, QuietSays
<1>6. CASE e # active
  <2>1. Turn
    BY <1>1, <1>3, <1>4, <1>6, PresentIsKnown DEF Turn, ServerTyped, HolderKnown, S!CrossTo
  <2> QED
    BY <1>1, <1>3, <1>4, <1>6, <2>1, CrossSays
<1> QED
  BY <1>5, <1>6

\* A machine that is known says whether it can be used.
LEMMA FitnessTurns ==
  ASSUME ServerTyped, HolderKnown, NEW d \in Clients, S!ClientSuspended(d) \/ S!ClientResumed(d)
  PROVE  Turn /\ \A c \in Clients : ~Told(c)
<1>1. CASE S!ClientSuspended(d)
  <2>1. Turn
    BY <1>1 DEF Turn, ServerTyped, HolderKnown, S!ClientSuspended, S!RecallCursor, Devices
  <2>2. out' = <<>> \/ \E p \in place[Local] : out' = S!SetMode("Local") \o S!Warp(p)
    BY <1>1 DEF S!ClientSuspended, S!RecallCursor
  <2>3. CASE out' = <<>>
    BY <2>1, <2>3 DEF Told
  <2>4. ASSUME NEW p \in place[Local], out' = S!SetMode("Local") \o S!Warp(p)
        PROVE  \A c \in Clients : ~Told(c)
    <3>1. out' = <<[to |-> Local, msg |-> [type |-> "Mode", mode |-> "Local"]],
                   [to |-> Local, msg |-> [type |-> "Warp", at |-> p]]>>
      BY <2>4, InOrder DEF S!SetMode, S!Warp, S!Do
    <3> QED
      BY <3>1, DeskAssumption DEF Told
  <2> QED
    BY <2>1, <2>2, <2>3, <2>4
<1>2. CASE S!ClientResumed(d)
  BY <1>2 DEF Turn, ServerTyped, HolderKnown, S!ClientResumed, Devices, Told
<1> QED
  BY <1>1, <1>2

\* A machine that goes takes the cursor from nobody else.
LEMMA DepartureTurns ==
  ASSUME ServerTyped, HolderKnown, NEW d \in Clients, S!ClientDown(d)
  PROVE  /\ ServerTyped' /\ HolderKnown' /\ active' # d /\ keys' = keys
         /\ clients[d] # "Absent" /\ clients' = [clients EXCEPT ![d] = "Absent"]
         /\ active' # active => active = d /\ active' = Local
BY DeskAssumption DEF ServerTyped, HolderKnown, S!ClientDown, S!RecallCursor, Devices

\* A machine that comes is told to let go, and gets nothing else.
LEMMA ArrivalTurns ==
  ASSUME ServerTyped, HolderKnown, NEW d \in Clients, S!ClientUp(d)
  PROVE  /\ ServerTyped' /\ HolderKnown' /\ UNCHANGED <<active, keys>>
         /\ clients' = [clients EXCEPT ![d] = "Ready"]
BY DEF ServerTyped, HolderKnown, S!ClientUp, Devices

-----------------------------------------------------------------------------
(* The maps.                                                               *)

\* What is said to a machine is something that machines are sent.
SaysSense == \A c \in Clients : Told(c) => Said(c) \in ToClient

\* That follows from saying what is done.
LEMMA SenseOfSaying ==
  ASSUME ServerTyped', \A c \in Clients : SaysWhatItDoes(c)
  PROVE  SaysSense
<1> SUFFICES ASSUME NEW c \in Clients, Told(c) PROVE Said(c) \in ToClient
  BY DEF SaysSense
<1> QED
  BY DEF SaysWhatItDoes, ServerTyped, ToClient, Positions

\* Carrying it out: what waits for a machine grows at its end, and machines
\* let go of are owed.
LEMMA Delivered ==
  ASSUME LinksTyped, SaysSense, Deliver
  PROVE  /\ control' \in [Clients -> Seq(ToClient)] /\ motion' \in [Clients -> Seq(Positions)]
         /\ attached' \subseteq attached /\ todo' = todo \cup (attached \ attached')
         /\ \A c \in Clients :
              IF c \in attached' /\ link[c] = "open" /\ Told(c) /\ Said(c) \notin Positions
                THEN control'[c] = Append(control[c], Said(c))
                ELSE control'[c] = control[c]
         /\ \A c \in Clients : link[c] # "open" => motion'[c] = motion[c]
<1>1. PICK closed \in SUBSET {c \in attached : link[c] # "open"} : Deliver!(closed)
  BY DEF Deliver
<1> DEFINE over == {c \in attached : /\ Told(c)
                                     /\ (c \in closed \/ (~MayBeDropped(Said(c)) /\ Full(c)))}
           Kept(c) == c \in attached \ over /\ Told(c) /\ link[c] = "open"
<1>2. /\ control' = [c \in Clients |->
                        IF Kept(c) /\ ~MayBeDropped(Said(c))
                          THEN Append(control[c], Said(c)) ELSE control[c]]
      /\ motion' = [c \in Clients |->
                       IF Kept(c) /\ MayBeDropped(Said(c)) /\ Len(motion[c]) < MotionMax
                         THEN Append(motion[c], Said(c)) ELSE motion[c]]
      /\ attached' = attached \ over
      /\ todo' = todo \cup over
  BY <1>1
<1> HIDE DEF over
<1>3. \A c \in Clients : Told(c) => (MayBeDropped(Said(c)) <=> Said(c) \in Positions)
  BY DEF SaysSense, MayBeDropped, Positions, ToClient
<1>4. control' \in [Clients -> Seq(ToClient)]
  BY <1>2, AppendProperties DEF LinksTyped, SaysSense
<1>5. motion' \in [Clients -> Seq(Positions)]
  BY <1>2, <1>3, AppendProperties DEF LinksTyped, Positions
<1>6. attached' \subseteq attached /\ todo' = todo \cup (attached \ attached')
  BY <1>2 DEF over
<1> QED
  BY <1>2, <1>3, <1>4, <1>5, <1>6

\* A turn of the daemon's loop.
LEMMA MapsThroughTurn ==
  ASSUME Maps, Turn, SaysSense, Deliver, UNCHANGED <<wire, link, arriving>>,
         up' \in [Clients -> Seq(Reports)]
  PROVE  Maps'
<1> USE DEF Maps, Typed
<1>1. Typed'
  BY Delivered DEF Turn, LinksTyped
<1>2. MapsFollow'
  <2>1. attached' \cup todo' = attached \cup todo /\ attached' \cap todo' = {}
    BY Delivered DEF MapsFollow
  <2> QED
    BY <1>1, <2>1, Delivered DEF MapsFollow, Turn, HolderKnown, ServerTyped, Devices
<1> QED
  BY <1>1, <1>2

\* Nothing of what the server and its daemon know of machines changes.
LEMMA MapsThroughLink ==
  ASSUME Maps, LinksTyped', UNCHANGED <<serverVars, attached, todo, arriving>>,
         arriving # None => link'[arriving] = "knocking"
  PROVE  Maps'
BY DEF Maps, Typed, ServerTyped, MapsFollow, serverVars

\* A link is made, breaks or moves a message on.
LEMMA LinksMove ==
  ASSUME Maps, NEW c \in Clients,
         Connect(c) \/ Write(c) \/ Cut(c) \/ Receive(c) \/ Disconnect(c) \/ Crash(c)
           \/ Look(c) \/ \E s \in Reasons \cup {"open"} : Prompt(c, s)
  PROVE  Maps'
<1> USE DEF LinksTyped
<1>0. LinksTyped /\ (arriving # None => link[arriving] = "knocking")
  BY DEF Maps, Typed, MapsFollow
<1>1. CASE Connect(c)
  <2>1. <<>> \in Seq(ToClient) /\ <<>> \in Seq(Positions) /\ <<"Monitors">> \in Seq(Reports)
    BY DEF Reports
  <2>2. LinksTyped'
    BY <1>0, <1>1, <2>1 DEF Connect
  <2> QED
    BY <1>0, <1>1, <2>2, MapsThroughLink DEF Connect
<1>2. CASE Write(c)
  <2>1. LinksTyped'
    <3>1. CASE control[c] # <<>> /\ wire' = [wire EXCEPT ![c] = Append(@, Head(control[c]))]
                /\ control' = [control EXCEPT ![c] = Tail(@)] /\ UNCHANGED <<motion, link>>
      <4>1. Head(control[c]) \in ToClient /\ Tail(control[c]) \in Seq(ToClient)
        BY <1>0, <3>1
      <4> QED
        BY <1>0, <1>2, <3>1, <4>1, AppendProperties DEF Write
    <3>2. CASE motion[c] # <<>> /\ wire' = [wire EXCEPT ![c] = Append(@, Head(motion[c]))]
                /\ motion' = [motion EXCEPT ![c] = Tail(@)] /\ UNCHANGED <<control, link>>
      <4>1. Head(motion[c]) \in ToClient /\ Tail(motion[c]) \in Seq(Positions)
        <5>1. Head(motion[c]) \in Positions /\ Tail(motion[c]) \in Seq(Positions)
          BY <1>0, <3>2
        <5> QED
          BY <5>1 DEF ToClient, Positions
      <4> QED
        BY <1>0, <1>2, <3>2, <4>1, AppendProperties DEF Write
    <3>3. CASE link' = [link EXCEPT ![c] = "cut"] /\ UNCHANGED <<wire, control, motion>>
      BY <1>0, <1>2, <3>3 DEF Write
    <3> QED
      BY <1>2, <3>1, <3>2, <3>3 DEF Write
  <2> QED
    BY <1>0, <1>2, <2>1, MapsThroughLink DEF Write
<1>3. CASE Cut(c)
  <2>1. LinksTyped'
    <3>1. PICK n \in 0 .. Len(wire[c]), m \in 0 .. Len(up[c]) :
            /\ wire' = [wire EXCEPT ![c] = SubSeq(@, 1, n)]
            /\ up' = [up EXCEPT ![c] = SubSeq(@, 1, m)]
      BY <1>3 DEF Cut
    <3>2. SubSeq(wire[c], 1, n) \in Seq(ToClient)
      BY <1>0, <3>1, SubSeqProperties
    <3>3. SubSeq(up[c], 1, m) \in Seq(Reports)
      BY <1>0, <3>1, SubSeqProperties
    <3> QED
      BY <1>0, <1>3, <3>1, <3>2, <3>3 DEF Cut
  <2> QED
    BY <1>0, <1>3, <2>1, MapsThroughLink DEF Cut
<1>4. CASE Receive(c)
  <2>1. LinksTyped'
    BY <1>0, <1>4 DEF Receive
  <2> QED
    BY <1>0, <1>4, <2>1, MapsThroughLink DEF Receive
<1>5. CASE Disconnect(c)
  <2>1. LinksTyped'
    BY <1>0, <1>5 DEF Disconnect
  <2> QED
    BY <1>0, <1>5, <2>1, MapsThroughLink DEF Disconnect
<1>6. CASE Crash(c)
  <2>1. LinksTyped'
    BY <1>0, <1>6 DEF Crash
  <2> QED
    BY <1>0, <1>6, <2>1, MapsThroughLink DEF Crash
<1>7. CASE Look(c)
  <2>1. LinksTyped'
    <3>1. \A r \in Reports : Append(up[c], r) \in Seq(Reports)
      BY <1>0, AppendProperties
    <3>2. "Suspended" \in Reports /\ "Resumed" \in Reports
      BY DEF Reports
    <3>3. \/ up' = [up EXCEPT ![c] = Append(@, "Suspended")]
          \/ up' = [up EXCEPT ![c] = Append(@, "Resumed")]
          \/ up' = up
      BY <1>7 DEF Look
    <3>4. up' \in [Clients -> Seq(Reports)]
      BY <1>0, <3>1, <3>2, <3>3
    <3> QED
      BY <1>0, <1>7, <3>4 DEF Look
  <2> QED
    BY <1>0, <1>7, <2>1, MapsThroughLink DEF Look
<1>8. ASSUME NEW s \in Reasons \cup {"open"}, Prompt(c, s) PROVE Maps'
  <2>1. LinksTyped'
    BY <1>0, <1>8 DEF Prompt, linkVars
  <2> QED
    BY <1>0, <1>8, <2>1, MapsThroughLink DEF Prompt, linkVars
<1> QED
  BY <1>1, <1>2, <1>3, <1>4, <1>5, <1>6, <1>7, <1>8

\* A machine comes or goes.
LEMMA MachinesMove ==
  ASSUME Maps, NEW c \in Clients, Arrived(c) \/ TakeIn(c) \/ Departed(c) \/ Gone(c)
  PROVE  Maps'
<1> USE DeskAssumption DEF Maps, Typed, Devices
<1>0. HolderKnown
  BY DEF HolderKnown, MapsFollow, ServerTyped
<1>1. CASE Arrived(c)
  BY <1>1 DEF Arrived, Idle, ServerTyped, LinksTyped, MapsFollow, serverVars
<1>2. CASE TakeIn(c)
  <2>1. <<[type |-> "ReleaseAll"]>> \in Seq(ToClient)
    BY DEF ToClient
  <2>2. LinksTyped'
    BY <1>2, <2>1 DEF TakeIn, LinksTyped
  <2>3. S!ClientUp(c)
    BY <1>2 DEF TakeIn
  <2> QED
    <3>1. ServerTyped' /\ UNCHANGED active /\ clients' = [clients EXCEPT ![c] = "Ready"]
      BY <1>0, <2>3, ArrivalTurns
    <3>2. todo = {} /\ todo' = {} /\ arriving' = None /\ attached' = attached \cup {c}
      BY <1>2 DEF TakeIn
    <3>3. MapsFollow'
      BY <3>1, <3>2 DEF MapsFollow, ServerTyped
    <3> QED
      BY <2>2, <3>1, <3>3
<1>3. CASE Departed(c)
  <2>1. S!ClientDown(c)
    BY <1>3 DEF Departed
  <2>2. LinksTyped'
    BY <1>3 DEF Departed, LinksTyped
  <2> QED
    BY <1>0, <1>3, <2>1, <2>2, DepartureTurns DEF Departed, MapsFollow, ServerTyped, HolderKnown
<1>4. CASE Gone(c)
  <2>1. S!ClientDown(c)
    BY <1>4 DEF Gone
  <2>2. LinksTyped'
    BY <1>4 DEF Gone, LinksTyped
  <2> QED
    BY <1>0, <1>4, <2>1, <2>2, DepartureTurns DEF Gone, Idle, MapsFollow, ServerTyped, HolderKnown
<1> QED
  BY <1>1, <1>2, <1>3, <1>4

\* A turn of the server's loop, and what it says.
LEMMA TurnTaken ==
  ASSUME Maps, \/ \E p \in Points : Move(p)
               \/ \E k \in Keys, d \in BOOLEAN : Type(k, d)
               \/ \E c \in Clients : Hear(c)
  PROVE  Turn /\ SaysSense /\ Deliver /\ Maps' /\ UNCHANGED <<clientVars, wire, link, arriving>>
<1> USE DEF Maps, Typed
<1>0. HolderKnown
  BY DEF HolderKnown, MapsFollow, ServerTyped, Devices
<1>1. ASSUME NEW p \in Points, Move(p)
      PROVE  Turn /\ SaysSense /\ Maps'
  <2>1. PICK d \in {Local} \cup Clients : S!PointerBy(d, p)
    BY <1>1 DEF Move
  <2>2. Turn /\ SaysSense
    BY <1>0, <2>1, MoveTurns, SenseOfSaying DEF Turn
  <2> QED
    BY <1>1, <2>2, MapsThroughTurn DEF Move, LinksTyped
<1>2. ASSUME NEW k \in Keys, NEW d \in BOOLEAN, Type(k, d)
      PROVE  Turn /\ SaysSense /\ Maps'
  <2>1. Turn /\ SaysSense
    BY <1>0, <1>2, KeyTurns, SenseOfSaying DEF Turn, Type
  <2> QED
    BY <1>2, <2>1, MapsThroughTurn DEF Type, LinksTyped
<1>3. ASSUME NEW c \in Clients, Hear(c)
      PROVE  Turn /\ SaysSense /\ Maps'
  <2>1. S!ClientMonitors(c, Home[c]) \/ S!ClientSuspended(c) \/ S!ClientResumed(c)
    <3>1. Head(up[c]) \in Reports
      BY <1>3 DEF Hear, LinksTyped
    <3>2. CASE Head(up[c]) = "Monitors"
      BY <1>3, <3>2 DEF Hear
    <3>3. CASE Head(up[c]) = "Suspended"
      BY <1>3, <3>3 DEF Hear
    <3>4. CASE Head(up[c]) = "Resumed"
      BY <1>3, <3>4 DEF Hear
    <3> QED
      BY <3>1, <3>2, <3>3, <3>4 DEF Reports
  <2>2. Turn /\ SaysSense
    BY <1>0, <2>1, MonitorsTurn, FitnessTurns, SenseOfSaying DEF Turn, SaysSense
  <2>3. up' \in [Clients -> Seq(Reports)]
    BY <1>3 DEF Hear, LinksTyped
  <2> QED
    BY <1>3, <2>2, <2>3, MapsThroughTurn DEF Hear
<1>4. Deliver /\ UNCHANGED <<clientVars, wire, link, arriving>>
  BY DEF Move, Type, Hear
<1> QED
  BY <1>1, <1>2, <1>3, <1>4

\* It starts with no machine anywhere.
LEMMA MapsInit == Init => Maps
<1> USE DeskAssumption
<1> SUFFICES ASSUME Init PROVE Maps
  OBVIOUS
<1>1. ServerTyped
  BY DEF Init, S!Init, S!Devices, ServerTyped, Devices
<1>2. LinksTyped
  BY DEF Init, LinksTyped
<1>3. MapsFollow
  BY DEF Init, S!Init, MapsFollow
<1> QED
  BY <1>1, <1>2, <1>3 DEF Maps, Typed

\* And every step keeps the maps together.
LEMMA MapsStep == Maps /\ [Next]_vars => Maps'
<1> SUFFICES ASSUME Maps, [Next]_vars PROVE Maps'
  OBVIOUS
<1>1. CASE UNCHANGED vars
  BY <1>1 DEF vars, serverVars, linkVars, Maps, Typed, ServerTyped, LinksTyped, MapsFollow
<1>2. CASE Next
  BY <1>2, TurnTaken, LinksMove, MachinesMove DEF Next
<1> QED
  BY <1>1, <1>2

\* Between turns the server knows of exactly the machines that its daemon has
\* a link to, for any number of machines, whatever is in flight between them,
\* however links end, and whatever keeps input from screens.
THEOREM MapsAlwaysAgree == Spec => []MapsAgree
<1>1. Maps => MapsAgree
  BY DEF Maps, MapsFollow, MapsAgree, Idle
<1> QED
  BY <1>1, MapsInit, MapsStep, PTL DEF Spec

-----------------------------------------------------------------------------
(* The server in the middle of it.                                         *)

\* What the daemon gives its server within a turn is one event the server knows.
LEMMA EventsServed ==
  ASSUME \/ \E p \in Points : Move(p)
         \/ \E k \in Keys, d \in BOOLEAN : Type(k, d)
  PROVE  S!Next
<1>1. ASSUME NEW p \in Points, Move(p) PROVE S!Next
  <2>1. PICK d \in {Local} \cup Clients : S!PointerBy(d, p)
    BY <1>1 DEF Move
  <2>2. S!Motion
    BY <2>1 DEF S!Motion, S!Devices
  <2> QED
    BY <2>2 DEF S!Next
<1>2. ASSUME NEW k \in Keys, NEW d \in BOOLEAN, Type(k, d) PROVE S!Next
  BY <1>2 DEF Type, S!Next
<1> QED
  BY <1>1, <1>2

\* So is what it makes of a machine that comes, goes or reports.
LEMMA MachinesServed ==
  ASSUME Maps, NEW c \in Clients, TakeIn(c) \/ Departed(c) \/ Gone(c) \/ Hear(c)
  PROVE  S!Next
<1>1. CASE TakeIn(c)
  BY <1>1 DEF TakeIn, S!Next
<1>2. CASE Departed(c) \/ Gone(c)
  BY <1>2 DEF Departed, Gone, S!Next
<1>3. CASE Hear(c)
  <2>1. Head(up[c]) \in Reports
    BY <1>3 DEF Hear, Maps, Typed, LinksTyped
  <2>2. CASE Head(up[c]) = "Monitors"
    <3>1. Home[c] \in Screens
      BY DeskAssumption
    <3> QED
      BY <1>3, <2>2, <3>1 DEF Hear, S!Next
  <2>3. CASE Head(up[c]) = "Suspended"
    BY <1>3, <2>3 DEF Hear, S!Next
  <2>4. CASE Head(up[c]) = "Resumed"
    BY <1>3, <2>4 DEF Hear, S!Next
  <2> QED
    BY <2>1, <2>2, <2>3, <2>4 DEF Reports
<1> QED
  BY <1>1, <1>2, <1>3

\* And nothing else that happens on a desk touches it.
LEMMA RestUnserved ==
  ASSUME NEW c \in Clients,
         \/ Connect(c) \/ Arrived(c) \/ Write(c) \/ Cut(c)
         \/ Receive(c) \/ Disconnect(c) \/ Crash(c) \/ Look(c)
         \/ \E s \in Reasons \cup {"open"} : Prompt(c, s)
  PROVE  UNCHANGED serverVars
BY DEF Connect, Arrived, Write, Cut, Receive, Disconnect, Crash, Look, Prompt

LEMMA ServerStep == ASSUME Maps, [Next]_vars PROVE [S!Next]_serverVars
<1>1. CASE UNCHANGED vars
  BY <1>1 DEF vars
<1>2. CASE Next
  BY <1>2, EventsServed, MachinesServed, RestUnserved DEF Next
<1> QED
  BY <1>1, <1>2

\* However many machines there are and whatever becomes of their links, what the
\* server goes through in the middle of a desk is what Server says of it alone:
\* each step of the desk is one event it is given, or none.
THEOREM DeskServed == Spec => S!Init /\ [][S!Next]_serverVars
<1>1. Init => S!Init
  BY DEF Init
<1> QED
  BY <1>1, MapsInit, MapsStep, ServerStep, PTL DEF Spec

\* What the person types is kept from this machine exactly while the cursor is on
\* another, and between turns that is one its daemon has a link to.
TypedSomewhere ==
  /\ S!ModeFollowsCursor
  /\ Idle /\ active # Local => active \in attached

\* Whoever hands the cursor over swallows local input, or lets it through again.
LEMMA Swallowing ==
  ASSUME S!ModeFollowsCursor,
         \/ UNCHANGED <<active, mode>>
         \/ S!RecallCursor
         \/ \E d, p : S!CrossTo(d, p)
  PROVE  S!ModeFollowsCursor'
<1>1. CASE UNCHANGED <<active, mode>>
  BY <1>1 DEF S!ModeFollowsCursor
<1>2. CASE S!RecallCursor
  BY <1>2 DEF S!RecallCursor, S!ModeFollowsCursor
<1>3. ASSUME NEW d, NEW p, S!CrossTo(d, p) PROVE S!ModeFollowsCursor'
  BY <1>3 DEF S!CrossTo, S!ModeFollowsCursor
<1> QED
  BY <1>1, <1>2, <1>3

LEMMA SwallowedStep ==
  ASSUME S!ModeFollowsCursor, [S!Next]_serverVars
  PROVE  S!ModeFollowsCursor'
<1>1. CASE \E p \in Points : S!PointerAt(p)
  BY <1>1, Swallowing DEF S!PointerAt
<1>2. CASE S!Motion
  BY <1>2, Swallowing DEF S!Motion, S!PointerBy
<1>3. CASE S!Tick
  BY <1>3, Swallowing DEF S!Tick
<1>4. CASE S!Elapse \/ S!Wheel
  BY <1>4, Swallowing DEF S!Elapse, S!Wheel
<1>5. ASSUME NEW k, NEW d, S!Key(k, d) PROVE S!ModeFollowsCursor'
  BY <1>5, Swallowing DEF S!Key
<1>6. ASSUME NEW c, S!ClientUp(c) \/ S!ClientResumed(c) PROVE S!ModeFollowsCursor'
  BY <1>6, Swallowing DEF S!ClientUp, S!ClientResumed
<1>7. ASSUME NEW c, S!ClientDown(c) \/ S!ClientSuspended(c) PROVE S!ModeFollowsCursor'
  <2>1. S!RecallCursor \/ UNCHANGED <<active, mode>>
    BY <1>7 DEF S!ClientDown, S!ClientSuspended
  <2> QED
    BY <2>1, Swallowing
<1>8. ASSUME NEW f, NEW p, NEW hold, NEW tap, S!Resettle(f, p, hold, tap)
      PROVE  S!ModeFollowsCursor'
  BY <1>8, Swallowing DEF S!Resettle
<1>9. ASSUME NEW c, NEW s, S!ClientMonitors(c, s) PROVE S!ModeFollowsCursor'
  BY <1>8, <1>9 DEF S!ClientMonitors
<1>10. ASSUME NEW f, NEW d, NEW w, S!Reconfigure(f, d, w) PROVE S!ModeFollowsCursor'
  BY <1>8, <1>10 DEF S!Reconfigure
<1>11. CASE UNCHANGED serverVars
  BY <1>11, Swallowing DEF serverVars
<1> QED
  BY <1>1, <1>2, <1>3, <1>4, <1>5, <1>6, <1>7, <1>9, <1>10, <1>11 DEF S!Next

\* However links end and whatever is queued when they do, nobody types into
\* nothing: local input is swallowed only while the cursor is away, and after
\* every turn the machine it is on is one the daemon can still reach.
THEOREM TypedAlwaysSomewhere == Spec => []TypedSomewhere
<1>1. Init => Maps /\ S!ModeFollowsCursor
  BY MapsInit DEF Init, S!Init, S!ModeFollowsCursor
<1>2. (Maps /\ S!ModeFollowsCursor) /\ [Next]_vars => (Maps /\ S!ModeFollowsCursor)'
  BY MapsStep, ServerStep, SwallowedStep
<1>3. Maps /\ S!ModeFollowsCursor => TypedSomewhere
  BY DEF Maps, MapsFollow, TypedSomewhere, Idle
<1> QED
  BY <1>1, <1>2, <1>3, PTL DEF Spec

-----------------------------------------------------------------------------
(* What happens to one machine.                                            *)

\* A machine does what it reads.
Heeds(c, m) ==
  \/ m.type = "Enter" /\ C!Enter(c, m.at, m.keys)
  \/ m.type = "Leave" /\ C!Leave(c)
  \/ m.type = "MoveTo" /\ C!MoveTo(c, m.at)
  \/ m.type = "Key" /\ C!KeyEvent(c, m.key, m.down, FALSE)
  \/ m.type = "ReleaseAll" /\ C!ReleaseAll(c)

\* Of a machine, everything that its client keeps.
Same(c) == /\ session'[c] = session[c] /\ acting'[c] = acting[c]
           /\ suspended'[c] = suspended[c] /\ refused'[c] = refused[c]
           /\ held'[c] = held[c] /\ down'[c] = down[c]
           /\ at'[c] = at[c] /\ owes'[c] = owes[c] /\ screen'[c] = screen[c]

\* A message keeps types and touches no other machine.
LEMMA HeedingTyped ==
  ASSUME C!TypeOK, NEW c \in Clients, NEW m \in ToClient, Heeds(c, m)
  PROVE  C!TypeOK' /\ \A e \in Clients \ {c} : Same(e)
<1> USE DEF C!TypeOK, Same
<1>1. CASE m.type = "Enter" /\ C!Enter(c, m.at, m.keys)
  <2>1. m.at \in Points /\ m.keys \in SUBSET Keys
    BY <1>1 DEF ToClient
  <2> QED
    BY <1>1, <2>1 DEF C!Enter, C!Sync, C!Refuses
<1>2. CASE C!Leave(c)
  BY <1>2 DEF C!Leave, C!ReleaseHeld, C!HideCursor
<1>3. CASE m.type = "MoveTo" /\ C!MoveTo(c, m.at)
  <2>1. m.at \in Points
    BY <1>3 DEF ToClient
  <2> QED
    BY <1>3, <2>1 DEF C!MoveTo, C!Place, C!Refuses
<1>4. CASE m.type = "Key" /\ C!KeyEvent(c, m.key, m.down, FALSE)
  <2>1. m.key \in Keys /\ m.down \in BOOLEAN
    BY <1>4 DEF ToClient
  <2> QED
    <3>1. CASE C!Press(c, m.key, m.down) /\ refused' = [refused EXCEPT ![c] = C!Refuses(c)]
      <4>1. /\ held' \in [Clients -> SUBSET Keys] /\ down' \in [Clients -> SUBSET Keys]
            /\ \A e \in Clients \ {c} : held'[e] = held[e] /\ down'[e] = down[e]
        BY <2>1, <3>1 DEF C!Press
      <4>2. refused' \in [Clients -> BOOLEAN] /\ \A e \in Clients \ {c} : refused'[e] = refused[e]
        BY <3>1 DEF C!Refuses
      <4> QED
        BY <1>4, <4>1, <4>2 DEF C!KeyEvent
    <3>2. CASE UNCHANGED <<held, down, refused>>
      BY <1>4, <3>2 DEF C!KeyEvent
    <3> QED
      BY <1>4, <3>1, <3>2 DEF C!KeyEvent
<1>5. CASE C!ReleaseAll(c)
  BY <1>5 DEF C!ReleaseAll, C!ReleaseHeld
<1> QED
  BY <1>1, <1>2, <1>3, <1>4, <1>5 DEF Heeds

\* So do the beginning and the end of a session.
LEMMA SessionTyped ==
  ASSUME C!TypeOK, NEW c \in Clients,
         C!Begin(c) \/ C!Disconnected(c) \/ C!Crash(c) \/ C!Stop(c)
  PROVE  C!TypeOK' /\ \A e \in Clients \ {c} : Same(e)
<1> USE DEF C!TypeOK, Same
<1>1. CASE C!Begin(c)
  BY <1>1 DEF C!Begin
<1>2. CASE C!Disconnected(c)
  BY <1>2 DEF C!Disconnected, C!ReleaseHeld, C!ShowCursor
<1>3. CASE C!Crash(c) \/ C!Stop(c)
  <2>1. C!CutShort(c)
    BY <1>3 DEF C!Crash, C!Stop
  <2>2. C!TypeOK'
    BY <2>1 DEF C!CutShort
  <2>3. \A e \in Clients \ {c} : Same(e)
    BY <2>1 DEF C!CutShort
  <2> QED
    BY <2>2, <2>3
<1> QED
  BY <1>1, <1>2, <1>3

\* What a session that reads has on the wire is what machines are sent.
LEMMA HeadHeeded ==
  ASSUME LinksTyped, NEW c \in Clients, Receive(c)
  PROVE  Head(wire[c]) \in ToClient /\ Heeds(c, Head(wire[c]))
<1> DEFINE m == Head(wire[c])
<1>1. m \in ToClient
  BY DEF LinksTyped, Receive
<1>2. m.type \in {"Enter", "Leave", "MoveTo", "Key", "ReleaseAll"}
  BY <1>1 DEF ToClient
<1>3. CASE m.type = "Enter"
  BY <1>1, <1>3 DEF Receive, Heeds
<1>4. CASE m.type = "Leave"
  BY <1>1, <1>4 DEF Receive, Heeds
<1>5. CASE m.type = "MoveTo"
  BY <1>1, <1>5 DEF Receive, Heeds
<1>6. CASE m.type = "Key"
  BY <1>1, <1>6 DEF Receive, Heeds
<1>7. CASE m.type = "ReleaseAll"
  BY <1>1, <1>7 DEF Receive, Heeds
<1> QED
  BY <1>2, <1>3, <1>4, <1>5, <1>6, <1>7

\* Nothing is said to it but where the pointer is, and the cursor is where it was.
Undisturbed(c) ==
  /\ Linked(c) /\ Same(c)
  /\ \/ Queue(c)' = Queue(c)
     \/ \E m \in Positions : Queue(c)' = Append(Queue(c), m)
  /\ active' = c <=> active = c
  /\ active = c => keys' = keys

\* It is told what changes for it.
Addressed(c) ==
  /\ Linked(c) /\ Same(c)
  /\ Told(c) /\ Said(c) \notin Positions /\ SaysWhatItDoes(c)
  /\ Queue(c)' = Append(Queue(c), Said(c))

\* It reads.
Reading(c) ==
  /\ Linked(c)
  /\ Queue(c) # <<>> /\ Queue(c)' = Tail(Queue(c))
  /\ Heeds(c, Head(Queue(c)))
  /\ UNCHANGED <<active, keys>>

\* It is taken in.
Joining(c) ==
  /\ ~acting[c] /\ Same(c)
  /\ Queue(c)' = <<[type |-> "ReleaseAll"]>>
  /\ active' # c

Fate(c) == Undisturbed(c) \/ Addressed(c) \/ Reading(c) \/ Joining(c)

\* What waits for a machine is what a server may say.
LEMMA QueueTyped ==
  ASSUME LinksTyped, NEW c \in Clients
  PROVE  Queue(c) \in Seq(ToClient)
BY ConcatProperties DEF LinksTyped, Queue

\* What joins the end of what waits joins the end of the queue.
LEMMA QueueGrows ==
  ASSUME LinksTyped, NEW c \in Clients, NEW m \in ToClient,
         control'[c] = Append(control[c], m), wire'[c] = wire[c]
  PROVE  Queue(c)' = Append(Queue(c), m)
<1> DEFINE w == wire[c]
           k == control[c]
<1>1. w \in Seq(ToClient) /\ k \in Seq(ToClient) /\ <<m>> \in Seq(ToClient)
  BY DEF LinksTyped
<1>2. Queue(c)' = w \o Append(k, m) /\ Queue(c) = w \o k
  BY DEF Queue
<1> HIDE DEF w, k
<1>3. w \o k \in Seq(ToClient)
  BY <1>1, ConcatProperties
<1>4. Append(k, m) = k \o <<m>> /\ Append(w \o k, m) = (w \o k) \o <<m>>
  BY <1>1, <1>3, AppendIsConcat
<1> QED
  BY <1>1, <1>2, <1>4, ConcatAssociative

\* A turn of the server's loop.
LEMMA TurnSays ==
  ASSUME Agreement, \/ \E p \in Points : Move(p)
                    \/ \E k \in Keys, d \in BOOLEAN : Type(k, d)
                    \/ \E c \in Clients : Hear(c)
  PROVE  \A c \in Clients : SaysWhatItDoes(c)
<1> USE DEF Agreement, Maps, Typed
<1>0. HolderKnown
  BY DEF HolderKnown, MapsFollow, ServerTyped, Devices
<1>1. ASSUME NEW p \in Points, Move(p)
      PROVE  \A c \in Clients : SaysWhatItDoes(c)
  <2>1. PICK d \in {Local} \cup Clients : S!PointerBy(d, p)
    BY <1>1 DEF Move
  <2> QED
    BY <1>0, <2>1, MoveTurns
<1>2. ASSUME NEW k \in Keys, NEW d \in BOOLEAN, Type(k, d)
      PROVE  \A c \in Clients : SaysWhatItDoes(c)
  BY <1>0, <1>2, KeyTurns DEF Type
<1>3. ASSUME NEW c \in Clients, Hear(c)
      PROVE  \A e \in Clients : SaysWhatItDoes(e)
  <2>1. Head(up[c]) = "Monitors"
    <3>1. up[c] \in Seq(Unhindered) /\ up[c] # <<>>
      BY <1>3 DEF Hear, InputLands
    <3> QED
      BY <3>1 DEF Unhindered
  <2>2. S!ClientMonitors(c, Home[c])
    BY <1>3, <2>1 DEF Hear
  <2> QED
    BY <1>0, <2>2, MonitorsTurn
<1> QED
  BY <1>1, <1>2, <1>3

\* What the server's turn at its own machine, or at a message, does to a linked machine.
LEMMA TurnFate ==
  ASSUME Agreement, \/ \E p \in Points : Move(p)
                    \/ \E k \in Keys, d \in BOOLEAN : Type(k, d)
                    \/ \E c \in Clients : Hear(c),
         NEW c \in Clients, Linked(c)'
  PROVE  Fate(c)
<1>1. Maps /\ LinksTyped
  BY DEF Agreement, Maps, Typed
<1>2. SaysSense /\ Deliver /\ UNCHANGED <<clientVars, wire, link, arriving>> /\ SaysWhatItDoes(c)
  BY <1>1, TurnTaken, TurnSays
<1>3. /\ attached' \subseteq attached
      /\ IF c \in attached' /\ link[c] = "open" /\ Told(c) /\ Said(c) \notin Positions
           THEN control'[c] = Append(control[c], Said(c))
           ELSE control'[c] = control[c]
  BY <1>1, <1>2, Delivered
<1>4. Linked(c) /\ Same(c)
  BY <1>2, <1>3 DEF Linked, Same, clientVars
<1>5. CASE Told(c) /\ Said(c) \notin Positions
  <2>1. Said(c) \in ToClient
    BY <1>2, <1>5 DEF SaysSense
  <2>2. Queue(c)' = Append(Queue(c), Said(c))
    BY <1>1, <1>2, <1>3, <1>5, <2>1, QueueGrows DEF Linked
  <2> QED
    BY <1>2, <1>4, <1>5, <2>2 DEF Fate, Addressed
<1>6. CASE ~(Told(c) /\ Said(c) \notin Positions)
  <2>1. Queue(c)' = Queue(c)
    BY <1>2, <1>3, <1>6 DEF Queue
  <2>2. (active' = c <=> active = c) /\ (active = c => keys' = keys)
    BY <1>6, <1>2 DEF SaysWhatItDoes, Positions
  <2> QED
    BY <1>4, <2>1, <2>2 DEF Fate, Undisturbed
<1> QED
  BY <1>5, <1>6

\* Nobody looks for what does not happen.
LEMMA NothingInTheWay ==
  ASSUME Agreement, Reasons = {}, NEW c \in Clients
  PROVE  ~Look(c) /\ \A s \in Reasons \cup {"open"} : ~Prompt(c, s)
<1>1. screen[c] = "open" /\ suspended[c] = None /\ ~refused[c]
  BY DEF Agreement, InputLands
<1>2. ~Look(c)
  BY <1>1 DEF Look, C!Suspend, C!Resume, C!Shrug
<1>3. \A s \in Reasons \cup {"open"} : ~Prompt(c, s)
  BY <1>1 DEF Prompt, C!Screen
<1> QED
  BY <1>2, <1>3

\* A machine whose link, queue and client are what they were.
LEMMA FateElsewhere ==
  ASSUME NEW c \in Clients, Linked(c)', Same(c), wire'[c] = wire[c], control'[c] = control[c],
         link'[c] = link[c], c \in attached' => c \in attached,
         active' = c <=> active = c, active = c => keys' = keys
  PROVE  Fate(c)
BY DEF Fate, Undisturbed, Linked, Queue

\* Machines at other links see nothing of what one does.
LEMMA LinkFateElsewhere ==
  ASSUME Agreement, NEW c \in Clients, NEW e \in Clients \ {c}, Linked(e)',
         Connect(c) \/ Write(c) \/ Cut(c) \/ Receive(c) \/ Disconnect(c) \/ Crash(c)
  PROVE  Fate(e)
<1>1. LinksTyped /\ C!TypeOK
  BY DEF Agreement, Maps, Typed
<1>2. Same(e)
  <2>1. CASE Connect(c) \/ Disconnect(c) \/ Crash(c)
    BY <1>1, <2>1, SessionTyped DEF Connect, Disconnect, Crash
  <2>2. CASE Receive(c)
    BY <1>1, <2>2, HeadHeeded, HeedingTyped
  <2>3. CASE Write(c) \/ Cut(c)
    BY <2>3 DEF Write, Cut, clientVars, Same
  <2> QED
    BY <2>1, <2>2, <2>3
<1>3. /\ wire'[e] = wire[e] /\ control'[e] = control[e] /\ link'[e] = link[e]
      /\ UNCHANGED <<serverVars, attached>>
  <2> USE <1>1 DEF LinksTyped
  <2>1. CASE Connect(c)
    BY <2>1 DEF Connect
  <2>2. CASE Write(c)
    BY <2>2 DEF Write
  <2>3. CASE Cut(c)
    BY <2>3 DEF Cut
  <2>4. CASE Receive(c)
    BY <2>4 DEF Receive
  <2>5. CASE Disconnect(c)
    BY <2>5 DEF Disconnect
  <2>6. CASE Crash(c)
    BY <2>6 DEF Crash
  <2> QED
    BY <2>1, <2>2, <2>3, <2>4, <2>5, <2>6
<1> QED
  BY <1>2, <1>3, FateElsewhere DEF serverVars

\* What one does at its own link.
LEMMA LinkFateHere ==
  ASSUME Agreement, NEW c \in Clients, Linked(c)',
         Connect(c) \/ Write(c) \/ Cut(c) \/ Receive(c) \/ Disconnect(c) \/ Crash(c)
  PROVE  Fate(c)
<1>1. LinksTyped
  BY DEF Agreement, Maps, Typed
<1>2. ~(Connect(c) \/ Cut(c) \/ Disconnect(c) \/ Crash(c))
  BY <1>1 DEF LinksTyped, Connect, Cut, Disconnect, Crash, Linked
<1>3. CASE Write(c)
  <2>1. UNCHANGED <<serverVars, clientVars, attached>> /\ link[c] = "open"
    BY <1>3 DEF Write
  <2>2. Linked(c) /\ Same(c) /\ UNCHANGED <<active, keys>>
    BY <2>1 DEF Linked, Same, serverVars, clientVars
  <2>3. CASE /\ control[c] # <<>>
             /\ wire' = [wire EXCEPT ![c] = Append(@, Head(control[c]))]
             /\ control' = [control EXCEPT ![c] = Tail(@)]
    <3> DEFINE w == wire[c]
               k == control[c]
    <3>1. w \in Seq(ToClient) /\ k \in Seq(ToClient) /\ k # <<>>
      BY <1>1, <2>3 DEF LinksTyped
    <3>2. Queue(c) = w \o k /\ Queue(c)' = Append(w, Head(k)) \o Tail(k)
      BY <1>1, <2>3 DEF Queue, LinksTyped
    <3> HIDE DEF w, k
    <3>3. /\ Head(k) \in ToClient /\ Tail(k) \in Seq(ToClient) /\ <<Head(k)>> \in Seq(ToClient)
          /\ <<Head(k)>> \o Tail(k) = k
      BY <3>1
    <3>4. Append(w, Head(k)) = w \o <<Head(k)>>
      BY <3>1, <3>3, AppendIsConcat
    <3>5. Queue(c)' = (w \o <<Head(k)>>) \o Tail(k)
      BY <3>2, <3>4
    <3>6. @ = w \o (<<Head(k)>> \o Tail(k))
      BY <3>1, <3>3, ConcatAssociative
    <3>7. @ = Queue(c)
      BY <3>2, <3>3
    <3> QED
      BY <2>2, <3>5, <3>6, <3>7 DEF Fate, Undisturbed
  <2>4. CASE /\ control[c] = <<>> /\ motion[c] # <<>>
             /\ wire' = [wire EXCEPT ![c] = Append(@, Head(motion[c]))]
             /\ UNCHANGED control
    <3> DEFINE w == wire[c]
               m == Head(motion[c])
    <3>1. w \in Seq(ToClient) /\ m \in Positions
      BY <1>1, <2>4 DEF LinksTyped
    <3>2. m \in ToClient
      BY <3>1 DEF ToClient, Positions
    <3>3. Queue(c) = w \o <<>> /\ Queue(c)' = Append(w, m) \o <<>>
      BY <1>1, <2>4 DEF Queue, LinksTyped
    <3> HIDE DEF w, m
    <3>4. Queue(c)' = Append(Queue(c), m)
      BY <3>1, <3>2, <3>3, ConcatEmptySeq, AppendProperties
    <3> QED
      BY <2>2, <3>1, <3>4 DEF Fate, Undisturbed
  <2>5. CASE link' = [link EXCEPT ![c] = "cut"]
    BY <1>1, <2>5 DEF Linked, LinksTyped
  <2> QED
    BY <1>3, <2>3, <2>4, <2>5 DEF Write
<1>4. CASE Receive(c)
  <2>1. Linked(c) /\ UNCHANGED <<active, keys>>
    BY <1>4 DEF Receive, Linked, serverVars
  <2>2. Heeds(c, Head(wire[c]))
    BY <1>1, <1>4, HeadHeeded
  <2> DEFINE w == wire[c]
             k == control[c]
  <2>3. w \in Seq(ToClient) /\ k \in Seq(ToClient) /\ w # <<>>
    BY <1>1, <1>4 DEF LinksTyped, Receive
  <2>4. Queue(c) = w \o k /\ Queue(c)' = Tail(w) \o k
    BY <1>1, <1>4 DEF Queue, LinksTyped, Receive
  <2> HIDE DEF w, k
  <2>5. w \o k # <<>> /\ Tail(w \o k) = Tail(w) \o k /\ Head(w \o k) = Head(w)
    BY <2>3
  <2> QED
    BY <2>1, <2>2, <2>4, <2>5 DEF Fate, Reading, w
<1> QED
  BY <1>2, <1>3, <1>4

\* What a machine that comes or goes does to another that is linked.
LEMMA MachineFate ==
  ASSUME Agreement, NEW c \in Clients, NEW e \in Clients, Linked(e)',
         Arrived(c) \/ TakeIn(c) \/ Departed(c) \/ Gone(c)
  PROVE  Fate(e)
<1>1. ServerTyped /\ LinksTyped /\ MapsFollow /\ SessionsFollow
  BY DEF Agreement, Maps, Typed
<1>2. HolderKnown
  BY <1>1 DEF HolderKnown, MapsFollow, ServerTyped, Devices
<1>3. Same(e)
  BY DEF Same, Arrived, TakeIn, Departed, Gone, clientVars
<1>4. CASE Arrived(c)
  BY <1>3, <1>4, FateElsewhere DEF Arrived, serverVars
<1>5. CASE TakeIn(c)
  <2>1. S!ClientUp(c)
    BY <1>5 DEF TakeIn
  <2>2. UNCHANGED <<active, keys>>
    BY <1>1, <1>2, <2>1, ArrivalTurns
  <2>3. CASE e # c
    BY <1>1, <1>3, <1>5, <2>2, <2>3, FateElsewhere DEF TakeIn, LinksTyped
  <2>4. CASE e = c
    <3>1. link[c] = "knocking" /\ c \notin attached /\ todo = {}
      BY <1>1, <1>5, DeskAssumption DEF TakeIn, MapsFollow
    <3>2. wire[c] = <<>> /\ ~acting[c] /\ active # c
      BY <1>1, <3>1, DeskAssumption DEF SessionsFollow, MapsFollow
    <3>3. wire'[c] = <<>> /\ control'[c] = <<[type |-> "ReleaseAll"]>>
      BY <1>1, <1>5, <3>2 DEF TakeIn, LinksTyped
    <3>4. <<[type |-> "ReleaseAll"]>> \in Seq(ToClient)
      BY DEF ToClient
    <3>5. Queue(c)' = <<[type |-> "ReleaseAll"]>>
      BY <3>3, <3>4, ConcatEmptySeq DEF Queue
    <3> QED
      BY <1>3, <2>2, <2>4, <3>2, <3>5 DEF Fate, Joining
  <2> QED
    BY <2>3, <2>4
<1>6. CASE Departed(c) \/ Gone(c)
  <2>1. S!ClientDown(c)
    BY <1>6 DEF Departed, Gone
  <2>2. keys' = keys /\ active' # c /\ (active' # active => active = c /\ active' = Local)
    BY <1>1, <1>2, <2>1, DepartureTurns
  <2>3. e # c
    BY <1>1, <1>6 DEF Departed, Gone, Linked, MapsFollow
  <2>4. UNCHANGED <<wire, control, link>> /\ (e \in attached' => e \in attached)
    BY <1>6 DEF Departed, Gone
  <2> QED
    BY <1>3, <2>2, <2>3, <2>4, DeskAssumption, FateElsewhere
<1> QED
  BY <1>4, <1>5, <1>6

\* Every step, to every machine that has a link after it.
LEMMA EveryFate ==
  ASSUME Agreement, Reasons = {}, Next, NEW c \in Clients, Linked(c)'
  PROVE  Fate(c)
<1>1. CASE \/ \E p \in Points : Move(p)
           \/ \E k \in Keys, d \in BOOLEAN : Type(k, d)
           \/ \E e \in Clients : Hear(e)
  BY <1>1, TurnFate
<1>2. ASSUME NEW e \in Clients, Connect(e) \/ Write(e) \/ Cut(e) \/ Receive(e) \/ Disconnect(e) \/ Crash(e)
      PROVE  Fate(c)
  BY <1>2, LinkFateHere, LinkFateElsewhere
<1>3. ASSUME NEW e \in Clients, Arrived(e) \/ TakeIn(e) \/ Departed(e) \/ Gone(e)
      PROVE  Fate(c)
  BY <1>3, MachineFate
<1> QED
  BY <1>1, <1>2, <1>3, NothingInTheWay DEF Next

-----------------------------------------------------------------------------
(* Sessions, and who has the cursor.                                       *)

\* Where a link stands with its session, and that nothing is in the way.
Standing(c) ==
  /\ link[c] # "cut" => session[c]
  /\ link[c] = "knocking" => wire[c] = <<>> /\ control[c] = <<>> /\ motion[c] = <<>>
  /\ ~session[c] \/ link[c] = "knocking" => ~acting[c]
  /\ screen[c] = "open" /\ suspended[c] = None /\ ~refused[c]
  /\ up[c] \in Seq(Unhindered)

\* The state of the links and screens, machine by machine.
LEMMA StandingIs == (SessionsFollow /\ InputLands) <=> \A c \in Clients : Standing(c)
BY DEF SessionsFollow, InputLands, Standing

\* What a machine reads leaves its session and its screen alone.
LEMMA HeedingStands ==
  ASSUME C!TypeOK, NEW c \in Clients, NEW m \in ToClient, Heeds(c, m), screen[c] = "open"
  PROVE  /\ session[c] /\ session'[c] = session[c] /\ screen'[c] = "open"
         /\ suspended'[c] = suspended[c] /\ (~refused[c] => ~refused'[c])
<1> USE DEF C!TypeOK, C!Ready
<1>1. CASE C!Enter(c, m.at, m.keys)
  BY <1>1 DEF C!Enter, C!Refuses
<1>2. CASE C!Leave(c)
  BY <1>2 DEF C!Leave
<1>3. CASE C!MoveTo(c, m.at)
  BY <1>3 DEF C!MoveTo, C!Refuses
<1>4. CASE C!KeyEvent(c, m.key, m.down, FALSE)
  BY <1>4 DEF C!KeyEvent, C!Refuses
<1>5. CASE C!ReleaseAll(c)
  BY <1>5 DEF C!ReleaseAll
<1> QED
  BY <1>1, <1>2, <1>3, <1>4, <1>5 DEF Heeds

\* A machine whose link is what it was stands as it did.
LEMMA StandsStill ==
  ASSUME NEW c, Standing(c), Same(c), up'[c] \in Seq(Unhindered),
         link'[c] = link[c] \/ (link[c] # "cut" /\ link'[c] # "knocking"),
         link'[c] = "knocking" => wire'[c] = wire[c] /\ control'[c] = control[c] /\ motion'[c] = motion[c]
  PROVE  Standing(c)'
BY DEF Standing, Same

\* Every step of a machine's standing.
LEMMA StandingStep ==
  ASSUME Agreement, Reasons = {}, Next
  PROVE  C!TypeOK' /\ SessionsFollow' /\ InputLands'
<1> USE DEF LinksTyped
<1>1. Maps /\ LinksTyped /\ C!TypeOK /\ \A c \in Clients : Standing(c)
  BY StandingIs DEF Agreement, Maps, Typed
<1> SUFFICES C!TypeOK' /\ \A c \in Clients : Standing(c)'
  BY DEF SessionsFollow, InputLands, Standing
<1>2. CASE \/ \E p \in Points : Move(p)
           \/ \E k \in Keys, d \in BOOLEAN : Type(k, d)
           \/ \E e \in Clients : Hear(e)
  <2>1. SaysSense /\ Deliver /\ UNCHANGED <<clientVars, wire, link, arriving>>
    BY <1>1, <1>2, TurnTaken
  <2>2. \A c \in Clients : link[c] # "open" => control'[c] = control[c] /\ motion'[c] = motion[c]
    BY <1>1, <2>1, Delivered
  <2>3. \A c \in Clients : up'[c] \in Seq(Unhindered)
    <3>1. UNCHANGED up \/ \E e \in Clients : up[e] # <<>> /\ up' = [up EXCEPT ![e] = Tail(@)]
      BY <1>2 DEF Move, Type, Hear
    <3>2. \A e \in Clients : up[e] # <<>> => Tail(up[e]) \in Seq(Unhindered)
      BY <1>1, HeadTailProperties DEF Standing
    <3> QED
      BY <1>1, <3>1, <3>2 DEF Standing
  <2>4. \A c \in Clients : Same(c)
    BY <2>1 DEF Same, clientVars
  <2> QED
    BY <1>1, <2>1, <2>2, <2>3, <2>4, StandsStill DEF clientVars, C!TypeOK
<1>3. ASSUME NEW e \in Clients, Connect(e) PROVE C!TypeOK' /\ \A c \in Clients : Standing(c)'
  <2>1. C!TypeOK' /\ \A c \in Clients \ {e} : Same(c)
    BY <1>1, <1>3, SessionTyped DEF Connect
  <2>2. Standing(e)'
    BY <1>1, <1>3 DEF Connect, C!Begin, C!TypeOK, Standing, Unhindered
  <2>3. \A c \in Clients \ {e} : wire'[c] = wire[c] /\ control'[c] = control[c] /\ up'[c] = up[c]
                                  /\ motion'[c] = motion[c] /\ link'[c] = link[c]
    BY <1>1, <1>3 DEF Connect
  <2>4. \A c \in Clients \ {e} : up'[c] \in Seq(Unhindered)
    BY <1>1, <2>3 DEF Standing
  <2>5. \A c \in Clients \ {e} : Standing(c)'
    BY <1>1, <2>1, <2>3, <2>4, StandsStill
  <2> QED
    BY <2>1, <2>2, <2>5
<1>4. ASSUME NEW e \in Clients, Write(e) PROVE C!TypeOK' /\ \A c \in Clients : Standing(c)'
  <2>1. UNCHANGED <<clientVars, up>> /\ link[e] = "open"
        /\ \A c \in Clients \ {e} : wire'[c] = wire[c] /\ control'[c] = control[c]
                                    /\ motion'[c] = motion[c] /\ link'[c] = link[c]
    BY <1>1, <1>4 DEF Write
  <2>2. link'[e] # "knocking" /\ (link'[e] # "cut" => link[e] # "cut")
    BY <1>1, <1>4 DEF Write
  <2> QED
    BY <1>1, <2>1, <2>2 DEF Standing, clientVars, C!TypeOK
<1>5. ASSUME NEW e \in Clients, Cut(e) PROVE C!TypeOK' /\ \A c \in Clients : Standing(c)'
  <2>1. UNCHANGED clientVars /\ link'[e] = "cut" /\ up'[e] \in Seq(Unhindered)
    <3>1. PICK m \in 0 .. Len(up[e]) : up'[e] = SubSeq(up[e], 1, m)
      BY <1>1, <1>5 DEF Cut
    <3> QED
      BY <1>1, <1>5, <3>1, SubSeqProperties DEF Cut, Standing
  <2>2. \A c \in Clients \ {e} : wire'[c] = wire[c] /\ control'[c] = control[c] /\ up'[c] = up[c]
                                  /\ motion'[c] = motion[c] /\ link'[c] = link[c]
    BY <1>1, <1>5 DEF Cut
  <2>3. \A c \in Clients : Same(c)
    BY <2>1 DEF Same, clientVars
  <2>4. \A c \in Clients \ {e} : up'[c] \in Seq(Unhindered)
    BY <1>1, <2>2 DEF Standing
  <2>5. \A c \in Clients \ {e} : Standing(c)'
    BY <1>1, <2>2, <2>3, <2>4, StandsStill
  <2>6. Standing(e)'
    BY <1>1, <1>5, <2>1, <2>3, StandsStill DEF Cut
  <2> QED
    BY <1>1, <2>1, <2>5, <2>6 DEF clientVars, C!TypeOK
<1>6. ASSUME NEW e \in Clients, Receive(e) PROVE C!TypeOK' /\ \A c \in Clients : Standing(c)'
  <2>1. Head(wire[e]) \in ToClient /\ Heeds(e, Head(wire[e]))
    BY <1>1, <1>6, HeadHeeded
  <2>2. C!TypeOK' /\ \A c \in Clients \ {e} : Same(c)
    BY <1>1, <2>1, HeedingTyped
  <2>3. session[e] /\ session'[e] /\ screen'[e] = "open" /\ suspended'[e] = suspended[e] /\ ~refused'[e]
    BY <1>1, <2>1, HeedingStands DEF Standing
  <2>4. link[e] # "knocking" /\ UNCHANGED <<up, link, control, motion>>
        /\ \A c \in Clients \ {e} : wire'[c] = wire[c]
    BY <1>1, <1>6 DEF Receive, Standing
  <2>5. \A c \in Clients : up'[c] \in Seq(Unhindered)
    BY <1>1, <2>4 DEF Standing
  <2>6. \A c \in Clients \ {e} : Standing(c)'
    BY <1>1, <2>2, <2>4, <2>5, StandsStill
  <2>7. Standing(e)'
    BY <1>1, <2>3, <2>4, <2>5 DEF Standing
  <2> QED
    BY <2>2, <2>6, <2>7
<1>7. ASSUME NEW e \in Clients, Disconnect(e) \/ Crash(e)
      PROVE  C!TypeOK' /\ \A c \in Clients : Standing(c)'
  <2>1. C!TypeOK' /\ \A c \in Clients \ {e} : Same(c)
    BY <1>1, <1>7, SessionTyped DEF Disconnect, Crash
  <2>2. link'[e] = "cut" /\ UNCHANGED up
        /\ \A c \in Clients \ {e} : wire'[c] = wire[c] /\ control'[c] = control[c]
                                    /\ motion'[c] = motion[c] /\ link'[c] = link[c]
    BY <1>1, <1>7 DEF Disconnect, Crash
  <2>3. /\ ~acting'[e] /\ ~refused'[e]
        /\ screen'[e] = screen[e] /\ suspended'[e] = suspended[e]
    BY <1>1, <1>7 DEF Disconnect, Crash, C!Disconnected, C!Crash, C!Stop, C!CutShort, C!TypeOK, C!Ready
  <2>4. \A c \in Clients : up'[c] \in Seq(Unhindered)
    BY <1>1, <2>2 DEF Standing
  <2>5. \A c \in Clients \ {e} : Standing(c)'
    BY <1>1, <2>1, <2>2, <2>4, StandsStill
  <2>6. Standing(e)'
    BY <1>1, <2>2, <2>3, <2>4 DEF Standing
  <2> QED
    BY <2>1, <2>5, <2>6
<1>8. ASSUME NEW e \in Clients, Arrived(e) \/ TakeIn(e) \/ Departed(e) \/ Gone(e)
      PROVE  C!TypeOK' /\ \A c \in Clients : Standing(c)'
  <2>1. UNCHANGED <<clientVars, wire, motion>>
    BY <1>8 DEF Arrived, TakeIn, Departed, Gone
  <2>2. \A c \in Clients : \/ control'[c] = control[c] /\ link'[c] = link[c]
                           \/ link'[c] = "open" /\ link[c] = "knocking"
    <3>1. CASE TakeIn(e)
      <4>1. link[e] = "knocking"
        BY <1>1, <3>1, DeskAssumption DEF TakeIn, Maps, MapsFollow
      <4> QED
        BY <1>1, <3>1, <4>1 DEF TakeIn
    <3>2. CASE Arrived(e) \/ Departed(e) \/ Gone(e)
      BY <3>2 DEF Arrived, Departed, Gone
    <3> QED
      BY <1>8, <3>1, <3>2
  <2>3. \A c \in Clients : up'[c] \in Seq(Unhindered)
    <3>1. \A c \in Clients : up'[c] = up[c] \/ up'[c] = <<>>
      BY <1>1, <1>8 DEF Arrived, TakeIn, Departed, Gone
    <3>2. <<>> \in Seq(Unhindered)
      OBVIOUS
    <3> QED
      BY <1>1, <3>1, <3>2 DEF Standing
  <2>4. \A c \in Clients : Same(c)
    BY <2>1 DEF Same, clientVars
  <2> QED
    BY <1>1, <2>1, <2>2, <2>3, <2>4, StandsStill DEF clientVars, C!TypeOK
<1> QED
  BY <1>2, <1>3, <1>4, <1>5, <1>6, <1>7, <1>8, NothingInTheWay DEF Next

\* What makes a machine act does not stop it.
LEMMA NothingDoesBoth ==
  Enters \cap Leaves = {} /\ \A k : Presses(k) \cap Lifts(k) = {}
BY DEF Enters, Leaves, Presses, Lifts

\* What a machine reads decides whether it acts.
LEMMA HeedingActs ==
  ASSUME C!TypeOK, NEW c \in Clients, NEW m \in ToClient, Heeds(c, m)
  PROVE  acting'[c] <=> m \in Enters \/ (acting[c] /\ m \notin Leaves)
<1> USE DEF C!TypeOK, Enters, Leaves
<1>1. CASE m.type = "Enter" /\ C!Enter(c, m.at, m.keys)
  BY <1>1 DEF C!Enter
<1>2. CASE m.type = "Leave" /\ C!Leave(c)
  BY <1>2 DEF C!Leave
<1>3. CASE m.type = "MoveTo" /\ C!MoveTo(c, m.at)
  BY <1>3 DEF C!MoveTo
<1>4. CASE m.type = "Key" /\ C!KeyEvent(c, m.key, m.down, FALSE)
  BY <1>4 DEF C!KeyEvent
<1>5. CASE m.type = "ReleaseAll" /\ C!ReleaseAll(c)
  BY <1>5 DEF C!ReleaseAll
<1> QED
  BY <1>1, <1>2, <1>3, <1>4, <1>5 DEF Heeds

\* What a queue comes to when a message joins its end.
LEMMA ComesToAppend ==
  ASSUME NEW s \in Seq(ToClient), NEW m \in ToClient, NEW now \in BOOLEAN, NEW on, NEW off,
         on \cap off = {}
  PROVE  After(Append(s, m), Len(Append(s, m)), now, on, off)
           <=> m \in on \/ (m \notin off /\ After(s, Len(s), now, on, off))
<1>1. Len(Append(s, m)) = Len(s) + 1
  OBVIOUS
<1> QED
  BY <1>1, AfterAppend

\* And when its first is read.
LEMMA ComesToTail ==
  ASSUME NEW s \in Seq(ToClient), s # <<>>, NEW now \in BOOLEAN, NEW on, NEW off,
         on \cap off = {}
  PROVE  After(s, Len(s), now, on, off)
           <=> After(Tail(s), Len(Tail(s)), Head(s) \in on \/ (now /\ Head(s) \notin off), on, off)
<1> DEFINE n == Len(Tail(s))
<1>1. n \in 0 .. Len(s) - 1 /\ n + 1 = Len(s)
  OBVIOUS
<1> HIDE DEF n
<1>2. After(s, n + 1, now, on, off)
        <=> After(Tail(s), n, Head(s) \in on \/ (now /\ Head(s) \notin off), on, off)
  BY <1>1, AfterTail
<1> QED
  BY <1>1, <1>2, Zenon DEF n

\* Of the cursor.
LEMMA ActsThrough ==
  ASSUME Agreement, C!TypeOK', NEW c \in Clients, keys' \subseteq Keys, Fate(c)
  PROVE  Acts(Queue(c), Len(Queue(c)), acting[c])' <=> active' = c
<1> DEFINE q == Queue(c)
<1>1. q \in Seq(ToClient) /\ acting[c] \in BOOLEAN /\ acting'[c] \in BOOLEAN
  BY QueueTyped DEF Agreement, Maps, Typed, C!TypeOK
<1>2. Linked(c) => (Acts(q, Len(q), acting[c]) <=> active = c)
  BY DEF Agreement, ActsAsSaid
<1> SUFFICES Acts(q', Len(q'), acting'[c]) <=> active' = c
  BY DEF Acts, After
<1> HIDE DEF q
<1>3. CASE Undisturbed(c)
  <2>1. acting'[c] = acting[c] /\ Linked(c) /\ (active' = c <=> active = c)
    BY <1>3 DEF Undisturbed, Same
  <2>2. CASE q' = q
    BY <1>2, <2>1, <2>2
  <2>3. ASSUME NEW m \in Positions, q' = Append(q, m)
        PROVE  Acts(q', Len(q'), acting'[c]) <=> active' = c
    <3>1. m \in ToClient /\ m \notin Enters /\ m \notin Leaves
      BY DEF Positions, ToClient, Enters, Leaves
    <3> QED
      BY <1>1, <1>2, <2>1, <2>3, <3>1, ComesToAppend, NothingDoesBoth DEF Acts
  <2> QED
    BY <1>3, <2>2, <2>3 DEF Undisturbed, q
<1>4. CASE Addressed(c)
  <2> DEFINE m == Said(c)
  <2>1. acting'[c] = acting[c] /\ Linked(c) /\ q' = Append(q, m) /\ SaysWhatItDoes(c) /\ m \notin Positions /\ Told(c)
    BY <1>4 DEF Addressed, Same, q
  <2>2. /\ m \in ToClient
        /\ active' = c <=> m \in Enters \/ (m \notin Leaves /\ active = c)
    BY <2>1 DEF SaysWhatItDoes, ToClient, Enters, Leaves
  <2> HIDE DEF m
  <2> QED
    BY <1>1, <1>2, <2>1, <2>2, ComesToAppend, NothingDoesBoth DEF Acts
<1>5. CASE Reading(c)
  <2> DEFINE m == Head(q)
  <2>1. Linked(c) /\ q # <<>> /\ q' = Tail(q) /\ Heeds(c, m) /\ UNCHANGED active
    BY <1>5 DEF Reading, q
  <2>2. m \in ToClient
    BY <1>1, <2>1
  <2>3. acting'[c] = (m \in Enters \/ (acting[c] /\ m \notin Leaves))
    BY <1>1, <2>1, <2>2, HeedingActs DEF Agreement
  <2>4. Acts(q, Len(q), acting[c]) <=> Acts(q', Len(q'), acting'[c])
    BY <1>1, <2>1, <2>3, ComesToTail, NothingDoesBoth DEF Acts
  <2> QED
    BY <1>2, <2>1, <2>4
<1>6. CASE Joining(c)
  <2>1. ~acting'[c] /\ q' = <<[type |-> "ReleaseAll"]>> /\ active' # c
    BY <1>6 DEF Joining, Same, q
  <2>2. [type |-> "ReleaseAll"] \notin Enters /\ [type |-> "ReleaseAll"] \notin Leaves
    BY DEF Enters, Leaves
  <2> QED
    BY <2>1, <2>2 DEF Acts, After
<1> QED
  BY <1>3, <1>4, <1>5, <1>6 DEF Fate

\* Everyone agrees at the start, when nobody is linked,
LEMMA AgreementInit == Init => Agreement
<1> SUFFICES ASSUME Init PROVE Agreement
  OBVIOUS
<1>1. Maps
  BY MapsInit
<1>2. C!TypeOK
  BY DEF Init, C!Init, C!TypeOK
<1>3. SessionsFollow /\ InputLands /\ ActsAsSaid
  <2>1. <<>> \in Seq(Unhindered)
    OBVIOUS
  <2> QED
    BY <2>1 DEF Init, C!Init, SessionsFollow, InputLands, ActsAsSaid, Linked
<1> QED
  BY <1>1, <1>2, <1>3 DEF Agreement

\* and after every step, when nothing refuses input.
LEMMA AgreementStep ==
  ASSUME Reasons = {}, Agreement, [Next]_vars
  PROVE  Agreement'
<1>1. CASE UNCHANGED vars
  BY <1>1, MapsStep DEF vars, clientVars, linkVars, serverVars, Agreement, C!TypeOK, SessionsFollow,
                        InputLands, ActsAsSaid, Linked, Queue, Acts, After
<1>2. CASE Next
  <2>1. Maps'
    BY <1>2, MapsStep DEF Agreement
  <2>2. C!TypeOK' /\ SessionsFollow' /\ InputLands'
    BY <1>2, StandingStep
  <2>3. ASSUME NEW c \in Clients, Linked(c)'
        PROVE  Acts(Queue(c), Len(Queue(c)), acting[c])' <=> active' = c
    BY <1>2, <2>1, <2>2, <2>3, EveryFate, ActsThrough DEF Maps, Typed, ServerTyped
  <2>4. ActsAsSaid'
    BY <2>3 DEF ActsAsSaid
  <2> QED
    BY <2>1, <2>2, <2>4 DEF Agreement
<1> QED
  BY <1>1, <1>2

\* Where nothing keeps input from a screen, once a machine has been told
\* everything it believes it has the cursor exactly if the server believes so,
\* and the server's map of machines is the daemon's: for any number of machines
\* and queues of any length, however links end and processes are killed.
THEOREM EveryoneAlwaysAgrees ==
  ASSUME Reasons = {}
  PROVE  Spec => []EveryoneAgrees
<1>1. Agreement => MapsAgree
  BY DEF Agreement, Maps, MapsFollow, MapsAgree, Idle
<1>2. Agreement => BothEndsAgree
  <2> SUFFICES ASSUME Agreement, NEW c \in Clients, Settled(c)
               PROVE  acting[c] <=> active = c
    BY DEF BothEndsAgree
  <2>1. CASE session[c]
    <3>1. Linked(c) /\ wire[c] = <<>> /\ control[c] = <<>>
      BY <2>1 DEF Settled, Linked
    <3>2. Queue(c) = <<>>
      BY <3>1 DEF Queue
    <3> QED
      BY <3>1, <3>2 DEF Agreement, ActsAsSaid, Acts, After
  <2>2. CASE ~session[c]
    BY <2>2, DeskAssumption DEF Settled, Idle, Agreement, SessionsFollow, Maps, MapsFollow
  <2> QED
    BY <2>1, <2>2
<1> QED
  BY <1>1, <1>2, AgreementInit, AgreementStep, PTL DEF Spec, EveryoneAgrees

-----------------------------------------------------------------------------
(* What is down, and where pointers are.                                   *)

\* The record of one machine, and its debt.
Record(c) == /\ down[c] = held[c]
             /\ ~session[c] \/ link[c] = "knocking" => down[c] = {}
Owed(c) == /\ owes[c] \in Points \cup {None}
           /\ at[c] = Corner => session[c] /\ owes[c] \in Points

\* What a machine does with what it reads, where it lands.
LEMMA HeedingHolds ==
  ASSUME C!TypeOK, NEW c \in Clients, NEW m \in ToClient, Heeds(c, m),
         screen[c] = "open", suspended[c] = None, down[c] = held[c], Owed(c)
  PROVE  /\ down'[c] = held'[c] /\ Owed(c)'
         /\ (m.type = "Key" => acting[c]) =>
            \A k \in Keys : k \in down'[c] <=> m \in Presses(k) \/ (k \in down[c] /\ m \notin Lifts(k))
<1> USE ParkingAssumption DEF C!TypeOK, C!Lands, C!Refuses, Owed, Presses, Lifts, C!Ready
<1>1. CASE m.type = "Enter" /\ C!Enter(c, m.at, m.keys)
  <2>1. m.at \in Points /\ m.keys \subseteq Keys
    BY <1>1 DEF ToClient
  <2>2. held'[c] = m.keys /\ down'[c] = m.keys
    BY <1>1, <2>1 DEF C!Enter, C!Sync
  <2>3. Owed(c)'
    BY <1>1, <2>1 DEF C!Enter
  <2> QED
    BY <1>1, <2>2, <2>3
<1>2. CASE m.type = "Leave" /\ C!Leave(c)
  <2>1. held'[c] = {} /\ down'[c] = {}
    BY <1>2 DEF C!Leave, C!ReleaseHeld
  <2>2. Owed(c)'
    BY <1>2 DEF C!Leave, C!HideCursor
  <2> QED
    BY <1>2, <2>1, <2>2
<1>3. CASE m.type = "MoveTo" /\ C!MoveTo(c, m.at)
  <2>1. m.at \in Points
    BY <1>3 DEF ToClient
  <2>2. held'[c] = held[c] /\ down'[c] = down[c]
    BY <1>3 DEF C!MoveTo
  <2>3. Owed(c)'
    BY <1>3, <2>1 DEF C!MoveTo, C!Place
  <2> QED
    BY <1>3, <2>2, <2>3
<1>4. CASE m.type = "Key" /\ C!KeyEvent(c, m.key, m.down, FALSE)
  <2>1. CASE acting[c]
    <3>1. m.key \in Keys /\ m.down \in BOOLEAN /\ C!Press(c, m.key, m.down)
      BY <1>4, <2>1 DEF ToClient, C!KeyEvent, C!Deliverable
    <3>2. /\ held'[c] = IF m.down THEN held[c] \cup {m.key} ELSE held[c] \ {m.key}
          /\ down'[c] = IF m.down THEN down[c] \cup {m.key} ELSE down[c] \ {m.key}
      BY <3>1 DEF C!Press
    <3>3. Owed(c)'
      BY <1>4 DEF C!KeyEvent
    <3>4. ASSUME NEW k \in Keys
          PROVE  k \in down'[c] <=> m \in Presses(k) \/ (k \in down[c] /\ m \notin Lifts(k))
      <4>1. m \in Presses(k) <=> m.key = k /\ m.down
        BY <1>4
      <4>2. m \in Lifts(k) <=> m.key = k /\ ~m.down
        BY <1>4
      <4> QED
        BY <3>1, <3>2, <4>1, <4>2
    <3> QED
      BY <3>2, <3>3, <3>4
  <2>2. CASE ~acting[c]
    BY <1>4, <2>2 DEF C!KeyEvent, C!Deliverable
  <2> QED
    BY <2>1, <2>2
<1>5. CASE m.type = "ReleaseAll" /\ C!ReleaseAll(c)
  <2>1. held'[c] = {} /\ down'[c] = {}
    BY <1>5 DEF C!ReleaseAll, C!ReleaseHeld
  <2>2. Owed(c)'
    BY <1>5 DEF C!ReleaseAll
  <2> QED
    BY <1>5, <2>1, <2>2
<1> QED
  BY <1>1, <1>2, <1>3, <1>4, <1>5 DEF Heeds

\* A machine at which nothing happens, and whose link is not made anew.
LEMMA RecordStill ==
  ASSUME NEW c, Record(c), Owed(c), Same(c), link'[c] = "knocking" => link[c] = "knocking"
  PROVE  Record(c)' /\ Owed(c)'
BY DEF Record, Owed, Same

\* Where no session is cut short, the record is the truth and debts are paid.
LEMMA RecordStep ==
  ASSUME Reasons = {}, Endings = {}, Truth, Next
  PROVE  RecordIsTruth' /\ PointersOwed'
<1>1. /\ Maps /\ LinksTyped /\ C!TypeOK
      /\ \A c \in Clients : Standing(c) /\ Record(c) /\ Owed(c)
  BY StandingIs DEF Truth, Agreement, Maps, Typed, RecordIsTruth, PointersOwed, Record, Owed
<1> SUFFICES \A c \in Clients : Record(c)' /\ Owed(c)'
  BY DEF RecordIsTruth, PointersOwed, Record, Owed
<1>2. CASE \/ \E p \in Points : Move(p)
           \/ \E k \in Keys, d \in BOOLEAN : Type(k, d)
           \/ \E e \in Clients : Hear(e)
  <2>1. UNCHANGED <<clientVars, link>>
    BY <1>1, <1>2, TurnTaken
  <2> QED
    BY <1>1, <2>1, RecordStill DEF Same, clientVars
<1>3. ASSUME NEW e \in Clients, Connect(e) PROVE \A c \in Clients : Record(c)' /\ Owed(c)'
  <2>1. \A c \in Clients \ {e} : Same(c) /\ link'[c] = link[c]
    BY <1>1, <1>3, SessionTyped DEF Connect, LinksTyped
  <2>2. Record(e)' /\ Owed(e)'
    BY <1>1, <1>3, ParkingAssumption DEF Connect, C!Begin, C!TypeOK, Record, Owed
  <2> QED
    BY <1>1, <2>1, <2>2, RecordStill
<1>4. ASSUME NEW e \in Clients, \/ Write(e) \/ Cut(e)
                                \/ Arrived(e) \/ TakeIn(e) \/ Departed(e) \/ Gone(e)
      PROVE  \A c \in Clients : Record(c)' /\ Owed(c)'
  <2>1. UNCHANGED clientVars
    BY <1>4 DEF Write, Cut, Arrived, TakeIn, Departed, Gone
  <2>2. \A c \in Clients : link'[c] = "knocking" => link[c] = "knocking"
    BY <1>1, <1>4 DEF Write, Cut, Arrived, TakeIn, Departed, Gone, LinksTyped
  <2> QED
    BY <1>1, <2>1, <2>2, RecordStill DEF Same, clientVars
<1>5. ASSUME NEW e \in Clients, Receive(e) PROVE \A c \in Clients : Record(c)' /\ Owed(c)'
  <2>1. Head(wire[e]) \in ToClient /\ Heeds(e, Head(wire[e]))
    BY <1>1, <1>5, HeadHeeded
  <2>2. \A c \in Clients \ {e} : Same(c)
    BY <1>1, <2>1, HeedingTyped
  <2>3. link[e] # "knocking" /\ UNCHANGED link
    BY <1>1, <1>5 DEF Receive, Standing
  <2>4. session'[e]
    BY <1>1, <2>1, HeedingStands DEF Standing
  <2>5. Record(e)' /\ Owed(e)'
    BY <1>1, <2>1, <2>3, <2>4, HeedingHolds DEF Standing, Record
  <2> QED
    BY <1>1, <2>2, <2>3, <2>5, RecordStill
<1>6. ASSUME NEW e \in Clients, Disconnect(e) PROVE \A c \in Clients : Record(c)' /\ Owed(c)'
  <2>1. \A c \in Clients \ {e} : Same(c) /\ link'[c] = link[c]
    BY <1>1, <1>6, SessionTyped DEF Disconnect, LinksTyped
  <2>2. link'[e] = "cut"
    BY <1>1, <1>6 DEF Disconnect, LinksTyped
  <2>3. C!Disconnected(e) /\ screen[e] = "open"
    BY <1>1, <1>6 DEF Disconnect, Standing
  <2>4. down'[e] = {} /\ held'[e] = {}
    BY <1>1, <2>3 DEF C!Disconnected, C!ReleaseHeld, C!Lands, C!TypeOK, Record
  <2>5. Owed(e)'
    BY <1>1, <2>3, ParkingAssumption DEF C!Disconnected, C!ShowCursor, C!Lands, C!TypeOK, Owed
  <2> QED
    BY <1>1, <2>1, <2>2, <2>4, <2>5, RecordStill DEF Record
<1>7. \A e \in Clients : ~Crash(e)
  BY DEF Crash, C!Crash, C!Stop
<1> QED
  BY <1>2, <1>3, <1>4, <1>5, <1>6, <1>7, NothingInTheWay DEF Next, Truth

\* Of the keys: what joins a queue is heard where it is read.
LEMMA HeardThrough ==
  ASSUME Truth, C!TypeOK', NEW c \in Clients, keys' \subseteq Keys, Fate(c)
  PROVE  \A i \in 1 .. Len(Queue(c)') :
           Queue(c)'[i].type = "Key" => Acts(Queue(c)', i - 1, acting'[c])
<1> DEFINE q == Queue(c)
           r == Queue(c)'
<1>1. q \in Seq(ToClient) /\ acting[c] \in BOOLEAN /\ acting'[c] \in BOOLEAN
  BY QueueTyped DEF Truth, Agreement, Maps, Typed, C!TypeOK
<1>2. Linked(c) => /\ Acts(q, Len(q), acting[c]) <=> active = c
                   /\ \A i \in 1 .. Len(q) : q[i].type = "Key" => Acts(q, i - 1, acting[c])
  BY DEF Truth, Agreement, ActsAsSaid, KeysAreHeard
<1> HIDE DEF q, r
<1>3. ASSUME NEW m \in ToClient, r = Append(q, m), Linked(c), acting'[c] = acting[c],
             m.type = "Key" => active = c
      PROVE  \A i \in 1 .. Len(r) : r[i].type = "Key" => Acts(r, i - 1, acting'[c])
  <2> SUFFICES ASSUME NEW i \in 1 .. Len(r), r[i].type = "Key"
               PROVE  Acts(r, i - 1, acting[c])
    BY <1>3
  <2>1. Len(r) = Len(q) + 1 /\ r[Len(q) + 1] = m /\ \A j \in 1 .. Len(q) : r[j] = q[j]
    BY <1>1, <1>3
  <2>2. i - 1 \in 0 .. Len(q)
    BY <1>1, <2>1
  <2>3. Acts(r, i - 1, acting[c]) <=> Acts(q, i - 1, acting[c])
    <3> DEFINE n == i - 1
    <3>1. n \in 0 .. Len(q)
      BY <2>2
    <3> HIDE DEF n
    <3>2. After(Append(q, m), n, acting[c], Enters, Leaves) <=> After(q, n, acting[c], Enters, Leaves)
      BY <1>1, <3>1, AfterAppend, NothingDoesBoth
    <3> QED
      BY <1>3, <3>2, Zenon DEF Acts, n
  <2>4. CASE i = Len(q) + 1
    BY <1>1, <1>2, <1>3, <2>1, <2>3, <2>4
  <2>5. CASE i \in 1 .. Len(q)
    BY <1>2, <1>3, <2>1, <2>3, <2>5
  <2> QED
    BY <1>1, <2>1, <2>4, <2>5
<1>4. CASE Undisturbed(c)
  <2>1. acting'[c] = acting[c] /\ Linked(c)
    BY <1>4 DEF Undisturbed, Same
  <2>2. CASE r = q
    <3>1. \A i \in 1 .. Len(q) : q[i].type = "Key" => Acts(q, i - 1, acting[c])
      BY <1>2, <2>1
    <3>2. \A i \in 1 .. Len(r) : r[i].type = "Key" => Acts(r, i - 1, acting'[c])
      BY <2>1, <2>2, <3>1, Zenon
    <3> QED
      BY <3>2 DEF r
  <2>3. ASSUME NEW m \in Positions, r = Append(q, m)
        PROVE  \A i \in 1 .. Len(r) : r[i].type = "Key" => Acts(r, i - 1, acting'[c])
    <3>1. m \in ToClient /\ m.type # "Key"
      BY DEF Positions, ToClient
    <3> QED
      BY <1>3, <2>1, <2>3, <3>1
  <2> QED
    BY <1>4, <2>2, <2>3 DEF Undisturbed, q, r
<1>5. CASE Addressed(c)
  <2>1. acting'[c] = acting[c] /\ Linked(c) /\ r = Append(q, Said(c)) /\ SaysWhatItDoes(c)
        /\ Said(c) \notin Positions /\ Told(c)
    BY <1>5 DEF Addressed, Same, q, r
  <2>2. Said(c) \in ToClient /\ (Said(c).type = "Key" => active = c)
    BY <2>1 DEF SaysWhatItDoes, ToClient
  <2> QED
    BY <1>3, <2>1, <2>2, Zenon DEF r
<1>6. CASE Reading(c)
  <2> DEFINE m == Head(q)
  <2>1. Linked(c) /\ q # <<>> /\ r = Tail(q) /\ Heeds(c, m)
    BY <1>6 DEF Reading, q, r
  <2>2. m \in ToClient
    BY <1>1, <2>1
  <2>3. acting'[c] = (m \in Enters \/ (acting[c] /\ m \notin Leaves))
    BY <1>1, <2>1, <2>2, HeedingActs DEF Truth, Agreement
  <2>4. ASSUME NEW i \in 1 .. Len(r), r[i].type = "Key"
        PROVE  Acts(r, i - 1, acting'[c])
    <3>1. i + 1 \in 1 .. Len(q) /\ q[i + 1] = r[i] /\ i \in 1 .. Len(q) - 1 /\ (i + 1) - 1 = i
      BY <1>1, <2>1
    <3>2. Acts(q, i, acting[c])
      BY <1>2, <2>1, <2>4, <3>1
    <3> DEFINE n == i - 1
    <3>3. n \in 0 .. Len(q) - 1 /\ n + 1 = i
      BY <1>1, <3>1
    <3> HIDE DEF n, m
    <3>4. Acts(q, n + 1, acting[c]) <=> Acts(r, n, acting'[c])
      <4>1. After(q, n + 1, acting[c], Enters, Leaves)
              <=> After(Tail(q), n, m \in Enters \/ (acting[c] /\ m \notin Leaves), Enters, Leaves)
        BY <1>1, <2>1, <3>3, AfterTail, NothingDoesBoth DEF m
      <4> QED
        BY <2>1, <2>3, <4>1, Zenon DEF Acts
    <3> QED
      BY <3>2, <3>3, <3>4 DEF n
  <2> QED
    BY <2>4 DEF r
<1>7. CASE Joining(c)
  BY <1>7 DEF Joining, r
<1> QED
  BY <1>4, <1>5, <1>6, <1>7 DEF Fate, r

\* Of one key: it will be down where the cursor is, if the person holds it.
LEMMA HoldsThrough ==
  ASSUME Truth, Reasons = {}, C!TypeOK', NEW c \in Clients, keys' \subseteq Keys, Fate(c),
         NEW k \in Keys
  PROVE  Holds(Queue(c)', Len(Queue(c)'), k \in down'[c], k) <=> active' = c /\ k \in keys'
<1> DEFINE q == Queue(c)
           r == Queue(c)'
           was == k \in down[c]
           is == k \in down'[c]
<1>1. q \in Seq(ToClient) /\ was \in BOOLEAN /\ is \in BOOLEAN
  BY QueueTyped DEF Truth, Agreement, Maps, Typed
<1>2. Linked(c) => (Holds(q, Len(q), was, k) <=> active = c /\ k \in keys)
  BY DEF Truth, HoldsAsSaid
<1> SUFFICES Holds(r, Len(r), is, k) <=> active' = c /\ k \in keys'
  OBVIOUS
<1> HIDE DEF q, r
<1>3. ASSUME NEW m \in ToClient, r = Append(q, m), Linked(c), is = was
      PROVE  Holds(r, Len(r), is, k)
               <=> m \in Presses(k) \/ (m \notin Lifts(k) /\ active = c /\ k \in keys)
  <2> HIDE DEF was, is
  <2>1. Holds(r, Len(r), was, k) <=> m \in Presses(k) \/ (m \notin Lifts(k) /\ Holds(q, Len(q), was, k))
    BY <1>1, <1>3, ComesToAppend, NothingDoesBoth DEF Holds
  <2> QED
    BY <1>2, <1>3, <2>1, Zenon
<1>4. CASE Undisturbed(c)
  <2>1. is = was /\ Linked(c) /\ (active' = c /\ k \in keys' <=> active = c /\ k \in keys)
    BY <1>4 DEF Undisturbed, Same
  <2> HIDE DEF was, is
  <2>2. CASE r = q
    BY <1>2, <2>1, <2>2, Zenon
  <2>3. ASSUME NEW m \in Positions, r = Append(q, m)
        PROVE  Holds(r, Len(r), is, k) <=> active' = c /\ k \in keys'
    <3>1. m \in ToClient /\ m \notin Presses(k) /\ m \notin Lifts(k)
      BY DEF Positions, ToClient, Presses, Lifts
    <3> QED
      BY <1>3, <2>1, <2>3, <3>1, Zenon
  <2> QED
    BY <1>4, <2>2, <2>3 DEF Undisturbed, q, r
<1>5. CASE Addressed(c)
  <2> DEFINE m == Said(c)
  <2>1. is = was /\ Linked(c) /\ r = Append(q, m) /\ SaysWhatItDoes(c) /\ m \notin Positions /\ Told(c)
    BY <1>5 DEF Addressed, Same, q, r
  <2>2. m \in ToClient
    BY <2>1 DEF SaysWhatItDoes, ToClient
  <2>3. active' = c /\ k \in keys' <=> m \in Presses(k) \/ (m \notin Lifts(k) /\ active = c /\ k \in keys)
    <3>1. CASE active' = c /\ \E p \in Points : m = [type |-> "Enter", at |-> p, keys |-> keys']
      BY <2>2, <3>1 DEF Presses, Lifts
    <3>2. CASE active' # c /\ m = [type |-> "Leave"]
      BY <2>2, <3>2 DEF Presses, Lifts
    <3>3. ASSUME active = c, active' = c, NEW k2 \in Keys, NEW d \in BOOLEAN,
                 m = [type |-> "Key", key |-> k2, down |-> d],
                 keys' = IF d THEN keys \cup {k2} ELSE keys \ {k2}
          PROVE  active' = c /\ k \in keys'
                   <=> m \in Presses(k) \/ (m \notin Lifts(k) /\ active = c /\ k \in keys)
      <4>1. m \in Presses(k) <=> k2 = k /\ d
        BY <2>2, <3>3 DEF Presses
      <4>2. m \in Lifts(k) <=> k2 = k /\ ~d
        BY <2>2, <3>3 DEF Lifts
      <4> HIDE DEF m
      <4> QED
        BY <3>3, <4>1, <4>2
    <3> QED
      BY <2>1, <3>1, <3>2, <3>3 DEF SaysWhatItDoes
  <2> HIDE DEF m, was, is
  <2> QED
    BY <1>3, <2>1, <2>2, <2>3, Zenon
<1>6. CASE Reading(c)
  <2> DEFINE m == Head(q)
  <2>1. Linked(c) /\ q # <<>> /\ r = Tail(q) /\ Heeds(c, m) /\ UNCHANGED <<active, keys>>
    BY <1>6 DEF Reading, q, r
  <2>2. m \in ToClient /\ m = q[1] /\ 1 \in 1 .. Len(q)
    BY <1>1, <2>1
  <2>3. m.type = "Key" => acting[c]
    <3>1. m.type = "Key" => Acts(q, 0, acting[c])
      BY <2>1, <2>2 DEF Truth, KeysAreHeard, q
    <3> QED
      BY <3>1, AfterNothing DEF Acts, Truth, Agreement, C!TypeOK
  <2>4. is = (m \in Presses(k) \/ (was /\ m \notin Lifts(k)))
    <3>1. /\ C!TypeOK /\ screen[c] = "open" /\ suspended[c] = None /\ down[c] = held[c] /\ Owed(c)
      BY DEF Truth, Agreement, InputLands, RecordIsTruth, PointersOwed, Owed
    <3> QED
      BY <2>1, <2>2, <2>3, <3>1, HeedingHolds
  <2> HIDE DEF m, was, is
  <2>5. Holds(q, Len(q), was, k)
          <=> Holds(Tail(q), Len(Tail(q)), m \in Presses(k) \/ (was /\ m \notin Lifts(k)), k)
    BY <1>1, <2>1, ComesToTail, NothingDoesBoth DEF Holds, m
  <2> QED
    BY <1>2, <2>1, <2>4, <2>5, Zenon
<1>7. CASE Joining(c)
  <2>1. r = <<[type |-> "ReleaseAll"]>> /\ active' # c
    BY <1>7 DEF Joining, r
  <2>2. [type |-> "ReleaseAll"] \notin Presses(k) /\ [type |-> "ReleaseAll"] \in Lifts(k)
    BY DEF Presses, Lifts, ToClient
  <2> QED
    BY <2>1, <2>2 DEF Holds, After
<1> QED
  BY <1>4, <1>5, <1>6, <1>7 DEF Fate

\* Nothing is held and no pointer is owed at the start,
LEMMA TruthInit == Init => Truth
<1> SUFFICES ASSUME Init PROVE Truth
  OBVIOUS
<1>1. RecordIsTruth
  BY DEF Init, C!Init, RecordIsTruth
<1>2. PointersOwed
  BY ParkingAssumption DEF Init, C!Init, PointersOwed
<1>3. KeysAreHeard /\ HoldsAsSaid
  BY DEF Init, KeysAreHeard, HoldsAsSaid, Linked
<1> QED
  BY <1>1, <1>2, <1>3, AgreementInit DEF Truth

\* and the record stays true after every step.
LEMMA TruthStep ==
  ASSUME Reasons = {}, Endings = {}, Truth, [Next]_vars
  PROVE  Truth'
<1>1. Agreement'
  BY AgreementStep DEF Truth
<1>2. CASE UNCHANGED vars
  <2> USE <1>2 DEF vars, clientVars, linkVars, serverVars, Truth
  <2>1. RecordIsTruth' /\ PointersOwed'
    BY DEF RecordIsTruth, PointersOwed
  <2>2. KeysAreHeard'
    BY DEF KeysAreHeard, Linked, Queue, Acts, After
  <2>3. HoldsAsSaid'
    BY DEF HoldsAsSaid, Linked, Queue, Holds, After
  <2> QED
    BY <1>1, <2>1, <2>2, <2>3
<1>3. CASE Next
  <2>1. RecordIsTruth' /\ PointersOwed'
    BY <1>3, RecordStep
  <2>2. Agreement /\ C!TypeOK' /\ keys' \subseteq Keys
    BY <1>1 DEF Truth, Agreement, Maps, Typed, ServerTyped
  <2>3. \A c \in Clients : Linked(c)' => Fate(c)
    BY <1>3, <2>2, EveryFate
  <2>4. KeysAreHeard'
    BY <2>2, <2>3, HeardThrough DEF KeysAreHeard, Acts, After
  <2>5. HoldsAsSaid'
    BY <2>2, <2>3, HoldsThrough DEF HoldsAsSaid, Holds, After
  <2> QED
    BY <1>1, <2>1, <2>4, <2>5 DEF Truth
<1> QED
  BY <1>2, <1>3

\* Where nothing keeps input from a screen and no session is cut short, what is
\* down on a machine that has been told everything is what the person holds if
\* the cursor is there, and nothing if it is not: whatever was typed while the
\* cursor was on its way, and however links ended, for queues of any length.
THEOREM NothingEverSticks ==
  ASSUME Reasons = {}, Endings = {}
  PROVE  Spec => []NothingSticks
<1>1. Truth => NothingSticks
  <2> SUFFICES ASSUME Truth, NEW c \in Clients, Settled(c)
               PROVE  down[c] = IF active = c THEN keys ELSE {}
    BY DEF NothingSticks
  <2>1. CASE session[c]
    <3>1. Linked(c) /\ wire[c] = <<>> /\ control[c] = <<>>
      BY <2>1 DEF Settled, Linked
    <3>2. Queue(c) = <<>>
      BY <3>1 DEF Queue
    <3>3. \A k \in Keys : k \in down[c] <=> active = c /\ k \in keys
      BY <3>1, <3>2 DEF Truth, HoldsAsSaid, Holds, After
    <3>4. down[c] \subseteq Keys /\ keys \subseteq Keys
      BY DEF Truth, Agreement, Maps, Typed, ServerTyped, C!TypeOK
    <3> QED
      BY <3>3, <3>4
  <2>2. CASE ~session[c]
    BY <2>2, DeskAssumption
       DEF Settled, Idle, Truth, Agreement, RecordIsTruth, Maps, MapsFollow
  <2> QED
    BY <2>1, <2>2
<1> QED
  BY <1>1, TruthInit, TruthStep, PTL DEF Spec

\* There, a machine without a session has its own pointer back out of the
\* corner, however the session ended and whatever was queued for it.
THEOREM PointerAlwaysGivenBack ==
  ASSUME Reasons = {}, Endings = {}
  PROVE  Spec => []PointerIsGivenBack
<1>1. Truth => PointerIsGivenBack
  BY DEF Truth, PointersOwed, PointerIsGivenBack
<1> QED
  BY <1>1, TruthInit, TruthStep, PTL DEF Spec
=============================================================================
