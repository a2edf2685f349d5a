---------------------------- MODULE Client_proof ----------------------------
(***************************************************************************)
(* Proofs about Client, for any machines, keys and places: its types, and  *)
(* that the record of what is held comes apart from the truth in four ways *)
(* and no other, and the debt of a parked pointer never while input lands. *)
(* A session that begins forgets both, so a machine without a session must *)
(* have nothing on record and owe nothing (Rested); a debt that is paid    *)
(* may leave the pointer in the corner only if it was there (CornerDebt).  *)
(*                                                                         *)
(* And about Drag, for any machines, drags and queues: that what is        *)
(* dragged stays under the hand.  See DragInv below.                       *)
(***************************************************************************)
EXTENDS Client, Carrying, FiniteSets, TLAPS

-----------------------------------------------------------------------------
(* Types.                                                                  *)

\* Bringing what is pressed into agreement with the server keeps types.
LEMMA SyncTyped ==
  ASSUME TypeOK, NEW c \in Clients, NEW ks \in SUBSET Keys, Sync(c, ks)
  PROVE  held' \in [Clients -> SUBSET Keys] /\ down' \in [Clients -> SUBSET Keys]
BY DEF TypeOK, Sync

\* So does letting go of everything.
LEMMA ReleaseTyped ==
  ASSUME TypeOK, NEW c \in Clients, ReleaseHeld(c)
  PROVE  held' \in [Clients -> SUBSET Keys] /\ down' \in [Clients -> SUBSET Keys]
BY DEF TypeOK, ReleaseHeld

\* So do one press and one release.
LEMMA PressTyped ==
  ASSUME TypeOK, NEW c \in Clients, NEW k \in Keys, NEW d \in BOOLEAN,
         Press(c, k, d) \/ Repress(c, k)
  PROVE  held' \in [Clients -> SUBSET Keys] /\ down' \in [Clients -> SUBSET Keys]
BY DEF TypeOK, Press, Repress

\* So does the pointer, wherever it is put, parked and brought back.
LEMMA PointerTyped ==
  ASSUME TypeOK, NEW c \in Clients,
         \/ \E p \in Points : Place(c, p)
         \/ HideCursor(c)
         \/ ShowCursor(c)
  PROVE  /\ at' \in [Clients -> Points \cup {Corner}]
         /\ owes' \in [Clients -> Points \cup {Corner, None}]
<1>1. CASE \E p \in Points : Place(c, p)
  BY <1>1 DEF TypeOK, Place
<1>2. CASE HideCursor(c)
  BY <1>2 DEF TypeOK, HideCursor
<1>3. CASE ShowCursor(c)
  BY <1>3 DEF TypeOK, ShowCursor
<1> QED
  BY <1>1, <1>2, <1>3

\* A machine starts with its types in order.
LEMMA InitTyped == Init => TypeOK
BY DEF Init, TypeOK

\* The steps of a session.
LEMMA MessageTyped ==
  ASSUME TypeOK, NEW c \in Clients,
         \/ Leave(c) \/ Wheel(c) \/ ReleaseAll(c)
         \/ \E p \in Points : MoveTo(c, p) \/ \E ks \in SUBSET Keys : Enter(c, p, ks)
         \/ \E ks \in SUBSET Keys : SyncKeys(c, ks)
         \/ \E k \in Keys, d, repeat \in BOOLEAN : KeyEvent(c, k, d, repeat)
  PROVE  TypeOK'
<1>1. CASE Leave(c)
  BY <1>1, ReleaseTyped, PointerTyped DEF TypeOK, Leave
<1>2. CASE Wheel(c)
  <2>1. (Deliverable(c) /\ Refuses(c)) \in BOOLEAN
    OBVIOUS
  <2> QED
    BY <1>2, <2>1 DEF TypeOK, Wheel
<1>3. CASE ReleaseAll(c)
  BY <1>3, ReleaseTyped DEF TypeOK, ReleaseAll
<1>4. ASSUME NEW p \in Points, MoveTo(c, p) PROVE TypeOK'
  BY <1>4, PointerTyped DEF TypeOK, MoveTo, Refuses
<1>5. ASSUME NEW p \in Points, NEW ks \in SUBSET Keys, Enter(c, p, ks) PROVE TypeOK'
  <2>1. held' \in [Clients -> SUBSET Keys] /\ down' \in [Clients -> SUBSET Keys]
    BY <1>5, SyncTyped DEF Enter
  <2> QED
    BY <1>5, <2>1 DEF TypeOK, Enter, Refuses
<1>6. ASSUME NEW ks \in SUBSET Keys, SyncKeys(c, ks) PROVE TypeOK'
  BY <1>6, SyncTyped DEF TypeOK, SyncKeys
<1>7. ASSUME NEW k \in Keys, NEW d \in BOOLEAN, NEW repeat \in BOOLEAN,
             KeyEvent(c, k, d, repeat)
      PROVE  TypeOK'
  <2>1. held' \in [Clients -> SUBSET Keys] /\ down' \in [Clients -> SUBSET Keys]
    BY <1>7, PressTyped DEF TypeOK, KeyEvent
  <2>2. refused' \in [Clients -> BOOLEAN]
    BY <1>7 DEF TypeOK, KeyEvent, Refuses
  <2> QED
    BY <1>7, <2>1, <2>2 DEF TypeOK, KeyEvent
<1> QED
  BY <1>1, <1>2, <1>3, <1>4, <1>5, <1>6, <1>7

\* The beginning and end of a session, and the look at what is in the way.
LEMMA SessionTyped ==
  ASSUME TypeOK, NEW c \in Clients,
         \/ Begin(c) \/ Disconnected(c) \/ Crash(c) \/ Stop(c)
         \/ Suspend(c) \/ Resume(c) \/ Shrug(c)
         \/ \E s \in Reasons \cup {"open"} : Screen(c, s)
  PROVE  TypeOK'
<1>1. CASE Begin(c)
  BY <1>1 DEF TypeOK, Begin
<1>2. CASE Disconnected(c)
  BY <1>2, ReleaseTyped, PointerTyped DEF TypeOK, Disconnected
<1>3. CASE Crash(c) \/ Stop(c)
  BY <1>3 DEF TypeOK, Crash, Stop, CutShort
<1>4. CASE Suspend(c)
  BY <1>4, ReleaseTyped DEF TypeOK, Suspend
<1>5. CASE Resume(c)
  BY <1>5 DEF TypeOK, Resume
<1>6. CASE Shrug(c)
  BY <1>6 DEF TypeOK, Shrug
<1>7. ASSUME NEW s \in Reasons \cup {"open"}, Screen(c, s) PROVE TypeOK'
  BY <1>7 DEF TypeOK, Screen
<1> QED
  BY <1>1, <1>2, <1>3, <1>4, <1>5, <1>6, <1>7

\* Every step keeps the types.
LEMMA StepTyped == TypeOK /\ [Next]_vars => TypeOK'
<1> SUFFICES ASSUME TypeOK, [Next]_vars PROVE TypeOK'
  OBVIOUS
<1>1. CASE UNCHANGED vars
  BY <1>1 DEF vars, TypeOK
<1>2. CASE Next
  BY <1>2, MessageTyped, SessionTyped DEF Next
<1> QED
  BY <1>1, <1>2

\* Every variable keeps its type, for any machines, keys and places.
THEOREM TypeCorrect == Spec => []TypeOK
BY InitTyped, StepTyped, PTL DEF Spec
-----------------------------------------------------------------------------
(* The record and the debt.                                                *)

Rested(c)     == ~session[c] => held[c] = {} /\ owes[c] = None
CornerDebt(c) == owes[c] = Corner => at[c] = Corner

IInv == TypeOK /\ \A c \in Clients : Rested(c) /\ CornerDebt(c)

\* What a step may do to the record and to the debt.
RecordKept(c) ==
  /\ \A k \in Slipping(c) : MaySlip(c, k)
  /\ Feigned(c) # {} => screen[c] = "SecureDesktop"
DebtKept(c) ==
  at'[c] = Corner /\ owes'[c] \in {None, Corner}
    => at[c] = Corner /\ owes[c] \in {None, Corner}

\* A step of machine c, as Next has it.
Step(c) ==
  \/ Begin(c) \/ Leave(c) \/ Wheel(c) \/ ReleaseAll(c)
  \/ Disconnected(c) \/ Crash(c) \/ Stop(c)
  \/ Suspend(c) \/ Resume(c) \/ Shrug(c)
  \/ \E p \in Points : MoveTo(c, p) \/ \E ks \in SUBSET Keys : Enter(c, p, ks)
  \/ \E ks \in SUBSET Keys : SyncKeys(c, ks)
  \/ \E k \in Keys, d, repeat \in BOOLEAN : KeyEvent(c, k, d, repeat)
  \/ \E s \in Reasons \cup {"open"} : Screen(c, s)

\* What one machine does touches no other.
Untouched(e) ==
  /\ session'[e] = session[e] /\ held'[e] = held[e] /\ down'[e] = down[e]
  /\ at'[e] = at[e] /\ owes'[e] = owes[e]

\* What a step does to the record of machine c: it changes it by one of the
\* injector's operations, or not at all.
Injects(c) ==
  \/ \E ks \in SUBSET Keys : Sync(c, ks)
  \/ \E k \in Keys, d \in BOOLEAN : Press(c, k, d)
  \/ \E k \in Keys : Repress(c, k) /\ KeyEvent(c, k, TRUE, TRUE)
  \/ ReleaseHeld(c) /\ DropsAll(c)
  \/ UNCHANGED <<held, down>>

\* Input lands, is refused or goes nowhere.
LEMMA ThreeScreens ==
  ASSUME TypeOK, NEW c \in Clients
  PROVE  Lands(c) \/ Refuses(c) \/ screen[c] = "SecureDesktop"
BY ReasonAssumption DEF TypeOK, Lands, Refuses

\* Each of the operations keeps the record beside the machine, but for what may
\* slip, and touches no other machine.
LEMMA InjectionKept ==
  ASSUME TypeOK, NEW c \in Clients, Injects(c)
  PROVE  /\ RecordKept(c)
         /\ \A e \in Clients \ {c} : held'[e] = held[e] /\ down'[e] = down[e]
<1>0. ~(Lands(c) /\ Refuses(c))
  BY DEF Lands, Refuses
<1>1. ASSUME NEW ks \in SUBSET Keys, Sync(c, ks)
      PROVE  /\ RecordKept(c)
             /\ \A e \in Clients \ {c} : held'[e] = held[e] /\ down'[e] = down[e]
  <2>1. \A e \in Clients \ {c} : held'[e] = held[e] /\ down'[e] = down[e]
    BY <1>1 DEF TypeOK, Sync
  <2>2. CASE Refuses(c)
    BY <1>0, <1>1, <2>1, <2>2 DEF Sync, RecordKept, Slipping, Feigned
  <2>3. CASE Lands(c)
    <3>1. /\ held'[c] = ks
          /\ down'[c] = (down[c] \ (held[c] \ ks)) \cup (ks \ held[c])
      BY <1>0, <1>1, <2>3 DEF TypeOK, Sync
    <3> QED
      BY <2>1, <3>1 DEF RecordKept, Slipping, Feigned
  <2>4. CASE ~Lands(c) /\ ~Refuses(c)
    <3>1. held'[c] = ks /\ down'[c] = down[c] /\ screen[c] = "SecureDesktop"
      BY <1>1, <2>4, ThreeScreens DEF TypeOK, Sync
    <3> QED
      BY <2>1, <3>1 DEF RecordKept, Slipping, Feigned, MaySlip
  <2> QED
    BY <2>2, <2>3, <2>4
<1>2. ASSUME NEW k \in Keys, NEW d \in BOOLEAN, Press(c, k, d)
      PROVE  /\ RecordKept(c)
             /\ \A e \in Clients \ {c} : held'[e] = held[e] /\ down'[e] = down[e]
  <2>1. \A e \in Clients \ {c} : held'[e] = held[e] /\ down'[e] = down[e]
    BY <1>2 DEF TypeOK, Press
  <2>2. CASE Refuses(c)
    BY <1>0, <1>2, <2>1, <2>2 DEF Press, RecordKept, Slipping, Feigned
  <2>3. CASE Lands(c)
    <3>1. /\ held'[c] = IF d THEN held[c] \cup {k} ELSE held[c] \ {k}
          /\ down'[c] = IF d THEN down[c] \cup {k} ELSE down[c] \ {k}
      BY <1>0, <1>2, <2>3 DEF TypeOK, Press
    <3> QED
      BY <2>1, <3>1 DEF RecordKept, Slipping, Feigned
  <2>4. CASE ~Lands(c) /\ ~Refuses(c)
    <3>1. /\ held'[c] = IF d THEN held[c] \cup {k} ELSE held[c] \ {k}
          /\ down'[c] = down[c] /\ screen[c] = "SecureDesktop"
      BY <1>2, <2>4, ThreeScreens DEF TypeOK, Press
    <3> QED
      BY <2>1, <3>1 DEF RecordKept, Slipping, Feigned, MaySlip
  <2> QED
    BY <2>2, <2>3, <2>4
<1>3. ASSUME NEW k \in Keys, Repress(c, k), KeyEvent(c, k, TRUE, TRUE)
      PROVE  /\ RecordKept(c)
             /\ \A e \in Clients \ {c} : held'[e] = held[e] /\ down'[e] = down[e]
  <2>1. /\ \A e \in Clients \ {c} : held'[e] = held[e] /\ down'[e] = down[e]
        /\ held' = held /\ down[c] \subseteq down'[c] /\ down'[c] \subseteq down[c] \cup {k}
    BY <1>3 DEF TypeOK, Repress
  <2>2. Slipping(c) \subseteq {k} /\ Feigned(c) = {}
    BY <2>1 DEF Slipping, Feigned
  <2> QED
    BY <1>3, <2>1, <2>2 DEF RecordKept, MaySlip
<1>4. CASE ReleaseHeld(c) /\ DropsAll(c)
  <2>1. /\ \A e \in Clients \ {c} : held'[e] = held[e] /\ down'[e] = down[e]
        /\ held'[c] = {}
        /\ down'[c] = IF Lands(c) THEN down[c] \ held[c] ELSE down[c]
    BY <1>4 DEF TypeOK, ReleaseHeld
  <2>2. Slipping(c) \subseteq held[c] /\ Feigned(c) = {} /\ (Lands(c) => Slipping(c) = {})
    BY <2>1 DEF Slipping, Feigned
  <2> QED
    BY <1>4, <2>1, <2>2, ThreeScreens DEF RecordKept, MaySlip
<1>5. CASE UNCHANGED <<held, down>>
  BY <1>5 DEF RecordKept, Slipping, Feigned
<1> QED
  BY <1>1, <1>2, <1>3, <1>4, <1>5 DEF Injects

\* Placing, parking and showing the pointer keep the debt, and touch no other.
LEMMA PointerKept ==
  ASSUME IInv, NEW c \in Clients,
         \/ \E p \in Points : Place(c, p)
         \/ HideCursor(c)
         \/ ShowCursor(c)
         \/ UNCHANGED <<at, owes>>
  PROVE  /\ screen[c] = "open" => DebtKept(c)
         /\ CornerDebt(c)'
         /\ \A e \in Clients \ {c} : at'[e] = at[e] /\ owes'[e] = owes[e]
<1>0. TypeOK /\ CornerDebt(c) /\ Corner \notin Points /\ None # Corner /\ None \notin Points
  BY CornerAssumption, NonePointAssumption DEF IInv
<1>1. ASSUME NEW p \in Points, Place(c, p)
      PROVE  /\ screen[c] = "open" => DebtKept(c)
             /\ CornerDebt(c)'
             /\ \A e \in Clients \ {c} : at'[e] = at[e] /\ owes'[e] = owes[e]
  BY <1>0, <1>1 DEF TypeOK, Place, Lands, Refuses, DebtKept, CornerDebt
<1>2. CASE HideCursor(c)
  BY <1>0, <1>2 DEF TypeOK, HideCursor, Lands, Refuses, DebtKept, CornerDebt
<1>3. CASE ShowCursor(c)
  BY <1>0, <1>3 DEF TypeOK, ShowCursor, Lands, DebtKept, CornerDebt
<1>4. CASE UNCHANGED <<at, owes>>
  BY <1>0, <1>4 DEF DebtKept, CornerDebt
<1> QED
  BY <1>1, <1>2, <1>3, <1>4

\* What a step of machine c comes to: it keeps what it must, and leaves the
\* other machines alone.
StepKeeps(c) ==
  /\ Rested(c)' /\ CornerDebt(c)'
  /\ RecordKept(c)
  /\ screen[c] = "open" /\ ~CutShort(c) => DebtKept(c)
  /\ \A e \in Clients \ {c} : Untouched(e)

\* A message changes the record and the pointer by the injector's operations
\* and comes only while there is a session.
LEMMA MessageKeeps ==
  ASSUME IInv, NEW c \in Clients,
         session[c], UNCHANGED session, Injects(c),
         \/ \E p \in Points : Place(c, p)
         \/ HideCursor(c)
         \/ ShowCursor(c)
         \/ UNCHANGED <<at, owes>>
  PROVE  StepKeeps(c)
<1>1. TypeOK
  BY DEF IInv
<1>2. /\ RecordKept(c)
      /\ \A e \in Clients \ {c} : held'[e] = held[e] /\ down'[e] = down[e]
  BY <1>1, InjectionKept
<1>3. /\ screen[c] = "open" => DebtKept(c)
      /\ CornerDebt(c)'
      /\ \A e \in Clients \ {c} : at'[e] = at[e] /\ owes'[e] = owes[e]
  BY PointerKept
<1>4. Rested(c)'
  BY DEF Rested
<1> QED
  BY <1>2, <1>3, <1>4 DEF StepKeeps, Untouched

\* Enter puts the pointer where the server says, which settles the debt even
\* if the platform refused it, and then brings what is held into agreement.
LEMMA EnterKeeps ==
  ASSUME IInv, NEW c \in Clients, NEW p \in Points, NEW ks \in SUBSET Keys,
         Enter(c, p, ks)
  PROVE  StepKeeps(c)
<1>1. TypeOK /\ Corner \notin Points /\ None # Corner
  BY CornerAssumption, NonePointAssumption DEF IInv
<1>2. /\ RecordKept(c)
      /\ \A e \in Clients \ {c} : held'[e] = held[e] /\ down'[e] = down[e]
  BY <1>1, InjectionKept DEF Enter, Injects
<1>3. /\ owes'[c] = None
      /\ screen[c] = "open" => at'[c] # Corner
      /\ \A e \in Clients \ {c} : at'[e] = at[e] /\ owes'[e] = owes[e]
  BY <1>1 DEF Enter, Lands, TypeOK
<1>4. session[c] /\ session' = session
  BY DEF Enter, Ready
<1> QED
  BY <1>1, <1>2, <1>3, <1>4 DEF StepKeeps, Untouched, Rested, CornerDebt, DebtKept

\* A session begins with nothing on record and nothing owed, as it was before.
LEMMA BeginKeeps ==
  ASSUME IInv, NEW c \in Clients, Begin(c)
  PROVE  StepKeeps(c)
<1>1. TypeOK /\ Rested(c) /\ CornerDebt(c) /\ None # Corner
  BY NonePointAssumption DEF IInv
<1>2. /\ held[c] = {} /\ owes[c] = None
      /\ session'[c] /\ held'[c] = {} /\ owes'[c] = None
      /\ down' = down /\ at' = at
      /\ \A e \in Clients \ {c} :
           session'[e] = session[e] /\ held'[e] = held[e] /\ owes'[e] = owes[e]
  BY <1>1 DEF Begin, Rested, TypeOK
<1> QED
  BY <1>1, <1>2 DEF StepKeeps, Untouched, Rested, CornerDebt, DebtKept, RecordKept, Slipping,
                    Feigned

\* A session that ends by itself lets go of everything and pays its debt.
LEMMA DisconnectedKeeps ==
  ASSUME IInv, NEW c \in Clients, Disconnected(c)
  PROVE  StepKeeps(c)
<1>1. TypeOK
  BY DEF IInv
<1>2. /\ RecordKept(c)
      /\ \A e \in Clients \ {c} : held'[e] = held[e] /\ down'[e] = down[e]
  BY <1>1, InjectionKept DEF Disconnected, Injects, DropsAll
<1>3. /\ screen[c] = "open" => DebtKept(c)
      /\ CornerDebt(c)'
      /\ \A e \in Clients \ {c} : at'[e] = at[e] /\ owes'[e] = owes[e]
  BY PointerKept DEF Disconnected
<1>4. /\ held'[c] = {} /\ owes'[c] = None
      /\ \A e \in Clients \ {c} : session'[e] = session[e]
  BY <1>1 DEF Disconnected, ReleaseHeld, ShowCursor, TypeOK
<1> QED
  BY <1>2, <1>3, <1>4 DEF StepKeeps, Untouched, Rested

\* A session that is cut short loses the record and the debt together.
LEMMA CutShortKeeps ==
  ASSUME IInv, NEW c \in Clients, CutShort(c)
  PROVE  StepKeeps(c)
<1>1. TypeOK /\ None # Corner
  BY NonePointAssumption DEF IInv
<1>2. /\ held'[c] = {} /\ owes'[c] = None /\ down' = down /\ at' = at
      /\ \A e \in Clients \ {c} :
           session'[e] = session[e] /\ held'[e] = held[e] /\ owes'[e] = owes[e]
  BY <1>1 DEF CutShort, TypeOK
<1>3. RecordKept(c)
  BY <1>2 DEF RecordKept, Slipping, Feigned, MaySlip
<1> QED
  BY <1>1, <1>2, <1>3 DEF StepKeeps, Untouched, Rested, CornerDebt

\* Whatever a machine's screen does, nothing here changes.
LEMMA ScreenKeeps ==
  ASSUME IInv, NEW c \in Clients, NEW s, Screen(c, s)
  PROVE  StepKeeps(c)
<1>1. Rested(c) /\ CornerDebt(c)
  BY DEF IInv
<1> QED
  BY <1>1 DEF StepKeeps, Untouched, Rested, CornerDebt, RecordKept, Slipping, Feigned,
              DebtKept, Screen

-----------------------------------------------------------------------------
(* Every step.                                                             *)

\* Each action of Next comes to one of the lemmas above.
LEMMA StepOfOne ==
  ASSUME IInv, NEW c \in Clients, Step(c)
  PROVE  StepKeeps(c)
<1>1. CASE Leave(c)
  BY <1>1, MessageKeeps DEF Leave, Ready, Injects, DropsAll
<1>2. CASE Wheel(c)
  BY <1>2, MessageKeeps DEF Wheel, Ready, Injects
<1>3. CASE ReleaseAll(c)
  BY <1>3, MessageKeeps DEF ReleaseAll, Ready, Injects, DropsAll
<1>4. CASE Suspend(c)
  BY <1>4, MessageKeeps DEF Suspend, Injects, DropsAll
<1>5. CASE Resume(c)
  BY <1>5, MessageKeeps DEF Resume, Injects
<1>6. CASE Shrug(c)
  BY <1>6, MessageKeeps DEF Shrug, Injects
<1>7. ASSUME NEW p \in Points, MoveTo(c, p) PROVE StepKeeps(c)
  BY <1>7, MessageKeeps DEF MoveTo, Ready, Injects
<1>8. ASSUME NEW ks \in SUBSET Keys, SyncKeys(c, ks) PROVE StepKeeps(c)
  BY <1>8, MessageKeeps DEF SyncKeys, Ready, Injects
<1>9. ASSUME NEW k \in Keys, NEW d \in BOOLEAN, NEW repeat \in BOOLEAN,
             KeyEvent(c, k, d, repeat)
      PROVE  StepKeeps(c)
  <2>1. Injects(c)
    <3>1. CASE repeat /\ d
      BY <1>9, <3>1 DEF KeyEvent, Injects
    <3>2. CASE ~(repeat /\ d)
      BY <1>9, <3>2 DEF KeyEvent, Injects
    <3> QED
      BY <3>1, <3>2
  <2> QED
    BY <1>9, <2>1, MessageKeeps DEF KeyEvent, Ready
<1>10. CASE Crash(c) \/ Stop(c)
  BY <1>10, CutShortKeeps DEF Crash, Stop
<1> QED
  BY <1>1, <1>2, <1>3, <1>4, <1>5, <1>6, <1>7, <1>8, <1>9, <1>10,
     BeginKeeps, DisconnectedKeeps, EnterKeeps, ScreenKeeps DEF Step

\* Every step keeps the invariant.
LEMMA StepInv == IInv /\ [Next]_vars => IInv'
<1> SUFFICES ASSUME IInv, [Next]_vars PROVE IInv'
  OBVIOUS
<1>1. TypeOK'
  BY StepTyped DEF IInv
<1>2. CASE UNCHANGED vars
  BY <1>1, <1>2 DEF vars, IInv, Rested, CornerDebt
<1>3. CASE Next
  <2>1. PICK c \in Clients : Step(c)
    BY <1>3 DEF Next, Step
  <2>2. StepKeeps(c)
    BY <2>1, StepOfOne
  <2>3. ASSUME NEW e \in Clients PROVE Rested(e)' /\ CornerDebt(e)'
    BY <2>2 DEF StepKeeps, Untouched, IInv, Rested, CornerDebt
  <2> QED
    BY <1>1, <2>3 DEF IInv
<1> QED
  BY <1>2, <1>3

\* What a step does to a machine, whichever it is a step of.
LEMMA StepShows ==
  ASSUME IInv, [Next]_vars, NEW e \in Clients
  PROVE  RecordKept(e) /\ (screen[e] = "open" /\ ~CutShort(e) => DebtKept(e))
<1>1. CASE UNCHANGED vars
  BY <1>1 DEF vars, RecordKept, Slipping, Feigned, DebtKept
<1>2. CASE Next
  <2>1. PICK c \in Clients : Step(c)
    BY <1>2 DEF Next, Step
  <2>2. StepKeeps(c)
    BY <2>1, StepOfOne
  <2>3. CASE e = c
    BY <2>2, <2>3 DEF StepKeeps
  <2>4. CASE e # c
    BY <2>2, <2>4 DEF StepKeeps, Untouched, RecordKept, Slipping, Feigned, DebtKept
  <2> QED
    BY <2>3, <2>4
<1> QED
  BY <1>1, <1>2

\* Machines start out rested.
LEMMA InitInv == Init => IInv
BY InitTyped, NonePointAssumption DEF Init, IInv, Rested, CornerDebt

\* A machine without a session has nothing on record and owes nothing, and a
\* debt to the corner is owed only from the corner.
THEOREM Invariance == Spec => []IInv
BY InitInv, StepInv, PTL DEF Spec

\* Whatever messages come in whatever order, and whatever is in front of the
\* screen, what is down and what is on record part company only when a session is
\* cut short, when what was asked goes nowhere, when release_all is refused, and
\* when a repeat comes of a press that was never recorded.
THEOREM RecordIsTrue == Spec => NothingSlipsTheRecord
<1>1. ASSUME IInv, [Next]_vars
      PROVE  \A c \in Clients :
               /\ \A k \in Slipping(c) : MaySlip(c, k)
               /\ Feigned(c) # {} => screen[c] = "SecureDesktop"
  BY <1>1, StepShows DEF RecordKept
<1> QED
  BY <1>1, Invariance, PTL DEF Spec, NothingSlipsTheRecord

\* A pointer that is left in the corner is owed its way back, while input lands.
THEOREM CornerOwedBack == Spec => CornerIsOwedBack
<1>1. ASSUME IInv, [Next]_vars
      PROVE  \A c \in Clients :
               /\ screen[c] = "open" /\ ~CutShort(c)
               /\ at'[c] = Corner /\ owes'[c] \in {None, Corner}
               => at[c] = Corner /\ owes[c] \in {None, Corner}
  BY <1>1, StepShows DEF DebtKept
<1> QED
  BY <1>1, Invariance, PTL DEF Spec, CornerIsOwedBack

-----------------------------------------------------------------------------
(* Drags.  What is said of them is said while every link holds (Whole),    *)
(* which is never so again once it was not: only the pointer at home has   *)
(* something promised of it after that.                                    *)

Plain   == [kind : {"Enter", "Leave", "Button"}, drag : {0}, left : BOOLEAN]
Bulk    == [kind : {"Offer", "Dragging"}, drag : DR!Drags, left : {FALSE}]
DragMsg == Plain \cup Bulk

\* What the server's daemon keeps.
HubType == [active : DR!Machines, attached : SUBSET DragClients,
            swallow : BOOLEAN, hidden : BOOLEAN,
            out : [DragClients -> Seq(DragMsg)], downs : SUBSET DragClients]

\* What a machine shares.
ShareType == [offer : 0 .. MaxDrags, pending : 0 .. MaxDrags, pulling : 0 .. MaxDrags]

\* Every variable of Drag has its type.
DragTypes ==
  /\ hub \in HubType
  /\ share \in [DR!Machines -> ShareType]
  /\ client \in [DragClients -> [acting : BOOLEAN, down : BOOLEAN]]
  /\ up \in [DragClients -> Seq(DragMsg)]
  /\ carries \in [DR!Machines -> 0 .. MaxDrags]
  /\ left \in BOOLEAN
  /\ hold \in Nat
  /\ holdOf \in [DR!Drags -> Nat]
  /\ origin \in [DR!Drags -> DR!Machines]

\* The pointer at home follows the cursor, whatever becomes of the links.
Homely(h) ==
  /\ h.active = DragHub => h.swallow = FALSE
  /\ h.active # DragHub => h.swallow = TRUE /\ h.hidden = TRUE

HomeFollows ==
  /\ hub.downs = {} /\ Homely(hub)
  /\ hub.active = DragHub => hub.hidden = FALSE \/ spoiled = TRUE

Whole == hub.attached = DragClients /\ closed = {}

\* Whether drag e is on machine m, or spoken of in a queue.
IsOn(e, m) == e \in {carries[m], share[m].pending, share[m].pulling}
IsSaid(e, q) == \E i \in 1 .. Len(q) : q[i].drag = e

Alive(e) == \/ \E m \in DR!Machines : IsOn(e, m)
            \/ \E c \in DragClients : IsSaid(e, hub.out[c]) \/ IsSaid(e, up[c])

\* What is anywhere was begun, and a drag of which nothing was missed is the only
\* one there is, as long as there is any of it.
Alone ==
  /\ left = TRUE => hold > 0
  /\ \A d \in DR!Drags : holdOf[d] <= hold
  /\ dropped \subseteq DR!Begun
  /\ \A e \in DR!Drags : Alive(e) => e \in DR!Begun
  /\ \A d \in DR!Begun \ missed, e \in DR!Drags : Alive(d) /\ Alive(e) => e = d

\* Enters and Leaves take turns, and come to where the cursor is.
Alternates(q) == \A i, k \in 1 .. Len(q) :
  i < k /\ q[i].kind = "Enter" /\ q[k].kind = "Enter" =>
    \E j \in 1 .. Len(q) : i < j /\ j < k /\ q[j].kind = "Leave"
LeaveFirst(q) == \A k \in 1 .. Len(q) :
  q[k].kind = "Enter" => \E j \in 1 .. Len(q) : j < k /\ q[j].kind = "Leave"
LeaveLast(q) == \A i \in 1 .. Len(q) :
  q[i].kind = "Enter" => \E j \in 1 .. Len(q) : i < j /\ q[j].kind = "Leave"
HasLeave(q) == \E j \in 1 .. Len(q) : q[j].kind = "Leave"

TakesTurns(c) ==
  /\ Alternates(hub.out[c])
  /\ client[c].acting = TRUE => LeaveFirst(hub.out[c])
  /\ hub.active # c => LeaveLast(hub.out[c])
  /\ hub.active # c /\ client[c].acting = TRUE => HasLeave(hub.out[c])
  /\ carries[c] # 0 => client[c].acting = TRUE

InTurn == \A c \in DragClients : TakesTurns(c)

\* No change of the button is on its way, or none after the news of drag d.
Unmoved(q) == \A k \in 1 .. Len(q) : q[k].kind # "Button"
MovedBefore(q, d) == \A j, k \in 1 .. Len(q) :
  j < k /\ q[j].kind = "Dragging" /\ q[j].drag = d => q[k].kind # "Button"

\* Of a drag whose button is held since it was begun: it is dropped nowhere, and a
\* machine that has it under its pointer, or comes to, has the button down and
\* hears of no change of it.
Holding(d) ==
  /\ d \notin dropped
  /\ \A c \in DragClients :
       /\ MovedBefore(hub.out[c], d)
       /\ IsOn(d, c) => Unmoved(hub.out[c])
       /\ carries[c] = d => client[c].down = TRUE

Held == \A d \in DR!Begun \ missed : left = TRUE /\ holdOf[d] = hold => Holding(d)

\* The offer of drag d, the news of it, and that the news comes after the offer or
\* where it was heard.
OfferIn(q, d) == \E j \in 1 .. Len(q) : q[j].kind = "Offer" /\ q[j].drag = d
NewsIn(q, d) == \E j \in 1 .. Len(q) : q[j].kind = "Dragging" /\ q[j].drag = d
OfferFirst(q, d) == \A k \in 1 .. Len(q) :
  q[k].kind = "Dragging" /\ q[k].drag = d =>
    \E j \in 1 .. Len(q) : j < k /\ q[j].kind = "Offer" /\ q[j].drag = d

\* The hub has heard the offer of d and passed it on.
PassedOn(d) ==
  /\ origin[d] # DragHub => share[DragHub].offer = d
  /\ \A c \in DragClients : c # origin[d] => share[c].offer = d \/ OfferIn(hub.out[c], d)

\* Of a drag that has not been let go of or fetched: it is under one pointer only,
\* and has never been on its way;
UnderPointer(d) ==
  \E m \in DR!Machines :
    /\ carries[m] = d
    /\ \A n \in DR!Machines : /\ carries[n] = d => n = m
                              /\ share[n].pending # d /\ share[n].pulling # d
    /\ \A c \in DragClients : ~IsSaid(d, hub.out[c]) /\ ~IsSaid(d, up[c])

\* or it is on its way, and wherever the news of it comes the offer came before.
OnItsWay(d) ==
  /\ \A m \in DR!Machines : /\ carries[m] # d
                            /\ share[m].pending = d => m = origin[d]
                            /\ share[m].pulling = d => share[m].offer = d
  /\ share[origin[d]].offer = d
  /\ \A c \in DragClients :
       /\ IsSaid(d, up[c]) => c = origin[d]
       /\ PassedOn(d) \/ OfferFirst(up[c], d)
       /\ c = origin[d] \/ share[c].offer = d \/ OfferFirst(hub.out[c], d)
  /\ \/ share[origin[d]].pending = d
     \/ \E m \in DR!Machines : share[m].pulling = d
     \/ \E c \in DragClients : NewsIn(hub.out[c], d) \/ NewsIn(up[c], d)

Somewhere == \A d \in DR!Begun \ (missed \cup dropped \cup landed) :
               UnderPointer(d) \/ OnItsWay(d)

DragInv == DragTypes /\ HomeFollows
           /\ (Whole => Alone /\ InTurn /\ Held /\ Somewhere)
-----------------------------------------------------------------------------
(* Queues of messages.                                                     *)

\* A message put at the end of a queue, and one taken from its front.
LEMMA PutLast ==
  ASSUME NEW q \in Seq(DragMsg), NEW m \in DragMsg
  PROVE  /\ Append(q, m) \in Seq(DragMsg)
         /\ Len(Append(q, m)) = Len(q) + 1
         /\ \A i \in 1 .. Len(q) : Append(q, m)[i] = q[i]
         /\ Append(q, m)[Len(q) + 1] = m
         /\ Len(q) \in Nat
OBVIOUS

LEMMA TakeFirst ==
  ASSUME NEW q \in Seq(DragMsg), q # <<>>
  PROVE  /\ Tail(q) \in Seq(DragMsg)
         /\ Len(Tail(q)) = Len(q) - 1
         /\ \A i \in 1 .. Len(q) - 1 : Tail(q)[i] = q[i + 1]
         /\ Head(q) = q[1] /\ Head(q) \in DragMsg
         /\ Len(q) \in Nat /\ Len(q) >= 1
OBVIOUS

\* What is spoken of in a queue with one message more or less.
LEMMA SaidWithMore ==
  ASSUME NEW q \in Seq(DragMsg), NEW m \in DragMsg, NEW e
  PROVE  /\ IsSaid(e, Append(q, m)) <=> IsSaid(e, q) \/ m.drag = e
         /\ OfferIn(Append(q, m), e) <=>
              OfferIn(q, e) \/ (m.kind = "Offer" /\ m.drag = e)
         /\ NewsIn(Append(q, m), e) <=>
              NewsIn(q, e) \/ (m.kind = "Dragging" /\ m.drag = e)
<1> DEFINE r == Append(q, m)
<1>1. /\ Len(r) = Len(q) + 1 /\ Len(q) \in Nat
      /\ \A i \in 1 .. Len(q) : r[i] = q[i]
      /\ r[Len(q) + 1] = m
  BY PutLast
<1> HIDE DEF r
<1>2. \A i \in 1 .. Len(r) : i \in 1 .. Len(q) \/ i = Len(q) + 1
  BY <1>1
<1>3. \A i \in 1 .. Len(q) : i \in 1 .. Len(r)
  BY <1>1
<1>4. Len(q) + 1 \in 1 .. Len(r)
  BY <1>1
<1> QED
  BY <1>1, <1>2, <1>3, <1>4 DEF IsSaid, OfferIn, NewsIn, r

LEMMA SaidWithLess ==
  ASSUME NEW q \in Seq(DragMsg), q # <<>>, NEW e
  PROVE  /\ IsSaid(e, Tail(q)) => IsSaid(e, q)
         /\ Head(q).drag = e => IsSaid(e, q)
         /\ OfferIn(q, e) => OfferIn(Tail(q), e) \/ (Head(q).kind = "Offer" /\ Head(q).drag = e)
         /\ NewsIn(q, e) => NewsIn(Tail(q), e) \/ (Head(q).kind = "Dragging" /\ Head(q).drag = e)
         /\ NewsIn(q, e) => IsSaid(e, q)
         /\ OfferIn(q, e) => IsSaid(e, q)
<1> DEFINE r == Tail(q)
<1>1. /\ Len(r) = Len(q) - 1 /\ Len(q) \in Nat /\ Len(q) >= 1
      /\ \A i \in 1 .. Len(r) : r[i] = q[i + 1]
      /\ Head(q) = q[1]
  BY TakeFirst
<1> HIDE DEF r
<1>2. \A i \in 1 .. Len(r) : i + 1 \in 1 .. Len(q)
  BY <1>1
<1>3. \A i \in 1 .. Len(q) : i = 1 \/ (i - 1 \in 1 .. Len(r) /\ r[i - 1] = q[i])
  BY <1>1
<1>4. 1 \in 1 .. Len(q)
  BY <1>1
<1>5. IsSaid(e, r) => IsSaid(e, q)
  BY <1>1, <1>2 DEF IsSaid
<1>6. Head(q).drag = e => IsSaid(e, q)
  BY <1>1, <1>4 DEF IsSaid
<1>7. OfferIn(q, e) => OfferIn(r, e) \/ (Head(q).kind = "Offer" /\ Head(q).drag = e)
  BY <1>1, <1>3 DEF OfferIn
<1>8. NewsIn(q, e) => NewsIn(r, e) \/ (Head(q).kind = "Dragging" /\ Head(q).drag = e)
  BY <1>1, <1>3 DEF NewsIn
<1>9. (NewsIn(q, e) => IsSaid(e, q)) /\ (OfferIn(q, e) => IsSaid(e, q))
  BY DEF NewsIn, OfferIn, IsSaid
<1> QED
  BY <1>5, <1>6, <1>7, <1>8, <1>9 DEF r

\* Enters and Leaves in a queue with one message more.
LEMMA TurnsWithMore ==
  ASSUME NEW q \in Seq(DragMsg), NEW m \in DragMsg, Alternates(q)
  PROVE  /\ m.kind # "Enter" \/ LeaveLast(q) => Alternates(Append(q, m))
         /\ /\ LeaveFirst(q)
            /\ m.kind # "Enter" \/ HasLeave(q)
            => LeaveFirst(Append(q, m))
         /\ m.kind = "Leave" => LeaveLast(Append(q, m)) /\ HasLeave(Append(q, m))
         /\ LeaveLast(q) /\ m.kind # "Enter" => LeaveLast(Append(q, m))
         /\ HasLeave(q) => HasLeave(Append(q, m))
<1> DEFINE r == Append(q, m)
           n == Len(q)
<1>1. /\ Len(r) = n + 1 /\ n \in Nat
      /\ \A i \in 1 .. n : r[i] = q[i]
      /\ r[n + 1] = m
  BY PutLast
<1> HIDE DEF r, n
<1>2. \A i \in 1 .. Len(r) : i \in 1 .. n \/ i = n + 1
  BY <1>1
<1>3. \A i \in 1 .. n : i \in 1 .. Len(r) /\ i < n + 1
  BY <1>1
<1>4. n + 1 \in 1 .. Len(r)
  BY <1>1
<1>q. n = Len(q)
  BY DEF n
<1>5. ASSUME m.kind # "Enter" \/ LeaveLast(q) PROVE Alternates(r)
  <2> SUFFICES ASSUME NEW i \in 1 .. Len(r), NEW k \in 1 .. Len(r), i < k,
                      r[i].kind = "Enter", r[k].kind = "Enter"
               PROVE  \E j \in 1 .. Len(r) : i < j /\ j < k /\ r[j].kind = "Leave"
    BY DEF Alternates
  <2>1. i \in 1 .. n /\ q[i].kind = "Enter"
    BY <1>1, <1>2
  <2>2. CASE k \in 1 .. n
    <3>1. PICK j \in 1 .. n : i < j /\ j < k /\ q[j].kind = "Leave"
      BY <1>1, <2>1, <2>2, <1>q DEF Alternates
    <3> QED
      BY <1>1, <1>3, <3>1
  <2>3. CASE k = n + 1
    <3>1. PICK j \in 1 .. n : i < j /\ q[j].kind = "Leave"
      BY <1>1, <1>5, <2>1, <2>3, <1>q DEF LeaveLast
    <3> QED
      BY <1>1, <1>3, <2>3, <3>1
  <2> QED
    BY <1>2, <2>2, <2>3
<1>6. ASSUME LeaveFirst(q), m.kind # "Enter" \/ HasLeave(q) PROVE LeaveFirst(r)
  <2> SUFFICES ASSUME NEW k \in 1 .. Len(r), r[k].kind = "Enter"
               PROVE  \E j \in 1 .. Len(r) : j < k /\ r[j].kind = "Leave"
    BY DEF LeaveFirst
  <2>2. CASE k \in 1 .. n
    <3>1. PICK j \in 1 .. n : j < k /\ q[j].kind = "Leave"
      BY <1>1, <1>6, <2>2, <1>q DEF LeaveFirst
    <3> QED
      BY <1>1, <1>3, <3>1
  <2>3. CASE k = n + 1
    <3>1. PICK j \in 1 .. n : q[j].kind = "Leave"
      BY <1>1, <1>6, <2>3, <1>q DEF HasLeave
    <3> QED
      BY <1>1, <1>3, <2>3, <3>1
  <2> QED
    BY <1>2, <2>2, <2>3
<1>7. ASSUME m.kind = "Leave" PROVE LeaveLast(r) /\ HasLeave(r)
  BY <1>1, <1>2, <1>3, <1>4, <1>7 DEF LeaveLast, HasLeave
<1>8. ASSUME LeaveLast(q), m.kind # "Enter" PROVE LeaveLast(r)
  <2> SUFFICES ASSUME NEW i \in 1 .. Len(r), r[i].kind = "Enter"
               PROVE  \E j \in 1 .. Len(r) : i < j /\ r[j].kind = "Leave"
    BY DEF LeaveLast
  <2>1. i \in 1 .. n
    BY <1>1, <1>2, <1>8
  <2>2. PICK j \in 1 .. n : i < j /\ q[j].kind = "Leave"
    BY <1>1, <1>8, <2>1, <1>q DEF LeaveLast
  <2> QED
    BY <1>1, <1>3, <2>2
<1>9. ASSUME HasLeave(q) PROVE HasLeave(r)
  BY <1>1, <1>3, <1>9, <1>q DEF HasLeave
<1> QED
  BY <1>5, <1>6, <1>7, <1>8, <1>9 DEF r

\* Enters and Leaves in a queue whose first message is taken.
LEMMA TurnsWithLess ==
  ASSUME NEW q \in Seq(DragMsg), q # <<>>, Alternates(q)
  PROVE  /\ Alternates(Tail(q))
         /\ Head(q).kind = "Enter" => LeaveFirst(Tail(q))
         /\ LeaveFirst(q) /\ Head(q).kind # "Leave" => LeaveFirst(Tail(q))
         /\ LeaveLast(q) => LeaveLast(Tail(q))
         /\ LeaveLast(q) /\ Head(q).kind = "Enter" => HasLeave(Tail(q))
         /\ HasLeave(q) /\ Head(q).kind # "Leave" => HasLeave(Tail(q))
<1> DEFINE r == Tail(q)
           n == Len(q)
<1>1. /\ Len(r) = n - 1 /\ n \in Nat /\ n >= 1
      /\ \A i \in 1 .. Len(r) : r[i] = q[i + 1]
      /\ Head(q) = q[1]
  BY TakeFirst
<1> HIDE DEF r, n
<1>2. \A i \in 1 .. Len(r) : i + 1 \in 1 .. n /\ 1 < i + 1
  BY <1>1
<1>3. \A j \in 1 .. n : 1 < j => j - 1 \in 1 .. Len(r) /\ r[j - 1] = q[j]
  BY <1>1
<1>4. 1 \in 1 .. n
  BY <1>1
<1>q. n = Len(q)
  BY DEF n
<1>5. Alternates(r)
  <2> SUFFICES ASSUME NEW i \in 1 .. Len(r), NEW k \in 1 .. Len(r), i < k,
                      r[i].kind = "Enter", r[k].kind = "Enter"
               PROVE  \E j \in 1 .. Len(r) : i < j /\ j < k /\ r[j].kind = "Leave"
    BY DEF Alternates
  <2>1. /\ i + 1 \in 1 .. n /\ k + 1 \in 1 .. n /\ i + 1 < k + 1
        /\ q[i + 1].kind = "Enter" /\ q[k + 1].kind = "Enter"
    BY <1>1, <1>2
  <2>2. PICK j \in 1 .. n : i + 1 < j /\ j < k + 1 /\ q[j].kind = "Leave"
    BY <2>1, <1>q DEF Alternates
  <2>3. 1 < j
    BY <1>1, <2>2
  <2>4. j - 1 \in 1 .. Len(r) /\ r[j - 1] = q[j]
    BY <1>3, <2>2, <2>3
  <2>5. i < j - 1 /\ j - 1 < k
    BY <1>1, <2>2
  <2> QED
    BY <2>2, <2>4, <2>5
<1>6. ASSUME Head(q).kind = "Enter" PROVE LeaveFirst(r)
  <2> SUFFICES ASSUME NEW k \in 1 .. Len(r), r[k].kind = "Enter"
               PROVE  \E j \in 1 .. Len(r) : j < k /\ r[j].kind = "Leave"
    BY DEF LeaveFirst
  <2>1. /\ k + 1 \in 1 .. n /\ 1 < k + 1
        /\ q[1].kind = "Enter" /\ q[k + 1].kind = "Enter"
    BY <1>1, <1>2, <1>6
  <2>2. PICK j \in 1 .. n : 1 < j /\ j < k + 1 /\ q[j].kind = "Leave"
    BY <1>4, <2>1, <1>q DEF Alternates
  <2>3. j - 1 \in 1 .. Len(r) /\ r[j - 1] = q[j]
    BY <1>3, <2>2
  <2>4. j - 1 < k
    BY <1>1, <2>2
  <2> QED
    BY <2>2, <2>3, <2>4
<1>7. ASSUME LeaveFirst(q), Head(q).kind # "Leave" PROVE LeaveFirst(r)
  <2> SUFFICES ASSUME NEW k \in 1 .. Len(r), r[k].kind = "Enter"
               PROVE  \E j \in 1 .. Len(r) : j < k /\ r[j].kind = "Leave"
    BY DEF LeaveFirst
  <2>1. k + 1 \in 1 .. n /\ q[k + 1].kind = "Enter"
    BY <1>1, <1>2
  <2>2. PICK j \in 1 .. n : j < k + 1 /\ q[j].kind = "Leave"
    BY <1>7, <2>1, <1>q DEF LeaveFirst
  <2>3. 1 < j
    BY <1>1, <1>7, <2>2
  <2>4. j - 1 \in 1 .. Len(r) /\ r[j - 1] = q[j]
    BY <1>3, <2>2, <2>3
  <2>5. j - 1 < k
    BY <1>1, <2>2
  <2> QED
    BY <2>2, <2>4, <2>5
<1>8. ASSUME LeaveLast(q) PROVE LeaveLast(r)
  <2> SUFFICES ASSUME NEW i \in 1 .. Len(r), r[i].kind = "Enter"
               PROVE  \E j \in 1 .. Len(r) : i < j /\ r[j].kind = "Leave"
    BY DEF LeaveLast
  <2>1. i + 1 \in 1 .. n /\ q[i + 1].kind = "Enter"
    BY <1>1, <1>2
  <2>2. PICK j \in 1 .. n : i + 1 < j /\ q[j].kind = "Leave"
    BY <1>8, <2>1, <1>q DEF LeaveLast
  <2>3. 1 < j
    BY <1>1, <2>2
  <2>4. j - 1 \in 1 .. Len(r) /\ r[j - 1] = q[j]
    BY <1>3, <2>2, <2>3
  <2>5. i < j - 1
    BY <1>1, <2>2
  <2> QED
    BY <2>2, <2>4, <2>5
<1>9. ASSUME LeaveLast(q), Head(q).kind = "Enter" PROVE HasLeave(r)
  <2>1. PICK j \in 1 .. n : 1 < j /\ q[j].kind = "Leave"
    BY <1>1, <1>4, <1>9, <1>q DEF LeaveLast
  <2> QED
    BY <1>3, <2>1 DEF HasLeave
<1>10. ASSUME HasLeave(q), Head(q).kind # "Leave" PROVE HasLeave(r)
  <2>1. PICK j \in 1 .. n : q[j].kind = "Leave"
    BY <1>10, <1>q DEF HasLeave
  <2>2. 1 < j
    BY <1>1, <1>10, <2>1
  <2> QED
    BY <1>3, <2>1, <2>2 DEF HasLeave
<1> QED
  BY <1>5, <1>6, <1>7, <1>8, <1>9, <1>10 DEF r

\* Changes of the button in a queue with one message more or less.
LEMMA ButtonsWithMore ==
  ASSUME NEW q \in Seq(DragMsg), NEW m \in DragMsg, NEW d, m.kind # "Button"
  PROVE  /\ Unmoved(q) => Unmoved(Append(q, m))
         /\ MovedBefore(q, d) => MovedBefore(Append(q, m), d)
<1> DEFINE r == Append(q, m)
           n == Len(q)
<1>1. /\ Len(r) = n + 1 /\ n \in Nat
      /\ \A i \in 1 .. n : r[i] = q[i]
      /\ r[n + 1] = m
  BY PutLast
<1> HIDE DEF r, n
<1>2. \A i \in 1 .. Len(r) : i \in 1 .. n \/ i = n + 1
  BY <1>1
<1>q. n = Len(q)
  BY DEF n
<1>3. Unmoved(q) => Unmoved(r)
  BY <1>1, <1>2, <1>q DEF Unmoved
<1>4. ASSUME MovedBefore(q, d) PROVE MovedBefore(r, d)
  <2> SUFFICES ASSUME NEW j \in 1 .. Len(r), NEW k \in 1 .. Len(r), j < k,
                      r[j].kind = "Dragging", r[j].drag = d
               PROVE  r[k].kind # "Button"
    BY DEF MovedBefore
  <2>1. CASE k = n + 1
    BY <1>1, <2>1
  <2>2. CASE k \in 1 .. n
    <3>1. j \in 1 .. n
      BY <1>1, <2>2
    <3> QED
      BY <1>1, <1>4, <2>2, <3>1, <1>q DEF MovedBefore
  <2> QED
    BY <1>2, <2>1, <2>2
<1> QED
  BY <1>3, <1>4 DEF r

LEMMA ButtonsWithLess ==
  ASSUME NEW q \in Seq(DragMsg), q # <<>>, NEW d
  PROVE  /\ Unmoved(q) => Unmoved(Tail(q)) /\ Head(q).kind # "Button"
         /\ MovedBefore(q, d) => MovedBefore(Tail(q), d)
         /\ MovedBefore(q, d) /\ Head(q).kind = "Dragging" /\ Head(q).drag = d
            => Unmoved(Tail(q))
<1> DEFINE r == Tail(q)
           n == Len(q)
<1>1. /\ Len(r) = n - 1 /\ n \in Nat /\ n >= 1
      /\ \A i \in 1 .. Len(r) : r[i] = q[i + 1]
      /\ Head(q) = q[1]
  BY TakeFirst
<1> HIDE DEF r, n
<1>2. \A i \in 1 .. Len(r) : i + 1 \in 1 .. n /\ 1 < i + 1
  BY <1>1
<1>4. 1 \in 1 .. n
  BY <1>1
<1>q. n = Len(q)
  BY DEF n
<1>5. Unmoved(q) => Unmoved(r) /\ Head(q).kind # "Button"
  BY <1>1, <1>2, <1>4, <1>q DEF Unmoved
<1>6. ASSUME MovedBefore(q, d) PROVE MovedBefore(r, d)
  <2> SUFFICES ASSUME NEW j \in 1 .. Len(r), NEW k \in 1 .. Len(r), j < k,
                      r[j].kind = "Dragging", r[j].drag = d
               PROVE  r[k].kind # "Button"
    BY DEF MovedBefore
  <2>1. /\ j + 1 \in 1 .. n /\ k + 1 \in 1 .. n /\ j + 1 < k + 1
        /\ q[j + 1].kind = "Dragging" /\ q[j + 1].drag = d
    BY <1>1, <1>2
  <2>2. q[k + 1].kind # "Button"
    BY <1>6, <2>1, <1>q DEF MovedBefore
  <2> QED
    BY <1>1, <2>2
<1>7. ASSUME MovedBefore(q, d), Head(q).kind = "Dragging", Head(q).drag = d
      PROVE  Unmoved(r)
  <2> SUFFICES ASSUME NEW k \in 1 .. Len(r) PROVE r[k].kind # "Button"
    BY DEF Unmoved
  <2>1. k + 1 \in 1 .. n /\ 1 < k + 1
    BY <1>2
  <2>2. q[k + 1].kind # "Button"
    BY <1>1, <1>4, <1>7, <2>1, <1>q DEF MovedBefore
  <2> QED
    BY <1>1, <2>2
<1> QED
  BY <1>5, <1>6, <1>7 DEF r

\* The news after its offer, in a queue with one message more or less.
LEMMA OfferFirstWithMore ==
  ASSUME NEW q \in Seq(DragMsg), NEW m \in DragMsg, NEW d, OfferFirst(q, d),
         m.kind = "Dragging" /\ m.drag = d => OfferIn(q, d)
  PROVE  OfferFirst(Append(q, m), d)
<1> DEFINE r == Append(q, m)
           n == Len(q)
<1>1. /\ Len(r) = n + 1 /\ n \in Nat
      /\ \A i \in 1 .. n : r[i] = q[i]
      /\ r[n + 1] = m
  BY PutLast
<1> HIDE DEF r, n
<1>2. \A i \in 1 .. Len(r) : i \in 1 .. n \/ i = n + 1
  BY <1>1
<1>3. \A i \in 1 .. n : i \in 1 .. Len(r) /\ i < n + 1
  BY <1>1
<1>q. n = Len(q)
  BY DEF n
<1> SUFFICES ASSUME NEW k \in 1 .. Len(r), r[k].kind = "Dragging", r[k].drag = d
             PROVE  \E j \in 1 .. Len(r) : j < k /\ r[j].kind = "Offer" /\ r[j].drag = d
  BY DEF OfferFirst, r
<1>4. CASE k \in 1 .. n
  <2>1. PICK j \in 1 .. n : j < k /\ q[j].kind = "Offer" /\ q[j].drag = d
    BY <1>1, <1>4, <1>q DEF OfferFirst
  <2> QED
    BY <1>1, <1>3, <2>1
<1>5. CASE k = n + 1
  <2>1. PICK j \in 1 .. n : q[j].kind = "Offer" /\ q[j].drag = d
    BY <1>1, <1>5, <1>q DEF OfferIn
  <2> QED
    BY <1>1, <1>3, <1>5, <2>1
<1> QED
  BY <1>2, <1>4, <1>5

LEMMA OfferFirstWithLess ==
  ASSUME NEW q \in Seq(DragMsg), q # <<>>, NEW d, OfferFirst(q, d)
  PROVE  /\ ~(Head(q).kind = "Dragging" /\ Head(q).drag = d)
         /\ Head(q).kind # "Offer" \/ Head(q).drag # d => OfferFirst(Tail(q), d)
<1> DEFINE r == Tail(q)
           n == Len(q)
<1>1. /\ Len(r) = n - 1 /\ n \in Nat /\ n >= 1
      /\ \A i \in 1 .. Len(r) : r[i] = q[i + 1]
      /\ Head(q) = q[1]
  BY TakeFirst
<1> HIDE DEF r, n
<1>2. \A i \in 1 .. Len(r) : i + 1 \in 1 .. n /\ 1 < i + 1
  BY <1>1
<1>3. \A j \in 1 .. n : 1 < j => j - 1 \in 1 .. Len(r) /\ r[j - 1] = q[j]
  BY <1>1
<1>4. 1 \in 1 .. n
  BY <1>1
<1>q. n = Len(q)
  BY DEF n
<1>5. ~(Head(q).kind = "Dragging" /\ Head(q).drag = d)
  BY <1>1, <1>4, <1>q DEF OfferFirst
<1>6. ASSUME Head(q).kind # "Offer" \/ Head(q).drag # d PROVE OfferFirst(r, d)
  <2> SUFFICES ASSUME NEW k \in 1 .. Len(r), r[k].kind = "Dragging", r[k].drag = d
               PROVE  \E j \in 1 .. Len(r) : j < k /\ r[j].kind = "Offer" /\ r[j].drag = d
    BY DEF OfferFirst
  <2>1. k + 1 \in 1 .. n /\ q[k + 1].kind = "Dragging" /\ q[k + 1].drag = d
    BY <1>1, <1>2
  <2>2. PICK j \in 1 .. n : j < k + 1 /\ q[j].kind = "Offer" /\ q[j].drag = d
    BY <2>1, <1>q DEF OfferFirst
  <2>3. 1 < j
    BY <1>1, <1>6, <2>2
  <2>4. j - 1 \in 1 .. Len(r) /\ r[j - 1] = q[j]
    BY <1>3, <2>2, <2>3
  <2>5. j - 1 < k
    BY <1>1, <2>2
  <2> QED
    BY <2>2, <2>4, <2>5
<1> QED
  BY <1>5, <1>6 DEF r
-----------------------------------------------------------------------------
(* What the server's daemon does with its part of the state.               *)

\* Telling machines something, whoever is lost by it.
LEMMA TellIs ==
  ASSUME NEW h \in HubType, NEW to \in SUBSET DragClients, NEW m \in DragMsg,
         NEW t, t = DR!Tell(h, to, m)
  PROVE  /\ t \in HubType
         /\ t.active = h.active /\ t.swallow = h.swallow /\ t.hidden = h.hidden
         /\ t.attached \subseteq h.attached
<1> DEFINE told == {c \in to \cap h.attached : c \notin closed /\ Len(h.out[c]) < DragRoom}
           lost == (to \cap h.attached) \ told
           o == [c \in DragClients |-> CASE c \in told -> Append(h.out[c], m)
                                         [] c \in lost -> <<>>
                                         [] OTHER -> h.out[c]]
<1>1. t = [h EXCEPT !.attached = @ \ lost, !.downs = @ \cup lost, !.out = o]
  BY DEF DR!Tell
<1>2. t = [active |-> h.active, attached |-> h.attached \ lost, swallow |-> h.swallow,
           hidden |-> h.hidden, out |-> o, downs |-> h.downs \cup lost]
  BY <1>1 DEF HubType
<1>3. o \in [DragClients -> Seq(DragMsg)]
  <2>1. \A c \in DragClients : h.out[c] \in Seq(DragMsg)
    BY DEF HubType
  <2>2. \A c \in DragClients : Append(h.out[c], m) \in Seq(DragMsg)
    BY <2>1
  <2>3. <<>> \in Seq(DragMsg)
    OBVIOUS
  <2> QED
    BY <2>1, <2>2, <2>3
<1>5. lost \subseteq DragClients
  OBVIOUS
<1> HIDE DEF told, lost, o
<1>6. t \in HubType
  BY <1>2, <1>3, <1>5 DEF HubType
<1> QED
  BY <1>2, <1>6

\* Of these queues, those of the machines told have the message more.
Hear(o, to, m, p) == \A c \in DragClients : p[c] = IF c \in to THEN Append(o[c], m) ELSE o[c]

\* Telling machines something, when nobody is lost by it.
LEMMA TellsAll ==
  ASSUME NEW h \in HubType, NEW to \in SUBSET DragClients, NEW m \in DragMsg,
         NEW t, t = DR!Tell(h, to, m), t.attached = DragClients
  PROVE  /\ t.downs = h.downs /\ h.attached = DragClients
         /\ Hear(h.out, to, m, t.out)
<1> DEFINE told == {c \in to \cap h.attached : c \notin closed /\ Len(h.out[c]) < DragRoom}
           lost == (to \cap h.attached) \ told
           o == [c \in DragClients |-> CASE c \in told -> Append(h.out[c], m)
                                         [] c \in lost -> <<>>
                                         [] OTHER -> h.out[c]]
<1>1. t = [h EXCEPT !.attached = @ \ lost, !.downs = @ \cup lost, !.out = o]
  BY DEF DR!Tell
<1>2. t.attached = h.attached \ lost /\ t.downs = h.downs \cup lost /\ t.out = o
  BY <1>1 DEF HubType
<1>3. h.attached = DragClients /\ lost = {}
  BY <1>2 DEF HubType
<1>4. told = to
  BY <1>3
<1>5. \A c \in DragClients : o[c] = IF c \in to THEN Append(h.out[c], m) ELSE h.out[c]
  BY <1>3, <1>4
<1> HIDE DEF told, lost, o
<1> QED
  BY <1>2, <1>3, <1>5 DEF Hear

\* Bringing the cursor home.
LEMMA RecallIs ==
  ASSUME NEW h \in HubType, NEW t, t = DR!RecallCursor(h)
  PROVE  /\ t \in HubType
         /\ t.active = DragHub /\ t.swallow = FALSE /\ t.hidden = FALSE
         /\ t.attached = h.attached /\ t.out = h.out /\ t.downs = h.downs
<1>1. DragHub \in DR!Machines
  BY DEF DR!Machines
<1> QED
  BY <1>1 DEF DR!RecallCursor, HubType

\* The departures that were queued.
LEMMA DeparturesIs ==
  ASSUME NEW h \in HubType, NEW t, t = DR!Departures(h)
  PROVE  /\ t \in HubType
         /\ t.attached = h.attached /\ t.downs = {} /\ t.out = h.out
         /\ h.active \notin h.downs =>
              t.active = h.active /\ t.swallow = h.swallow /\ t.hidden = h.hidden
         /\ h.active \in h.downs =>
              t.active = DragHub /\ t.swallow = FALSE /\ t.hidden = FALSE
<1> DEFINE r == DR!RecallCursor(h)
           g == IF h.active \in h.downs THEN r ELSE h
<1>1. r \in HubType
  BY RecallIs
<1>2. g \in HubType
  BY <1>1
<1>3. t = [g EXCEPT !.downs = {}]
  BY DEF DR!Departures
<1>4. /\ t.active = g.active /\ t.attached = g.attached /\ t.swallow = g.swallow
      /\ t.hidden = g.hidden /\ t.out = g.out /\ t.downs = {}
  BY <1>2, <1>3 DEF HubType
<1>5. t \in HubType
  BY <1>2, <1>3 DEF HubType
<1>6. CASE h.active \in h.downs
  <2>1. g = r
    BY <1>6
  <2>2. /\ r.active = DragHub /\ r.attached = h.attached /\ r.swallow = FALSE
        /\ r.hidden = FALSE /\ r.out = h.out
    BY RecallIs
  <2> QED
    BY <1>4, <1>5, <1>6, <2>1, <2>2
<1>7. CASE h.active \notin h.downs
  <2>1. g = h
    BY <1>7
  <2> HIDE DEF g
  <2> QED
    BY <1>4, <1>5, <1>7, <2>1
<1> QED
  BY <1>6, <1>7

\* What telling makes of the cursor: nothing, or it comes home.
SameCursor(t, h) == t.active = h.active /\ t.hidden = h.hidden /\ t.swallow = h.swallow
CursorHome(t) == t.active = DragHub /\ t.hidden = FALSE /\ t.swallow = FALSE

\* Telling and dealing with who is lost by it.
LEMMA SendIs ==
  ASSUME NEW h \in HubType, NEW to \in SUBSET DragClients, NEW m \in DragMsg,
         NEW t, t = DR!Departures(DR!Tell(h, to, m))
  PROVE  /\ t \in HubType /\ t.downs = {}
         /\ t.attached \subseteq h.attached
         /\ SameCursor(t, h) \/ CursorHome(t)
<1>p. PICK g : g = DR!Tell(h, to, m)
  OBVIOUS
<1>1. g \in HubType
  BY <1>p, TellIs
<1>2. g.active = h.active /\ g.swallow = h.swallow /\ g.hidden = h.hidden
  BY <1>p, TellIs
<1>3. g.attached \subseteq h.attached
  BY <1>p, TellIs
<1>g. t = DR!Departures(g)
  BY <1>p
<1>4. /\ t \in HubType
      /\ t.attached = g.attached /\ t.downs = {}
      /\ g.active \notin g.downs =>
           t.active = g.active /\ t.swallow = g.swallow /\ t.hidden = g.hidden
      /\ g.active \in g.downs =>
           t.active = DragHub /\ t.swallow = FALSE /\ t.hidden = FALSE
  BY <1>1, <1>g, DeparturesIs
<1> QED
  BY <1>2, <1>3, <1>4 DEF SameCursor, CursorHome

\* Telling, when nobody is lost by it.
LEMMA SendsAll ==
  ASSUME NEW h \in HubType, NEW to \in SUBSET DragClients, NEW m \in DragMsg,
         h.downs = {}, NEW t, t = DR!Departures(DR!Tell(h, to, m)),
         t.attached = DragClients
  PROVE  /\ h.attached = DragClients
         /\ t.active = h.active
         /\ Hear(h.out, to, m, t.out)
<1>p. PICK g : g = DR!Tell(h, to, m)
  OBVIOUS
<1>1. g \in HubType
  BY <1>p, TellIs
<1>2. g.active = h.active /\ g.swallow = h.swallow /\ g.hidden = h.hidden
  BY <1>p, TellIs
<1>g. t = DR!Departures(g)
  BY <1>p
<1>4. /\ t.attached = g.attached /\ t.out = g.out
      /\ g.active \notin g.downs =>
           t.active = g.active /\ t.swallow = g.swallow /\ t.hidden = g.hidden
  BY <1>1, <1>g, DeparturesIs
<1>5. g.attached = DragClients
  BY <1>4
<1>6. /\ g.downs = h.downs /\ h.attached = DragClients
      /\ Hear(h.out, to, m, g.out)
  BY <1>p, <1>5, TellsAll
<1> QED
  BY <1>2, <1>4, <1>6

-----------------------------------------------------------------------------
(* Messages, and what a machine makes of a drag that comes to it.          *)

\* Machines are the clients and the hub, which is none of them; a drag is no 0.
LEMMA MachinesAre ==
  /\ DR!Machines = DragClients \cup {DragHub}
  /\ DragHub \notin DragClients
  /\ \A d \in DR!Drags : d # 0 /\ d \in 0 .. MaxDrags
  /\ \A d \in 0 .. MaxDrags : d # 0 => d \in DR!Drags
BY DragAssumption DEF DR!Machines, DR!Drags

LEMMA MessagesAre ==
  /\ \A b \in BOOLEAN : /\ DR!Enter(b) \in DragMsg
                        /\ DR!Enter(b).kind = "Enter" /\ DR!Enter(b).drag = 0
                        /\ DR!Button(b) \in DragMsg
                        /\ DR!Button(b).kind = "Button" /\ DR!Button(b).drag = 0
  /\ DR!Leave \in DragMsg /\ DR!Leave.kind = "Leave" /\ DR!Leave.drag = 0
  /\ \A d \in DR!Drags : /\ DR!Offered(d) \in DragMsg
                         /\ DR!Offered(d).kind = "Offer" /\ DR!Offered(d).drag = d
                         /\ DR!Carried(d) \in DragMsg
                         /\ DR!Carried(d).kind = "Dragging" /\ DR!Carried(d).drag = d
BY DEF DragMsg, Plain, Bulk, DR!Enter, DR!Leave, DR!Button, DR!Offered, DR!Carried, DR!Msg

\* A message of the clipboard names a drag, and the others none.
LEMMA NamesADrag ==
  ASSUME NEW m \in DragMsg
  PROVE  /\ m.kind \in {"Offer", "Dragging"} => m.drag \in DR!Drags
         /\ m.kind \in {"Enter", "Leave", "Button"} => m.drag = 0
         /\ m.left \in BOOLEAN
BY DEF DragMsg, Plain, Bulk

\* A drop is waited for, or what was dropped fetched.
Waiting(m, s, d, t) ==
  /\ \A n \in DR!Machines : n # m => t[n] = s[n]
  /\ t[m].offer = s[m].offer
  /\ s[m].offer # d \/ origin[d] = m =>
       t[m].pending = d /\ t[m].pulling = s[m].pulling
  /\ s[m].offer = d /\ origin[d] # m =>
       /\ t[m].pending = 0
       /\ s[m].pulling = 0 => t[m].pulling = d
       /\ s[m].pulling # 0 => t[m].pulling = s[m].pulling

LEMMA DropHereIs ==
  ASSUME NEW s \in [DR!Machines -> ShareType], NEW m \in DR!Machines, NEW d \in DR!Drags,
         NEW t, t = DR!DropHere(m, s, d)
  PROVE  t \in [DR!Machines -> ShareType] /\ Waiting(m, s, d, t)
<1>1. d \in 0 .. MaxDrags /\ 0 \in 0 .. MaxDrags
  BY MachinesAre, DragAssumption
<1>2. CASE s[m].offer # d \/ origin[d] = m
  <2>1. t = [s EXCEPT ![m].pending = d]
    BY <1>2 DEF DR!DropHere
  <2> QED
    BY <1>1, <1>2, <2>1 DEF ShareType, Waiting
<1>3. CASE s[m].offer = d /\ origin[d] # m
  <2>1. PICK p \in 0 .. MaxDrags : p = IF s[m].pulling = 0 THEN d ELSE s[m].pulling
    BY <1>1 DEF ShareType
  <2>2. t = [s EXCEPT ![m] = [@ EXCEPT !.pending = 0, !.pulling = p]]
    BY <1>3, <2>1 DEF DR!DropHere, ShareType
  <2>3. t \in [DR!Machines -> ShareType]
    BY <1>1, <2>2 DEF ShareType
  <2>4. /\ \A n \in DR!Machines : n # m => t[n] = s[n]
        /\ t[m].offer = s[m].offer /\ t[m].pending = 0 /\ t[m].pulling = p
    BY <2>2 DEF ShareType
  <2> QED
    BY <1>3, <2>1, <2>3, <2>4 DEF Waiting
<1> QED
  BY <1>2, <1>3

\* An offer is taken, and a drop that waited for it begins.
Taken(m, s, d, t) ==
  /\ \A n \in DR!Machines : n # m => t[n] = s[n]
  /\ t[m].offer = d
  /\ s[m].pending # d \/ origin[d] = m =>
       t[m].pending = s[m].pending /\ t[m].pulling = s[m].pulling
  /\ t[m].pending \in {s[m].pending, 0}
  /\ t[m].pulling \in {s[m].pulling, s[m].pending}

LEMMA TakeOfferIs ==
  ASSUME NEW s \in [DR!Machines -> ShareType], NEW m \in DR!Machines, NEW d \in DR!Drags,
         NEW t, t = DR!TakeOffer(m, s, d)
  PROVE  t \in [DR!Machines -> ShareType] /\ Taken(m, s, d, t)
<1> DEFINE u == [s EXCEPT ![m].offer = d]
<1>1. d \in 0 .. MaxDrags
  BY MachinesAre
<1>2. /\ u \in [DR!Machines -> ShareType]
      /\ \A n \in DR!Machines : n # m => u[n] = s[n]
      /\ u[m].offer = d /\ u[m].pending = s[m].pending /\ u[m].pulling = s[m].pulling
  BY <1>1 DEF ShareType
<1>3. t = IF s[m].pending = d THEN DR!DropHere(m, u, d) ELSE u
  BY DEF DR!TakeOffer
<1> HIDE DEF u
<1>4. CASE s[m].pending # d
  BY <1>2, <1>3, <1>4 DEF Taken
<1>5. CASE s[m].pending = d
  <2>1. t = DR!DropHere(m, u, d)
    BY <1>3, <1>5
  <2>2. t \in [DR!Machines -> ShareType] /\ Waiting(m, u, d, t)
    BY <1>2, <2>1, DropHereIs
  <2> QED
    BY <1>2, <1>5, <2>2 DEF Waiting, Taken
<1> QED
  BY <1>4, <1>5

-----------------------------------------------------------------------------
(* Types, and the pointer at home.                                         *)

\* Whatever is told, and whoever is lost by it, the pointer at home follows.
LEMMA SendHome ==
  ASSUME NEW h \in HubType, NEW to \in SUBSET DragClients, NEW m \in DragMsg,
         Homely(h), NEW t, t = DR!Departures(DR!Tell(h, to, m))
  PROVE  /\ t \in HubType /\ t.downs = {} /\ Homely(t)
         /\ SameCursor(t, h) \/ CursorHome(t)
<1>1. /\ t \in HubType /\ t.downs = {}
      /\ SameCursor(t, h) \/ CursorHome(t)
  BY SendIs, Zenon
<1> QED
  BY <1>1 DEF Homely, SameCursor, CursorHome

\* The part of a step that is the daemon's.
Settles == /\ hub' \in HubType /\ hub'.downs = {} /\ Homely(hub')
           /\ hub'.active = DragHub => hub'.hidden = FALSE \/ spoiled' = TRUE

\* Telling something from where the daemon is keeps it there.
LEMMA TellSettles ==
  ASSUME hub \in HubType, HomeFollows, spoiled' = spoiled,
         NEW to \in SUBSET DragClients, NEW m \in DragMsg,
         hub' = DR!Departures(DR!Tell(hub, to, m))
  PROVE  Settles
<1>1. /\ hub' \in HubType /\ hub'.downs = {} /\ Homely(hub')
      /\ SameCursor(hub', hub) \/ CursorHome(hub')
  BY SendHome, Zenon DEF HomeFollows
<1> QED
  BY <1>1 DEF HomeFollows, Settles, SameCursor, CursorHome

\* So does hearing something from it.
LEMMA HearSettles ==
  ASSUME hub \in HubType, HomeFollows, spoiled' = spoiled, NEW c \in DragClients,
         hub.out[c] # <<>>, DR!Heard(c)
  PROVE  /\ Settles
         /\ hub'.active = hub.active /\ hub'.attached = hub.attached
         /\ \A x \in DragClients : hub'.out[x] = IF x = c THEN Tail(hub.out[c]) ELSE hub.out[x]
<1>1. hub' = [hub EXCEPT !.out = [@ EXCEPT ![c] = Tail(hub.out[c])]]
  BY DEF DR!Heard, HubType
<1>2. hub.out[c] \in Seq(DragMsg)
  BY DEF HubType
<1>3. Tail(hub.out[c]) \in Seq(DragMsg)
  BY <1>2, TakeFirst
<1>4. hub' \in HubType
  BY <1>1, <1>3 DEF HubType
<1>5. /\ hub'.active = hub.active /\ hub'.attached = hub.attached
      /\ hub'.swallow = hub.swallow /\ hub'.hidden = hub.hidden
      /\ hub'.downs = hub.downs
      /\ hub'.out = [hub.out EXCEPT ![c] = Tail(hub.out[c])]
  BY <1>1 DEF HubType
<1>6. \A x \in DragClients : hub'.out[x] = IF x = c THEN Tail(hub.out[c]) ELSE hub.out[x]
  BY <1>5 DEF HubType
<1> QED
  BY <1>4, <1>5, <1>6 DEF HomeFollows, Homely, Settles

\* The hub as it leaves home.
LEMMA LeavesHome ==
  ASSUME hub \in HubType, HomeFollows, NEW c \in DragClients,
         NEW h, h = [hub EXCEPT !.active = c, !.swallow = TRUE], hub.active = DragHub
  PROVE  /\ h \in HubType /\ h.active = c /\ h.swallow = TRUE /\ h.hidden = hub.hidden
         /\ h.attached = hub.attached /\ h.out = hub.out /\ h.downs = {}
<1>1. c \in DR!Machines
  BY MachinesAre
<1> QED
  BY <1>1 DEF HubType, HomeFollows

\* The cursor at home, or on machine c and the input swallowed.
Midway(h, c) ==
  /\ h.active = DragHub \/ h.active = c
  /\ h.active = DragHub => h.swallow = FALSE
  /\ h.active # DragHub => h.swallow = TRUE

\* The pointer is shown if the cursor came home now, and did not before.
Shown(t, h, c) == t.active = DragHub => t.hidden = FALSE \/ h.active # c

\* The pointer is hidden.
Hides(h) == [h EXCEPT !.hidden = TRUE]

\* The last of a crossing: the pointer is hidden and the machine told, from where
\* picking up the drag left the cursor.
LEMMA GoesHome ==
  ASSUME NEW h1 \in HubType, NEW c \in DragClients, NEW b \in BOOLEAN,
         Midway(h1, c),
         NEW t, t = DR!Departures(DR!Tell(Hides(h1), {c}, DR!Enter(b)))
  PROVE  /\ t \in HubType /\ t.downs = {} /\ Homely(t)
         /\ Shown(t, h1, c)
<1>p. PICK g : g = Hides(h1)
  OBVIOUS
<1>1. g \in HubType /\ g.active = h1.active /\ g.swallow = h1.swallow /\ g.hidden = TRUE
  BY <1>p DEF HubType, Hides
<1>2. Homely(g)
  BY <1>1 DEF Homely, Midway
<1>3. DR!Enter(b) \in DragMsg
  BY MessagesAre
<1>4. t = DR!Departures(DR!Tell(g, {c}, DR!Enter(b)))
  BY <1>p
<1>5. /\ t \in HubType /\ t.downs = {} /\ Homely(t)
      /\ SameCursor(t, g) \/ CursorHome(t)
  BY <1>1, <1>2, <1>3, <1>4, SendHome, Zenon
<1>6. c # DragHub
  BY MachinesAre
<1> QED
  BY <1>1, <1>5, <1>6 DEF SameCursor, CursorHome, Midway, Shown

\* What a crossing makes of the drag that was looked for.
Looked(c, r, d) ==
  /\ DR!Costs(r, d)
  /\ carries' = IF r \in {"nothing", "unnoticed"} THEN carries
                ELSE [carries EXCEPT ![DragHub] = 0]
  /\ dropped' = IF r = "late" THEN dropped \cup {d} ELSE dropped
  /\ UNCHANGED <<client, up, closed, left, hold, holdOf, landed>>

\* The cursor as it leaves home, and with nothing picked up, or with a drag that is
\* offered to everyone and said to be under the pointer.
Leaving(h, c) == h = [hub EXCEPT !.active = c, !.swallow = TRUE]
Empty(c, r, h) ==
  /\ r \notin {"caught", "late"}
  /\ hub' = DR!Departures(DR!Tell(Hides(h), {c}, DR!Enter(left)))
  /\ UNCHANGED <<share, origin, spoiled>>
Unloads(h1, d, h2) ==
  /\ h1.active = DragHub => h2 = h1
  /\ h1.active # DragHub => h2 = DR!Departures(DR!Tell(h1, {h1.active}, DR!Carried(d)))
Laden(c, r, d, h, h1, h2) ==
  /\ r \in {"caught", "late"}
  /\ h1 = DR!Departures(DR!Tell(h, DragClients, DR!Offered(d)))
  /\ share' = [share EXCEPT ![DragHub].offer = d,
                            ![DragHub].pending = IF h1.active = DragHub THEN d ELSE @]
  /\ Unloads(h1, d, h2)
  /\ hub' = DR!Departures(DR!Tell(Hides(h2), {c}, DR!Enter(left)))
  /\ spoiled' = (spoiled \/ h2.active # c)
  /\ origin' = [origin EXCEPT ![d] = DragHub]

LEMMA CrossOutIs ==
  ASSUME NEW c \in DragClients, DR!CrossOut(c)
  PROVE  /\ hub.active = DragHub /\ c \in hub.attached
         /\ \E h : \E r \in DR!Catches(left, carries[DragHub]) :
              /\ Looked(c, r, carries[DragHub]) /\ Leaving(h, c)
              /\ \/ Empty(c, r, h)
                 \/ \E h1, h2 : Laden(c, r, carries[DragHub], h, h1, h2)
<1> DEFINE h == [hub EXCEPT !.active = c, !.swallow = TRUE]
           d == carries[DragHub]
           g1 == DR!SendBulk(h, DragClients, DR!Offered(d))
           g2 == IF g1.active = DragHub THEN g1 ELSE DR!PassOn(g1, DragHub, d)
<1>1. hub.active = DragHub /\ c \in hub.attached
  BY DEF DR!CrossOut
<1>2. PICK r \in DR!Catches(left, d) :
        /\ Looked(c, r, d)
        /\ IF r \in {"caught", "late"}
             THEN /\ \E h1 \in {g1} :
                       /\ share' = [share EXCEPT ![DragHub].offer = d,
                             ![DragHub].pending = IF h1.active = DragHub THEN d ELSE @]
                       /\ \E h2 \in {IF h1.active = DragHub THEN h1
                                                           ELSE DR!PassOn(h1, DragHub, d)} :
                            /\ hub' = DR!Departures(DR!Tell(Hides(h2),
                                                            {c}, DR!Enter(left)))
                            /\ spoiled' = (spoiled \/ h2.active # c)
                  /\ origin' = [origin EXCEPT ![d] = DragHub]
             ELSE /\ hub' = DR!Departures(DR!Tell(Hides(h),
                                                  {c}, DR!Enter(left)))
                  /\ UNCHANGED <<share, origin, spoiled>>
  BY DEF DR!CrossOut, Looked, Hides
<1>3. Leaving(h, c)
  BY DEF Leaving
<1>4. CASE r \notin {"caught", "late"}
  <2>1. Empty(c, r, h)
    BY <1>2, <1>4 DEF Empty
  <2> HIDE DEF h
  <2> QED
    BY <1>1, <1>2, <1>3, <2>1
<1>5. CASE r \in {"caught", "late"}
  <2>1. Laden(c, r, d, h, g1, g2)
    <3>1. g1 = DR!Departures(DR!Tell(h, DragClients, DR!Offered(d)))
      BY DEF DR!SendBulk
    <3>2. DR!PassOn(g1, DragHub, d) = DR!Departures(DR!Tell(g1, {g1.active}, DR!Carried(d)))
      BY DEF DR!SendBulk, DR!PassOn
    <3>3. /\ g1.active = DragHub => g2 = g1
          /\ g1.active # DragHub => g2 = DR!PassOn(g1, DragHub, d)
      OBVIOUS
    <3>4. /\ share' = [share EXCEPT ![DragHub].offer = d,
                        ![DragHub].pending = IF g1.active = DragHub THEN d ELSE @]
          /\ hub' = DR!Departures(DR!Tell(Hides(g2), {c}, DR!Enter(left)))
          /\ spoiled' = (spoiled \/ g2.active # c)
          /\ origin' = [origin EXCEPT ![d] = DragHub]
      <4> HIDE DEF g1
      <4> QED
        BY <1>2, <1>5
    <3> HIDE DEF g1, g2
    <3> QED
      BY <1>5, <3>1, <3>2, <3>3, <3>4 DEF Laden, Unloads
  <2> HIDE DEF h, g1, g2
  <2> QED
    BY <1>1, <1>2, <1>3, <2>1
<1> QED
  BY <1>4, <1>5

\* A drag is only caught where there is one.
LEMMA CaughtIsThere ==
  ASSUME NEW d, NEW pressed, NEW r \in DR!Catches(pressed, d)
  PROVE  /\ r # "nothing" => pressed /\ d # 0
         /\ pressed /\ d # 0 => r # "nothing"
         /\ r \in {"nothing", "caught", "unnoticed", "released", "late"}
BY DEF DR!Catches, DR!CatchXdnd, DR!CatchOle

\* Where picking up the drag leaves the cursor, in the middle of a crossing.
LEMMA MidCrossing ==
  ASSUME NEW h \in HubType, NEW c \in DragClients, NEW d \in DR!Drags,
         h.active = c, h.swallow = TRUE,
         NEW h1, NEW h2,
         h1 = DR!Departures(DR!Tell(h, DragClients, DR!Offered(d))),
         Unloads(h1, d, h2)
  PROVE  /\ h1 \in HubType /\ h2 \in HubType
         /\ h1.downs = {} /\ h2.downs = {}
         /\ h1.active \in {c, DragHub}
         /\ Midway(h2, c)
<1>1. c # DragHub /\ DR!Offered(d) \in DragMsg /\ DR!Carried(d) \in DragMsg
  BY MachinesAre, MessagesAre
<1>2. h1 \in HubType /\ h1.downs = {} /\ (SameCursor(h1, h) \/ CursorHome(h1))
  BY <1>1, SendIs
<1>3. h1.active = DragHub \/ h1.active = c
  BY <1>2 DEF SameCursor, CursorHome
<1>4. CASE h1.active = DragHub
  BY <1>1, <1>2, <1>3, <1>4 DEF SameCursor, CursorHome, Unloads, Midway
<1>5. CASE h1.active = c
  <2>1. h1.swallow = TRUE
    BY <1>1, <1>2, <1>5 DEF SameCursor, CursorHome
  <2>2. h2 = DR!Departures(DR!Tell(h1, {c}, DR!Carried(d)))
    BY <1>1, <1>5 DEF Unloads
  <2>3. h2 \in HubType /\ h2.downs = {} /\ (SameCursor(h2, h1) \/ CursorHome(h2))
    BY <1>1, <1>2, <2>2, SendIs
  <2> QED
    BY <1>1, <1>2, <1>5, <2>1, <2>3 DEF SameCursor, CursorHome, Midway
<1> QED
  BY <1>3, <1>4, <1>5

LEMMA CrossOutTyped ==
  ASSUME DragTypes, HomeFollows, NEW c \in DragClients, DR!CrossOut(c)
  PROVE  DragTypes' /\ HomeFollows'
<1> DEFINE d == carries[DragHub]
<1>1. PICK h : \E r \in DR!Catches(left, d) :
              /\ hub.active = DragHub
              /\ Looked(c, r, d) /\ Leaving(h, c)
              /\ Empty(c, r, h) \/ \E h1, h2 : Laden(c, r, d, h, h1, h2)
  BY CrossOutIs
<1>2. PICK r \in DR!Catches(left, d) :
              /\ hub.active = DragHub
              /\ Looked(c, r, d) /\ Leaving(h, c)
              /\ Empty(c, r, h) \/ \E h1, h2 : Laden(c, r, d, h, h1, h2)
  BY <1>1
<1>3. /\ h \in HubType /\ h.active = c /\ h.swallow = TRUE
      /\ h.hidden = hub.hidden /\ h.downs = {}
  BY <1>2, LeavesHome DEF Leaving, DragTypes
<1>4. DragHub \in DR!Machines /\ c # DragHub /\ left \in BOOLEAN /\ d \in 0 .. MaxDrags
  BY MachinesAre DEF DragTypes
<1>5. carries' \in [DR!Machines -> 0 .. MaxDrags]
  <2>1. 0 \in 0 .. MaxDrags
    BY DragAssumption
  <2> QED
    BY <1>2, <1>4, <2>1 DEF Looked, DragTypes
<1>6. client' \in [DragClients -> [acting : BOOLEAN, down : BOOLEAN]]
  BY <1>2 DEF Looked, DragTypes
<1>7. /\ up' \in [DragClients -> Seq(DragMsg)] /\ left' \in BOOLEAN
      /\ hold' \in Nat /\ holdOf' \in [DR!Drags -> Nat]
  BY <1>2 DEF Looked, DragTypes
<1>8. CASE Empty(c, r, h)
  <2>a. Midway(h, c)
    BY <1>3, <1>4 DEF Midway
  <2>b. hub' = DR!Departures(DR!Tell(Hides(h), {c}, DR!Enter(left)))
    BY <1>8 DEF Empty
  <2>1. /\ hub' \in HubType /\ hub'.downs = {} /\ Homely(hub')
        /\ Shown(hub', h, c)
    BY <1>3, <1>4, <2>a, <2>b, GoesHome
  <2>2. HomeFollows'
    BY <1>3, <2>1 DEF HomeFollows, Homely, Shown
  <2>3. share' \in [DR!Machines -> ShareType] /\ origin' \in [DR!Drags -> DR!Machines]
    BY <1>8 DEF Empty, DragTypes
  <2> QED
    BY <1>5, <1>6, <1>7, <2>1, <2>2, <2>3 DEF DragTypes
<1>9. CASE \E h1, h2 : Laden(c, r, d, h, h1, h2)
  <2>1. PICK h1, h2 : Laden(c, r, d, h, h1, h2)
    BY <1>9
  <2>2. d \in DR!Drags
    <3>1. r # "nothing"
      BY <2>1 DEF Laden
    <3> QED
      BY <1>4, <3>1, CaughtIsThere, MachinesAre
  <2>3. /\ h1 \in HubType /\ h2 \in HubType
        /\ Midway(h2, c)
    <3>1. /\ h1 = DR!Departures(DR!Tell(h, DragClients, DR!Offered(d)))
          /\ Unloads(h1, d, h2)
      BY <2>1 DEF Laden
    <3> HIDE DEF d
    <3> QED
      BY <1>3, <2>2, <3>1, MidCrossing
  <2>b. hub' = DR!Departures(DR!Tell(Hides(h2), {c}, DR!Enter(left)))
    BY <2>1 DEF Laden
  <2>4. /\ hub' \in HubType /\ hub'.downs = {} /\ Homely(hub')
        /\ Shown(hub', h2, c)
    BY <1>4, <2>3, <2>b, GoesHome
  <2>5. h2.active # c => spoiled' = TRUE
    BY <2>1 DEF Laden
  <2>6. HomeFollows'
    BY <2>4, <2>5 DEF HomeFollows, Homely, Shown
  <2>7. share' \in [DR!Machines -> ShareType]
    <3>1. PICK p \in 0 .. MaxDrags : p = IF h1.active = DragHub THEN d ELSE share[DragHub].pending
      BY <1>4 DEF DragTypes, ShareType
    <3>2. share' = [share EXCEPT ![DragHub] = [@ EXCEPT !.offer = d, !.pending = p]]
      BY <1>4, <2>1, <3>1 DEF Laden, DragTypes, ShareType
    <3> QED
      BY <1>4, <3>2 DEF DragTypes, ShareType
  <2>8. origin' \in [DR!Drags -> DR!Machines]
    BY <1>4, <2>1 DEF Laden, DragTypes
  <2> QED
    BY <1>5, <1>6, <1>7, <2>4, <2>6, <2>7, <2>8 DEF DragTypes
<1> QED
  BY <1>2, <1>8, <1>9

\* The daemon's part of the step is done, and what is not the daemon's is typed.
LEMMA SettledTyped ==
  ASSUME DragTypes, Settles,
         share' \in [DR!Machines -> ShareType],
         client' \in [DragClients -> [acting : BOOLEAN, down : BOOLEAN]],
         up' \in [DragClients -> Seq(DragMsg)],
         carries' \in [DR!Machines -> 0 .. MaxDrags],
         left' \in BOOLEAN, hold' \in Nat,
         holdOf' \in [DR!Drags -> Nat], origin' \in [DR!Drags -> DR!Machines]
  PROVE  DragTypes' /\ HomeFollows'
BY DEF DragTypes, HomeFollows, Settles, Homely

\* A machine that drops what it carries.
LEMMA DropsTyped ==
  ASSUME DragTypes, NEW m \in DR!Machines
  PROVE  [carries EXCEPT ![m] = 0] \in [DR!Machines -> 0 .. MaxDrags]
<1>1. 0 \in 0 .. MaxDrags
  BY DragAssumption
<1> QED
  BY <1>1 DEF DragTypes

LEMMA HandTyped ==
  ASSUME DragTypes, HomeFollows, DR!PressLeft \/ DR!LetGoLeft
  PROVE  DragTypes' /\ HomeFollows'
<1>1. (hub.active \in DR!Machines) /\ {hub.active} \ {DragHub} \in SUBSET DragClients
  BY MachinesAre DEF DragTypes, HubType
<1>2. DR!Button(TRUE) \in DragMsg /\ DR!Button(FALSE) \in DragMsg
  BY MessagesAre
<1>3. DragHub \in DR!Machines /\ hub \in HubType
  BY MachinesAre DEF DragTypes
<1>4. CASE DR!PressLeft
  <2>1. Settles
    BY <1>1, <1>2, <1>3, <1>4, TellSettles DEF DR!PressLeft, DR!happened
  <2>2. left' = TRUE /\ hold' = hold + 1
        /\ UNCHANGED <<share, client, up, carries, holdOf, origin>>
    BY <1>4 DEF DR!PressLeft, DR!happened
  <2> QED
    BY <2>1, <2>2, SettledTyped DEF DragTypes
<1>5. CASE DR!LetGoLeft
  <2>1. Settles
    BY <1>1, <1>2, <1>3, <1>5, TellSettles DEF DR!LetGoLeft
  <2>2. left' = FALSE /\ UNCHANGED <<share, client, up, hold, holdOf, origin>>
    BY <1>5 DEF DR!LetGoLeft
  <2>3. carries' = carries \/ carries' = [carries EXCEPT ![DragHub] = 0]
    BY <1>5 DEF DR!LetGoLeft
  <2>4. carries' \in [DR!Machines -> 0 .. MaxDrags]
    <3>1. [carries EXCEPT ![DragHub] = 0] \in [DR!Machines -> 0 .. MaxDrags]
      BY <1>3, DropsTyped
    <3> QED
      BY <2>3, <3>1 DEF DragTypes
  <2> QED
    BY <2>1, <2>2, <2>4, SettledTyped DEF DragTypes
<1> QED
  BY <1>4, <1>5

LEMMA BeginTyped ==
  ASSUME DragTypes, HomeFollows, NEW m \in DR!Machines, DR!BeginDrag(m)
  PROVE  DragTypes' /\ HomeFollows'
<1>1. PICK d \in DR!Drags : /\ carries' = [carries EXCEPT ![m] = d]
                            /\ holdOf' = [holdOf EXCEPT ![d] = hold]
  BY DEF DR!BeginDrag
<1>2. UNCHANGED <<hub, share, client, up, left, hold, origin, spoiled>>
  BY DEF DR!BeginDrag
<1>3. d \in 0 .. MaxDrags
  BY MachinesAre
<1>4. carries' \in [DR!Machines -> 0 .. MaxDrags] /\ holdOf' \in [DR!Drags -> Nat]
  BY <1>1, <1>3 DEF DragTypes
<1>5. Settles
  BY <1>2 DEF Settles, DragTypes, HomeFollows
<1> QED
  BY <1>2, <1>4, <1>5, SettledTyped DEF DragTypes

LEMMA CrossHomeTyped ==
  ASSUME DragTypes, HomeFollows, DR!CrossHome
  PROVE  DragTypes' /\ HomeFollows'
<1>p. PICK h : h = DR!RecallCursor(hub)
  OBVIOUS
<1>1. /\ h \in HubType /\ h.active = DragHub /\ h.swallow = FALSE /\ h.hidden = FALSE
  BY <1>p, RecallIs DEF DragTypes
<1>2. Homely(h)
  BY <1>1 DEF Homely
<1>3. {hub.active} \in SUBSET DragClients
  BY MachinesAre DEF DragTypes, HubType, DR!CrossHome
<1>4. hub' = DR!Departures(DR!Tell(h, {hub.active}, DR!Leave))
  BY <1>p DEF DR!CrossHome
<1>5. /\ hub' \in HubType /\ hub'.downs = {} /\ Homely(hub')
      /\ SameCursor(hub', h) \/ CursorHome(hub')
  BY <1>1, <1>2, <1>3, <1>4, SendHome, MessagesAre
<1>6. Settles
  BY <1>1, <1>5 DEF Settles, SameCursor, CursorHome
<1> QED
  BY <1>6, SettledTyped DEF DragTypes, DR!CrossHome, DR!happened

LEMMA CrossOverTyped ==
  ASSUME DragTypes, HomeFollows, NEW c \in DragClients, DR!CrossOver(c)
  PROVE  DragTypes' /\ HomeFollows'
<1>p. PICK h : h = [hub EXCEPT !.active = c]
  OBVIOUS
<1>t. PICK to : to = {hub.active}
  OBVIOUS
<1>q. PICK g : g = DR!Tell(h, to, DR!Leave)
  OBVIOUS
<1>0. c \in DR!Machines /\ c # DragHub /\ hub.active # DragHub
  BY MachinesAre DEF DR!CrossOver
<1>1. h \in HubType /\ h.active = c /\ h.swallow = hub.swallow /\ h.hidden = hub.hidden
  BY <1>0, <1>p DEF DragTypes, HubType
<1>2. to \in SUBSET DragClients /\ {c} \in SUBSET DragClients
  BY <1>t, MachinesAre DEF DragTypes, HubType, DR!CrossOver
<1>3. g \in HubType /\ g.active = h.active /\ g.swallow = h.swallow /\ g.hidden = h.hidden
  <2>1. DR!Leave \in DragMsg
    BY MessagesAre
  <2>2. h \in HubType
    BY <1>1
  <2>3. g.active = h.active /\ g.swallow = h.swallow /\ g.hidden = h.hidden
    BY <1>2, <1>q, <2>1, <2>2, TellIs
  <2>4. g \in HubType
    BY <1>2, <1>q, <2>1, <2>2, TellIs
  <2> QED
    BY <2>3, <2>4
<1>4. Homely(g)
  BY <1>0, <1>1, <1>3 DEF Homely, HomeFollows
<1>5. hub' = DR!Departures(DR!Tell(g, {c}, DR!Enter(left)))
  BY <1>p, <1>q, <1>t DEF DR!CrossOver
<1>6. /\ hub' \in HubType /\ hub'.downs = {} /\ Homely(hub')
      /\ SameCursor(hub', g) \/ CursorHome(hub')
  <2>1. DR!Enter(left) \in DragMsg
    BY MessagesAre DEF DragTypes
  <2> QED
    BY <1>2, <1>3, <1>4, <1>5, <2>1, SendHome
<1>7. Settles
  BY <1>0, <1>1, <1>3, <1>6 DEF Settles, SameCursor, CursorHome
<1> QED
  BY <1>7, SettledTyped DEF DragTypes, DR!CrossOver, DR!happened

LEMMA HearTyped ==
  ASSUME DragTypes, HomeFollows, NEW c \in DragClients, hub.out[c] # <<>>,
         DR!HearEnter(c) \/ DR!HearButton(c) \/ DR!HearLeave(c) \/ DR!HearBulk(c)
  PROVE  DragTypes' /\ HomeFollows'
<1>1. DR!Heard(c) /\ spoiled' = spoiled
  BY DEF DR!HearEnter, DR!HearButton, DR!HearLeave, DR!HearBulk, DR!happened
<1>2. Settles
  BY <1>1, HearSettles DEF DragTypes
<1>m. PICK msg : msg = Head(hub.out[c])
  OBVIOUS
<1>3. /\ c \in DR!Machines /\ msg \in DragMsg
  BY <1>m, MachinesAre, TakeFirst DEF DragTypes, HubType
<1>4. [carries EXCEPT ![c] = 0] \in [DR!Machines -> 0 .. MaxDrags]
  BY <1>3, DropsTyped
<1>5. CASE DR!HearEnter(c)
  <2>1. client' = [client EXCEPT ![c] = [acting |-> TRUE, down |-> msg.left]]
    BY <1>m, <1>5 DEF DR!HearEnter
  <2>2. client' \in [DragClients -> [acting : BOOLEAN, down : BOOLEAN]]
    BY <1>3, <2>1, NamesADrag DEF DragTypes
  <2>3. UNCHANGED <<share, up, carries, left, hold, holdOf, origin>>
    BY <1>5 DEF DR!HearEnter, DR!happened
  <2> QED
    BY <1>2, <2>2, <2>3, SettledTyped DEF DragTypes
<1>6. CASE DR!HearButton(c)
  <2>1. client' = [client EXCEPT ![c] = [@ EXCEPT !.down = msg.left]]
    BY <1>m, <1>6 DEF DR!HearButton, DragTypes
  <2>2. client' \in [DragClients -> [acting : BOOLEAN, down : BOOLEAN]]
    BY <1>3, <2>1, NamesADrag DEF DragTypes
  <2>3. carries' \in [DR!Machines -> 0 .. MaxDrags]
    BY <1>4, <1>6 DEF DR!HearButton, DragTypes
  <2>4. UNCHANGED <<share, up, left, hold, holdOf, origin>>
    BY <1>6 DEF DR!HearButton
  <2> QED
    BY <1>2, <2>2, <2>3, <2>4, SettledTyped DEF DragTypes
<1>7. CASE DR!HearLeave(c)
  <2>1. client' = [client EXCEPT ![c] = [acting |-> FALSE, down |-> FALSE]]
    BY <1>7 DEF DR!HearLeave
  <2>2. client' \in [DragClients -> [acting : BOOLEAN, down : BOOLEAN]]
    BY <2>1 DEF DragTypes
  <2>3. carries' \in [DR!Machines -> 0 .. MaxDrags]
    BY <1>4, <1>7 DEF DR!HearLeave
  <2>4. PICK d : d = carries[c]
    OBVIOUS
  <2>5. PICK r \in DR!Catches(client[c].down, d) :
          IF r \in {"caught", "late"}
            THEN /\ share' = [share EXCEPT ![c].offer = d]
                 /\ up' = [up EXCEPT ![c] = @ \o <<DR!Offered(d), DR!Carried(d)>>]
                 /\ origin' = [origin EXCEPT ![d] = c]
            ELSE UNCHANGED <<share, up, origin>>
    BY <1>7, <2>4 DEF DR!HearLeave
  <2>6. /\ share' \in [DR!Machines -> ShareType] /\ up' \in [DragClients -> Seq(DragMsg)]
        /\ origin' \in [DR!Drags -> DR!Machines]
    <3>1. CASE r \in {"caught", "late"}
      <4>1. d \in DR!Drags /\ d \in 0 .. MaxDrags
        BY <1>3, <2>4, <2>5, <3>1, CaughtIsThere, MachinesAre DEF DragTypes
      <4>2. DR!Offered(d) \in DragMsg /\ DR!Carried(d) \in DragMsg
        BY <4>1, MessagesAre
      <4>3. up[c] \o <<DR!Offered(d), DR!Carried(d)>> \in Seq(DragMsg)
        BY <4>2 DEF DragTypes
      <4>4. share' \in [DR!Machines -> ShareType]
        <5>1. share' = [share EXCEPT ![c] = [@ EXCEPT !.offer = d]]
          BY <2>5, <3>1
        <5> QED
          BY <1>3, <4>1, <5>1 DEF DragTypes, ShareType
      <4>5. origin' \in [DR!Drags -> DR!Machines]
        BY <1>3, <2>5, <3>1, <4>1 DEF DragTypes
      <4>6. up' \in [DragClients -> Seq(DragMsg)]
        BY <2>5, <3>1, <4>3 DEF DragTypes
      <4> QED
        BY <4>4, <4>5, <4>6
    <3>2. CASE r \notin {"caught", "late"}
      BY <2>5, <3>2 DEF DragTypes
    <3> QED
      BY <3>1, <3>2
  <2>7. UNCHANGED <<left, hold, holdOf>>
    BY <1>7 DEF DR!HearLeave
  <2> QED
    BY <1>2, <2>2, <2>3, <2>6, <2>7, SettledTyped DEF DragTypes
<1>8. CASE DR!HearBulk(c)
  <2>1. \/ msg.kind = "Offer" /\ share' = DR!TakeOffer(c, share, msg.drag)
        \/ msg.kind = "Dragging" /\ share' = DR!DropHere(c, share, msg.drag)
    BY <1>m, <1>8 DEF DR!HearBulk
  <2>2. msg.drag \in DR!Drags
    BY <1>3, <2>1, NamesADrag
  <2>3. share' \in [DR!Machines -> ShareType]
    <3>1. CASE share' = DR!TakeOffer(c, share, msg.drag)
      BY <1>3, <2>2, <3>1, TakeOfferIs DEF DragTypes
    <3>2. CASE share' = DR!DropHere(c, share, msg.drag)
      BY <1>3, <2>2, <3>2, DropHereIs DEF DragTypes
    <3> QED
      BY <2>1, <3>1, <3>2
  <2>4. UNCHANGED <<client, up, carries, left, hold, holdOf, origin>>
    BY <1>8 DEF DR!HearBulk, DR!happened
  <2> QED
    BY <1>2, <2>3, <2>4, SettledTyped DEF DragTypes
<1> QED
  BY <1>5, <1>6, <1>7, <1>8

LEMMA HubHearsTyped ==
  ASSUME DragTypes, HomeFollows, NEW c \in DragClients, up[c] # <<>>,
         DR!HubTakesOffer(c) \/ DR!HubHearsDragging(c)
  PROVE  DragTypes' /\ HomeFollows'
<1>m. PICK msg : msg = Head(up[c])
  OBVIOUS
<1>1. msg \in DragMsg /\ Tail(up[c]) \in Seq(DragMsg)
  BY <1>m, TakeFirst DEF DragTypes
<1>2. msg.kind = "Offer" \/ msg.kind = "Dragging"
  BY <1>m DEF DR!HubTakesOffer, DR!HubHearsDragging
<1>d. PICK d \in DR!Drags : d = msg.drag
  BY <1>1, <1>2, NamesADrag
<1>3. up' \in [DragClients -> Seq(DragMsg)]
  BY <1>1 DEF DR!HubTakesOffer, DR!HubHearsDragging, DragTypes
<1>4. UNCHANGED <<client, carries, left, hold, holdOf, origin, spoiled>>
  BY DEF DR!HubTakesOffer, DR!HubHearsDragging, DR!happened
<1>5. DragHub \in DR!Machines
  BY MachinesAre
<1>6. CASE DR!HubTakesOffer(c)
  <2>1. share' = DR!TakeOffer(DragHub, share, d)
    BY <1>6, <1>m, <1>d DEF DR!HubTakesOffer
  <2>2. share' \in [DR!Machines -> ShareType]
    BY <1>5, <2>1, TakeOfferIs DEF DragTypes
  <2>3. hub' = DR!Departures(DR!Tell(hub, DragClients \ {c}, DR!Offered(d)))
    BY <1>6, <1>m, <1>d DEF DR!HubTakesOffer, DR!SendBulk
  <2>4. Settles
    BY <1>4, <2>3, MessagesAre, TellSettles DEF DragTypes
  <2> QED
    BY <1>3, <1>4, <2>2, <2>4, SettledTyped DEF DragTypes
<1>7. CASE DR!HubHearsDragging(c)
  <2>1. CASE hub.active = DragHub
    <3>1. share' = DR!DropHere(DragHub, share, d) /\ UNCHANGED hub
      BY <1>7, <1>m, <1>d, <2>1 DEF DR!HubHearsDragging
    <3>2. share' \in [DR!Machines -> ShareType]
      BY <1>5, <3>1, DropHereIs DEF DragTypes
    <3>3. Settles
      BY <1>4, <3>1 DEF Settles, DragTypes, HomeFollows
    <3> QED
      BY <1>3, <1>4, <3>2, <3>3, SettledTyped DEF DragTypes
  <2>2. CASE hub.active # DragHub
    <3>1. /\ hub' = DR!Departures(DR!Tell(hub, {hub.active}, DR!Carried(d)))
          /\ UNCHANGED share
      BY <1>7, <1>m, <1>d, <2>2 DEF DR!HubHearsDragging, DR!PassOn, DR!SendBulk
    <3>2. {hub.active} \in SUBSET DragClients
      BY <2>2, MachinesAre DEF DragTypes, HubType
    <3>3. Settles
      BY <1>4, <3>1, <3>2, MessagesAre, TellSettles DEF DragTypes
    <3> QED
      BY <1>3, <1>4, <3>1, <3>3, SettledTyped DEF DragTypes
  <2> QED
    BY <2>1, <2>2
<1> QED
  BY <1>6, <1>7

LEMMA FilesTyped ==
  ASSUME DragTypes, HomeFollows, NEW m \in DR!Machines, DR!Land(m) \/ DR!PullFails(m)
  PROVE  DragTypes' /\ HomeFollows'
<1>1. share' = [share EXCEPT ![m] = [@ EXCEPT !.pulling = 0]]
  BY DEF DR!Land, DR!PullFails
<1>2. 0 \in 0 .. MaxDrags
  BY DragAssumption
<1>3. share' \in [DR!Machines -> ShareType]
  BY <1>1, <1>2 DEF DragTypes, ShareType
<1>4. share[m].pulling \in 0 .. MaxDrags
  BY DEF DragTypes, ShareType
<1>5. carries' \in {carries, [carries EXCEPT ![m] = share[m].pulling]}
  BY DEF DR!Land, DR!PullFails, DR!NativeDrop
<1>6. carries' \in [DR!Machines -> 0 .. MaxDrags]
  BY <1>4, <1>5 DEF DragTypes
<1>7. UNCHANGED <<hub, client, up, left, hold, holdOf, origin, spoiled>>
  BY DEF DR!Land, DR!PullFails, DR!happened
<1>8. Settles
  BY <1>7 DEF Settles, DragTypes, HomeFollows
<1> QED
  BY <1>3, <1>6, <1>7, <1>8, SettledTyped DEF DragTypes

LEMMA LinkTyped ==
  ASSUME DragTypes, HomeFollows, NEW c \in DragClients,
         DR!Cut(c) \/ DR!Gone(c) \/ DR!Detached(c)
  PROVE  DragTypes' /\ HomeFollows'
<1>0. c \in DR!Machines /\ <<>> \in Seq(DragMsg)
  BY MachinesAre
<1>1. UNCHANGED <<share, left, hold, holdOf, origin, spoiled>>
  BY DEF DR!Cut, DR!Gone, DR!Detached, DR!happened
<1>2. carries' = carries \/ carries' = [carries EXCEPT ![c] = 0]
  BY DEF DR!Cut, DR!Gone, DR!Detached
<1>3. carries' \in [DR!Machines -> 0 .. MaxDrags]
  <2>1. [carries EXCEPT ![c] = 0] \in [DR!Machines -> 0 .. MaxDrags]
    BY <1>0, DropsTyped
  <2> QED
    BY <1>2, <2>1 DEF DragTypes
<1>4. up' = up \/ up' = [up EXCEPT ![c] = <<>>]
  BY DEF DR!Cut, DR!Gone, DR!Detached
<1>5. up' \in [DragClients -> Seq(DragMsg)]
  BY <1>0, <1>4 DEF DragTypes
<1>6. client' = client \/ client' = [client EXCEPT ![c] = [acting |-> FALSE, down |-> FALSE]]
  BY DEF DR!Cut, DR!Gone, DR!Detached
<1>7. client' \in [DragClients -> [acting : BOOLEAN, down : BOOLEAN]]
  <2>1. [client EXCEPT ![c] = [acting |-> FALSE, down |-> FALSE]]
          \in [DragClients -> [acting : BOOLEAN, down : BOOLEAN]]
    BY DEF DragTypes
  <2>2. client \in [DragClients -> [acting : BOOLEAN, down : BOOLEAN]]
    BY DEF DragTypes
  <2> QED
    BY <1>6, <2>1, <2>2, Zenon
<1>8. Settles
  <2>1. CASE DR!Cut(c)
    <3>1. hub' = [hub EXCEPT !.out = [@ EXCEPT ![c] = <<>>]]
      BY <2>1 DEF DR!Cut
    <3>2. hub' \in HubType
      BY <1>0, <3>1 DEF DragTypes, HubType
    <3>3. /\ hub'.active = hub.active /\ hub'.swallow = hub.swallow
          /\ hub'.hidden = hub.hidden /\ hub'.downs = hub.downs
      BY <3>1 DEF DragTypes, HubType
    <3> QED
      BY <1>1, <3>2, <3>3 DEF Settles, HomeFollows, Homely
  <2>2. CASE DR!Gone(c)
    <3>p. PICK h : h = [hub EXCEPT !.attached = @ \ {c}, !.downs = {c},
                                   !.out = [@ EXCEPT ![c] = <<>>]]
      OBVIOUS
    <3>1. h \in HubType
      BY <1>0, <3>p DEF DragTypes, HubType
    <3>2. h.active = hub.active /\ h.swallow = hub.swallow /\ h.hidden = hub.hidden
      BY <3>p DEF DragTypes, HubType
    <3>3. hub' = DR!Departures(h)
      BY <2>2, <3>p DEF DR!Gone
    <3>4. hub' \in HubType /\ hub'.downs = {}
      BY <3>1, <3>3, DeparturesIs
    <3>5. CASE h.active \in h.downs
      <4>1. hub'.active = DragHub /\ hub'.swallow = FALSE /\ hub'.hidden = FALSE
        BY <3>1, <3>3, <3>5, DeparturesIs
      <4> QED
        BY <3>4, <4>1 DEF Settles, Homely
    <3>6. CASE h.active \notin h.downs
      <4>1. hub'.active = h.active /\ hub'.swallow = h.swallow /\ hub'.hidden = h.hidden
        BY <3>1, <3>3, <3>6, DeparturesIs
      <4> QED
        BY <1>1, <3>2, <3>4, <4>1 DEF Settles, Homely, HomeFollows
    <3> QED
      BY <3>5, <3>6
  <2>3. CASE DR!Detached(c)
    BY <1>1, <2>3 DEF Settles, DragTypes, HomeFollows, DR!Detached
  <2> QED
    BY <2>1, <2>2, <2>3
<1> QED
  BY <1>1, <1>3, <1>5, <1>7, <1>8, SettledTyped DEF DragTypes

\* No step breaks a type, or the pointer at home.
LEMMA DragStepTyped ==
  ASSUME DragTypes, HomeFollows, [DR!Next]_DR!vars
  PROVE  DragTypes' /\ HomeFollows'
<1>1. CASE DR!PressLeft \/ DR!LetGoLeft
  BY <1>1, HandTyped
<1>2. CASE DR!CrossHome
  BY <1>2, CrossHomeTyped
<1>3. ASSUME NEW m \in DR!Machines, DR!BeginDrag(m) \/ DR!Land(m) \/ DR!PullFails(m)
      PROVE  DragTypes' /\ HomeFollows'
  BY <1>3, BeginTyped, FilesTyped
<1>4. ASSUME NEW c \in DragClients, DR!CrossOut(c) \/ DR!CrossOver(c) \/ DR!Cut(c)
                                    \/ DR!Gone(c) \/ DR!Detached(c)
      PROVE  DragTypes' /\ HomeFollows'
  BY <1>4, CrossOutTyped, CrossOverTyped, LinkTyped
<1>5. ASSUME NEW c \in DragClients, DR!ClientHears(c) \/ DR!HubHears(c)
      PROVE  DragTypes' /\ HomeFollows'
  BY <1>5, HearTyped, HubHearsTyped DEF DR!ClientHears, DR!HubHears
<1>6. CASE UNCHANGED DR!vars
  BY <1>6 DEF DR!vars, DR!happened, DragTypes, HomeFollows
<1> QED
  BY <1>1, <1>2, <1>3, <1>4, <1>5, <1>6 DEF DR!Next

-----------------------------------------------------------------------------
(* What each step says to whom, while every link holds.                    *)

\* Nobody was lost by telling something if nobody is lost after it.
LEMMA AllStay ==
  ASSUME NEW h \in HubType, NEW to \in SUBSET DragClients, NEW m \in DragMsg,
         NEW t, t = DR!Departures(DR!Tell(h, to, m)), t.attached = DragClients
  PROVE  h.attached = DragClients
<1>1. t.attached \subseteq h.attached
  BY SendIs
<1> QED
  BY <1>1 DEF HubType

LEMMA HandTells ==
  ASSUME DragTypes, HomeFollows, Whole', NEW b \in BOOLEAN, closed' = closed,
         hub' = DR!Departures(DR!Tell(hub, {hub.active} \ {DragHub}, DR!Button(b)))
  PROVE  /\ Whole /\ hub'.active = hub.active
         /\ Hear(hub.out, {hub.active}, DR!Button(b), hub'.out)
<1>t. PICK to : to = {hub.active} \ {DragHub}
  OBVIOUS
<1>m. PICK m : m = DR!Button(b)
  OBVIOUS
<1>1. /\ to \in SUBSET DragClients /\ hub \in HubType
      /\ \A c \in DragClients : c \in to <=> c = hub.active
  BY <1>t, MachinesAre DEF DragTypes, HubType
<1>2. m \in DragMsg
  BY <1>m, MessagesAre
<1>3. /\ hub' = DR!Departures(DR!Tell(hub, to, m)) /\ hub.downs = {}
      /\ hub'.attached = DragClients
  BY <1>t, <1>m DEF HomeFollows, Whole
<1>4. /\ hub.attached = DragClients
      /\ hub'.active = hub.active
      /\ Hear(hub.out, to, m, hub'.out)
  BY <1>1, <1>2, <1>3, SendsAll
<1> QED
  BY <1>1, <1>4, <1>m DEF Whole, Hear

LEMMA CrossHomeTells ==
  ASSUME DragTypes, HomeFollows, Whole', DR!CrossHome
  PROVE  /\ Whole /\ hub.active \in DragClients /\ hub'.active = DragHub
         /\ Hear(hub.out, {hub.active}, DR!Leave, hub'.out)
<1>t. PICK to : to = {hub.active}
  OBVIOUS
<1>m. PICK m : m = DR!Leave
  OBVIOUS
<1>h. PICK h : h = DR!RecallCursor(hub)
  OBVIOUS
<1>1. /\ to \in SUBSET DragClients /\ hub.active \in DragClients
  BY <1>t, MachinesAre DEF DragTypes, HubType, DR!CrossHome
<1>2. m \in DragMsg
  BY <1>m, MessagesAre
<1>3. /\ h \in HubType /\ h.active = DragHub /\ h.attached = hub.attached
      /\ h.out = hub.out /\ h.downs = {}
  BY <1>h, RecallIs DEF DragTypes, HomeFollows
<1>4. /\ hub' = DR!Departures(DR!Tell(h, to, m)) /\ hub'.attached = DragClients
  BY <1>t, <1>m, <1>h DEF Whole, DR!CrossHome
<1>5. /\ h.attached = DragClients
      /\ hub'.active = h.active
      /\ Hear(h.out, to, m, hub'.out)
  BY <1>1, <1>2, <1>3, <1>4, SendsAll
<1> QED
  BY <1>1, <1>3, <1>5, <1>m, <1>t DEF Whole, DR!CrossHome, Hear

LEMMA CrossOverTells ==
  ASSUME DragTypes, HomeFollows, Whole', NEW c \in DragClients, DR!CrossOver(c)
  PROVE  /\ Whole /\ hub.active \in DragClients /\ hub.active # c /\ hub'.active = c
         /\ hub'.out[hub.active] = Append(hub.out[hub.active], DR!Leave)
         /\ hub'.out[c] = Append(hub.out[c], DR!Enter(left))
         /\ \A x \in DragClients : x # c /\ x # hub.active => hub'.out[x] = hub.out[x]
<1>t. PICK to : to = {hub.active}
  OBVIOUS
<1>tc. PICK tc : tc = {c}
  OBVIOUS
<1>m. PICK m : m = DR!Leave
  OBVIOUS
<1>mc. PICK mc : mc = DR!Enter(left)
  OBVIOUS
<1>h. PICK h : h = [hub EXCEPT !.active = c]
  OBVIOUS
<1>g. PICK g : g = DR!Tell(h, to, m)
  OBVIOUS
<1>1. /\ to \in SUBSET DragClients /\ hub.active \in DragClients /\ tc \in SUBSET DragClients
      /\ hub.active # c
  BY <1>t, <1>tc, MachinesAre DEF DragTypes, HubType, DR!CrossOver
<1>2. m \in DragMsg
  BY <1>m, MessagesAre
<1>3. mc \in DragMsg
  BY <1>mc, MessagesAre DEF DragTypes
<1>4. /\ h \in HubType /\ h.active = c /\ h.attached = hub.attached
      /\ h.out = hub.out /\ h.downs = {}
  BY <1>1, <1>h, MachinesAre DEF DragTypes, HomeFollows, HubType
<1>5. hub' = DR!Departures(DR!Tell(g, tc, mc)) /\ hub'.attached = DragClients
  BY <1>t, <1>tc, <1>m, <1>mc, <1>h, <1>g DEF Whole, DR!CrossOver
<1>6. g \in HubType
  BY <1>1, <1>2, <1>4, <1>g, TellIs
<1>7. g.attached = DragClients
  BY <1>1, <1>3, <1>5, <1>6, AllStay
<1>8. /\ g.downs = h.downs /\ h.attached = DragClients
      /\ Hear(h.out, to, m, g.out)
  BY <1>1, <1>2, <1>4, <1>7, <1>g, TellsAll
<1>9. g.active = c
  BY <1>1, <1>2, <1>4, <1>g, TellIs
<1>10. /\ hub'.active = g.active
       /\ Hear(g.out, tc, mc, hub'.out)
  BY <1>1, <1>3, <1>4, <1>5, <1>6, <1>8, SendsAll
<1>11. \A x \in DragClients : g.out[x] = IF x \in to THEN Append(h.out[x], m) ELSE h.out[x]
  BY <1>8 DEF Hear
<1>12. \A x \in DragClients :
         hub'.out[x] = IF x \in tc THEN Append(g.out[x], mc) ELSE g.out[x]
  BY <1>10 DEF Hear
<1>13. Whole
  BY <1>4, <1>8 DEF Whole, DR!CrossOver
<1>14. hub'.out[hub.active] = Append(hub.out[hub.active], DR!Leave)
  BY <1>1, <1>4, <1>11, <1>12, <1>m, <1>t, <1>tc
<1>15. hub'.out[c] = Append(hub.out[c], DR!Enter(left))
  BY <1>1, <1>4, <1>11, <1>12, <1>mc, <1>t, <1>tc
<1>16. \A x \in DragClients : x # c /\ x # hub.active => hub'.out[x] = hub.out[x]
  BY <1>4, <1>11, <1>12, <1>t, <1>tc
<1> QED
  BY <1>1, <1>9, <1>10, <1>13, <1>14, <1>15, <1>16

\* The end of a crossing, when nobody was lost before or in it.
LEMMA GoesTells ==
  ASSUME NEW h \in HubType, h.downs = {}, NEW c \in DragClients, NEW b \in BOOLEAN,
         NEW t, t = DR!Departures(DR!Tell(Hides(h), {c}, DR!Enter(b))),
         t.attached = DragClients
  PROVE  /\ h.attached = DragClients /\ t.active = h.active
         /\ Hear(h.out, {c}, DR!Enter(b), t.out)
<1>tc. PICK tc \in SUBSET DragClients : tc = {c}
  OBVIOUS
<1>m. PICK m : m = DR!Enter(b)
  OBVIOUS
<1>g. PICK g : g = Hides(h)
  OBVIOUS
<1>1. m \in DragMsg
  BY <1>m, MessagesAre
<1>2. /\ g \in HubType /\ g.downs = {} /\ g.active = h.active /\ g.out = h.out
      /\ g.attached = h.attached
  BY <1>g DEF Hides, HubType
<1>3. t = DR!Departures(DR!Tell(g, tc, m))
  BY <1>tc, <1>m, <1>g
<1>4. /\ g.attached = DragClients /\ t.active = g.active
      /\ Hear(g.out, tc, m, t.out)
  BY <1>1, <1>2, <1>3, SendsAll
<1> QED
  BY <1>2, <1>4, <1>m, <1>tc DEF Hear

LEMMA EmptyTells ==
  ASSUME DragTypes, HomeFollows, Whole', NEW c \in DragClients, NEW h, Leaving(h, c),
         hub.active = DragHub, NEW r, Empty(c, r, h), closed' = closed
  PROVE  /\ Whole /\ hub'.active = c
         /\ Hear(hub.out, {c}, DR!Enter(left), hub'.out)
<1>1. /\ h \in HubType /\ h.active = c /\ h.out = hub.out /\ h.downs = {}
      /\ h.attached = hub.attached
  BY LeavesHome DEF Leaving, DragTypes
<1>2. hub' = DR!Departures(DR!Tell(Hides(h), {c}, DR!Enter(left)))
  BY DEF Empty
<1>b. PICK b \in BOOLEAN : b = left
  BY DEF DragTypes
<1>3. hub' = DR!Departures(DR!Tell(Hides(h), {c}, DR!Enter(b))) /\ hub'.attached = DragClients
  BY <1>2, <1>b DEF Whole
<1>4. /\ h.attached = DragClients /\ hub'.active = h.active
      /\ Hear(h.out, {c}, DR!Enter(b), hub'.out)
  BY <1>1, <1>3, GoesTells
<1> QED
  BY <1>1, <1>4, <1>b DEF Whole

LEMMA LadenTells ==
  ASSUME DragTypes, HomeFollows, Whole', NEW c \in DragClients, NEW h, Leaving(h, c),
         hub.active = DragHub, NEW d \in DR!Drags, NEW r, NEW h1, NEW h2,
         Laden(c, r, d, h, h1, h2), closed' = closed
  PROVE  /\ Whole /\ hub'.active = c /\ h1.active = c
         /\ hub'.out[c] = Append(Append(Append(hub.out[c], DR!Offered(d)), DR!Carried(d)),
                                 DR!Enter(left))
         /\ \A x \in DragClients : x # c => hub'.out[x] = Append(hub.out[x], DR!Offered(d))
<1>1. /\ h \in HubType /\ h.active = c /\ h.swallow = TRUE /\ h.out = hub.out
      /\ h.downs = {} /\ h.attached = hub.attached
  BY LeavesHome DEF Leaving, DragTypes
<1>2. /\ h1 = DR!Departures(DR!Tell(h, DragClients, DR!Offered(d)))
      /\ Unloads(h1, d, h2)
      /\ hub' = DR!Departures(DR!Tell(Hides(h2), {c}, DR!Enter(left)))
  BY DEF Laden
<1>3. /\ h1 \in HubType /\ h2 \in HubType /\ h1.downs = {} /\ h2.downs = {}
      /\ h1.active \in {c, DragHub}
  BY <1>1, <1>2, MidCrossing
<1>b. PICK b \in BOOLEAN : b = left
  BY DEF DragTypes
<1>4. hub' = DR!Departures(DR!Tell(Hides(h2), {c}, DR!Enter(b))) /\ hub'.attached = DragClients
  BY <1>2, <1>b DEF Whole
<1>5. /\ h2.attached = DragClients /\ hub'.active = h2.active
      /\ Hear(h2.out, {c}, DR!Enter(b), hub'.out)
  BY <1>3, <1>4, GoesTells
<1>o. PICK o \in DragMsg : o = DR!Offered(d)
  BY MessagesAre
<1>n. PICK n \in DragMsg : n = DR!Carried(d)
  BY MessagesAre
<1>s. PICK all \in SUBSET DragClients : all = DragClients
  OBVIOUS
<1>t. PICK tc \in SUBSET DragClients : tc = {c}
  OBVIOUS
<1>6. h1 = DR!Departures(DR!Tell(h, all, o))
  BY <1>2, <1>o, <1>s
<1>7. h1.attached = DragClients
  <2>1. CASE h1.active = DragHub
    BY <1>2, <1>5, <2>1 DEF Unloads
  <2>2. CASE h1.active # DragHub
    <3>1. h2 = DR!Departures(DR!Tell(h1, tc, n))
      BY <1>2, <1>3, <1>n, <1>t, <2>2 DEF Unloads
    <3> QED
      BY <1>3, <1>5, <3>1, AllStay
  <2> QED
    BY <2>1, <2>2
<1>8. /\ h.attached = DragClients /\ h1.active = h.active
      /\ Hear(h.out, all, o, h1.out)
  BY <1>1, <1>6, <1>7, SendsAll
<1>9. h2 = DR!Departures(DR!Tell(h1, tc, n))
  BY <1>1, <1>2, <1>8, <1>n, <1>t, MachinesAre DEF Unloads
<1>10. h2.active = h1.active /\ Hear(h1.out, tc, n, h2.out)
  BY <1>3, <1>5, <1>9, SendsAll
<1>11. \A x \in DragClients : h1.out[x] = Append(hub.out[x], DR!Offered(d))
  BY <1>1, <1>8, <1>o, <1>s DEF Hear
<1>12. \A x \in DragClients :
         h2.out[x] = IF x = c THEN Append(h1.out[x], DR!Carried(d)) ELSE h1.out[x]
  BY <1>10, <1>n, <1>t DEF Hear
<1>13. \A x \in DragClients :
         hub'.out[x] = IF x = c THEN Append(h2.out[x], DR!Enter(left)) ELSE h2.out[x]
  BY <1>5, <1>b DEF Hear
<1>14. Whole
  BY <1>1, <1>8 DEF Whole
<1>15. hub'.active = c /\ h1.active = c
  BY <1>1, <1>5, <1>8, <1>10
<1>16. hub'.out[c] = Append(Append(Append(hub.out[c], DR!Offered(d)), DR!Carried(d)),
                           DR!Enter(left))
  BY <1>11, <1>12, <1>13, Zenon
<1>17. \A x \in DragClients : x # c => hub'.out[x] = Append(hub.out[x], DR!Offered(d))
  BY <1>11, <1>12, <1>13, Zenon
<1> QED
  BY <1>14, <1>15, <1>16, <1>17

LEMMA HubOfferTells ==
  ASSUME DragTypes, HomeFollows, Whole', NEW c \in DragClients, NEW d \in DR!Drags,
         hub' = DR!Departures(DR!Tell(hub, DragClients \ {c}, DR!Offered(d))), closed' = closed
  PROVE  /\ Whole /\ hub'.active = hub.active
         /\ Hear(hub.out, DragClients \ {c}, DR!Offered(d), hub'.out)
<1>t. PICK to \in SUBSET DragClients : to = DragClients \ {c}
  OBVIOUS
<1>m. PICK m \in DragMsg : m = DR!Offered(d)
  BY MessagesAre
<1>1. /\ hub' = DR!Departures(DR!Tell(hub, to, m)) /\ hub.downs = {}
      /\ hub'.attached = DragClients /\ hub \in HubType
  BY <1>t, <1>m DEF HomeFollows, Whole, DragTypes
<1>2. /\ hub.attached = DragClients /\ hub'.active = hub.active
      /\ Hear(hub.out, to, m, hub'.out)
  BY <1>1, SendsAll
<1> QED
  BY <1>2, <1>t, <1>m DEF Whole

LEMMA PassOnTells ==
  ASSUME DragTypes, HomeFollows, Whole', NEW d \in DR!Drags, hub.active # DragHub,
         hub' = DR!Departures(DR!Tell(hub, {hub.active}, DR!Carried(d))), closed' = closed
  PROVE  /\ Whole /\ hub'.active = hub.active /\ hub.active \in DragClients
         /\ Hear(hub.out, {hub.active}, DR!Carried(d), hub'.out)
<1>t. PICK to : to = {hub.active}
  OBVIOUS
<1>0. to \in SUBSET DragClients /\ hub.active \in DragClients
  BY <1>t, MachinesAre DEF DragTypes, HubType
<1>m. PICK m \in DragMsg : m = DR!Carried(d)
  BY MessagesAre
<1>1. /\ hub' = DR!Departures(DR!Tell(hub, to, m)) /\ hub.downs = {}
      /\ hub'.attached = DragClients /\ hub \in HubType
  BY <1>t, <1>m DEF HomeFollows, Whole, DragTypes
<1>2. /\ hub.attached = DragClients /\ hub'.active = hub.active
      /\ Hear(hub.out, to, m, hub'.out)
  BY <1>0, <1>1, SendsAll
<1> QED
  BY <1>0, <1>2, <1>t, <1>m DEF Whole

-----------------------------------------------------------------------------
(* One drag at a time, and where it is.                                    *)

\* Queues q and r, of which r has no more of drag d than q, and no less of what is
\* promised of it.
LessSaid(q, r, d) ==
  /\ IsSaid(d, r) => IsSaid(d, q)
  /\ OfferIn(q, d) => OfferIn(r, d)
  /\ NewsIn(q, d) => NewsIn(r, d)
  /\ OfferFirst(q, d) => OfferFirst(r, d)

\* A message that names no drag is put at the end, or taken from the front.
PlainStep(q, r) ==
  \/ r = q
  \/ \E m \in DragMsg : m.drag = 0 /\ r = Append(q, m)
  \/ q # <<>> /\ Head(q).drag = 0 /\ r = Tail(q)

LEMMA PlainSaysLess ==
  ASSUME NEW q \in Seq(DragMsg), NEW r, PlainStep(q, r), NEW d \in DR!Drags
  PROVE  LessSaid(q, r, d)
<1>0. d # 0
  BY MachinesAre
<1>1. CASE r = q
  BY <1>1 DEF LessSaid
<1>2. CASE \E m \in DragMsg : m.drag = 0 /\ r = Append(q, m)
  <2>1. PICK m \in DragMsg : m.drag = 0 /\ r = Append(q, m)
    BY <1>2
  <2>2. /\ IsSaid(d, r) <=> IsSaid(d, q) \/ m.drag = d
        /\ OfferIn(r, d) <=> OfferIn(q, d) \/ (m.kind = "Offer" /\ m.drag = d)
        /\ NewsIn(r, d) <=> NewsIn(q, d) \/ (m.kind = "Dragging" /\ m.drag = d)
    BY <2>1, SaidWithMore
  <2>3. OfferFirst(q, d) => OfferFirst(r, d)
    <3>1. ~(m.kind = "Dragging" /\ m.drag = d)
      BY <1>0, <2>1
    <3> QED
      BY <2>1, <3>1, OfferFirstWithMore
  <2> QED
    BY <1>0, <2>1, <2>2, <2>3 DEF LessSaid
<1>3. CASE q # <<>> /\ Head(q).drag = 0 /\ r = Tail(q)
  <2>2. /\ IsSaid(d, r) => IsSaid(d, q)
        /\ OfferIn(q, d) => OfferIn(r, d) \/ (Head(q).kind = "Offer" /\ Head(q).drag = d)
        /\ NewsIn(q, d) => NewsIn(r, d) \/ (Head(q).kind = "Dragging" /\ Head(q).drag = d)
    BY <1>3, SaidWithLess
  <2>3. OfferFirst(q, d) => OfferFirst(r, d)
    BY <1>0, <1>3, OfferFirstWithLess
  <2> QED
    BY <1>0, <1>3, <2>2, <2>3 DEF LessSaid
<1> QED
  BY <1>1, <1>2, <1>3 DEF PlainStep

\* What is somewhere is there.
LEMMA SomewhereIsAlive ==
  ASSUME DragTypes, NEW d \in DR!Drags, UnderPointer(d) \/ OnItsWay(d)
  PROVE  Alive(d)
<1>1. CASE UnderPointer(d)
  BY <1>1 DEF UnderPointer, Alive, IsOn
<1>2. CASE OnItsWay(d)
  <2>1. \/ share[origin[d]].pending = d
        \/ \E m \in DR!Machines : share[m].pulling = d
        \/ \E c \in DragClients : NewsIn(hub.out[c], d) \/ NewsIn(up[c], d)
    BY <1>2 DEF OnItsWay
  <2>2. origin[d] \in DR!Machines
    BY DEF DragTypes
  <2>3. \A q : NewsIn(q, d) => IsSaid(d, q)
    BY DEF NewsIn, IsSaid
  <2> QED
    BY <2>1, <2>2, <2>3 DEF Alive, IsOn
<1> QED
  BY <1>1, <1>2

\* Drags that are still to be somewhere.
Astray == DR!Begun \ (missed \cup dropped \cup landed)

\* A drag that is somewhere is the only one there is anything of.
LEMMA OnlyOne ==
  ASSUME DragTypes, Alone, Somewhere, NEW d \in Astray, NEW e \in DR!Drags, Alive(e)
  PROVE  e = d /\ (UnderPointer(d) \/ OnItsWay(d))
<1>1. d \in DR!Drags /\ d \in DR!Begun \ missed
  BY DEF Astray, DR!Begun
<1>2. UnderPointer(d) \/ OnItsWay(d)
  BY DEF Astray, Somewhere
<1>3. Alive(d)
  BY <1>1, <1>2, SomewhereIsAlive
<1> QED
  BY <1>1, <1>2, <1>3 DEF Alone

\* A step that begins no drag brings none back.
LEMMA AloneStays ==
  ASSUME DragTypes, Alone, holdOf' = holdOf, hold' \in Nat, hold' >= hold,
         left' = TRUE => hold' > 0, missed \subseteq missed',
         \A e \in dropped' : e \in dropped \/ (e \in DR!Drags /\ Alive(e)),
         \A e \in DR!Drags : Alive(e)' => Alive(e)
  PROVE  Alone'
<1>1. DR!Begun' = DR!Begun
  BY DEF DR!Begun, DR!Drags
<1>2. \A d \in DR!Drags : holdOf'[d] <= hold'
  BY DEF Alone, DragTypes
<1>3. dropped' \subseteq DR!Begun
  BY DEF Alone
<1>4. \A e \in DR!Drags : Alive(e)' => e \in DR!Begun
  BY DEF Alone
<1>5. \A d \in DR!Begun \ missed', e \in DR!Drags : Alive(d)' /\ Alive(e)' => e = d
  BY DEF Alone, DR!Begun
<1> QED
  BY <1>1, <1>2, <1>3, <1>4, <1>5 DEF Alone

\* What is somewhere stays there if nothing is said of it, offered or picked up.
LEMMA SomewhereStays ==
  ASSUME NEW d, UNCHANGED <<share, up, origin>>,
         \A c \in DragClients : LessSaid(hub.out[c], hub'.out[c], d),
         \A m \in DR!Machines : carries'[m] = d <=> carries[m] = d
  PROVE  /\ UnderPointer(d) => UnderPointer(d)'
         /\ OnItsWay(d) => OnItsWay(d)'
<1>1. \A c \in DragClients : IsSaid(d, hub'.out[c]) => IsSaid(d, hub.out[c])
  BY DEF LessSaid
<1>2. UnderPointer(d) => UnderPointer(d)'
  BY <1>1 DEF UnderPointer
<1>3. ASSUME OnItsWay(d) PROVE OnItsWay(d)'
  <2>1. PassedOn(d) => PassedOn(d)'
    BY DEF PassedOn, LessSaid
  <2>2. \A m \in DR!Machines : /\ carries'[m] # d
                               /\ share'[m].pending = d => m = origin'[d]
                               /\ share'[m].pulling = d => share'[m].offer = d
    BY <1>3 DEF OnItsWay
  <2>3. share'[origin'[d]].offer = d
    BY <1>3 DEF OnItsWay
  <2>4. \A c \in DragClients :
       /\ IsSaid(d, up'[c]) => c = origin'[d]
       /\ PassedOn(d)' \/ OfferFirst(up'[c], d)
       /\ c = origin'[d] \/ share'[c].offer = d \/ OfferFirst(hub'.out[c], d)
    BY <1>3, <2>1 DEF OnItsWay, LessSaid
  <2>5. \/ share'[origin'[d]].pending = d
        \/ \E m \in DR!Machines : share'[m].pulling = d
        \/ \E c \in DragClients : NewsIn(hub'.out[c], d) \/ NewsIn(up'[c], d)
    BY <1>3 DEF OnItsWay, LessSaid
  <2> QED
    BY <2>2, <2>3, <2>4, <2>5 DEF OnItsWay
<1> QED
  BY <1>2, <1>3

\* What a step that says nothing of drags may do: nothing but make a machine let go
\* of what it carries, which is then counted among what was dropped or missed.
Counts == hold' \in Nat /\ hold' >= hold /\ (left' = TRUE => hold' > 0)
Drops == \A e \in dropped' : e \in dropped \/ (e \in DR!Drags /\ Alive(e))
Misses == missed \subseteq missed' /\ dropped \subseteq dropped' /\ landed \subseteq landed'
LetsGo == \A m \in DR!Machines :
  carries'[m] = carries[m] \/ (carries'[m] = 0 /\ carries[m] \in dropped' \cup missed')
PlainlySaid == \A c \in DragClients : PlainStep(hub.out[c], hub'.out[c])

LEMMA PlainSafe ==
  ASSUME DragTypes, Alone, Somewhere, Counts, Drops, Misses, LetsGo, PlainlySaid,
         UNCHANGED <<share, up, origin, holdOf>>
  PROVE  Alone' /\ Somewhere'
<1>1. \A c \in DragClients, e \in DR!Drags : LessSaid(hub.out[c], hub'.out[c], e)
  <2>1. \A c \in DragClients : hub.out[c] \in Seq(DragMsg)
    BY DEF DragTypes, HubType
  <2> QED
    BY <2>1, PlainSaysLess DEF PlainlySaid
<1>2. ASSUME NEW e \in DR!Drags, Alive(e)' PROVE Alive(e)
  <2>0. e # 0
    BY MachinesAre
  <2>1. ASSUME NEW m \in DR!Machines, IsOn(e, m)' PROVE IsOn(e, m)
    BY <2>0, <2>1 DEF IsOn, LetsGo
  <2>2. \A c \in DragClients : IsSaid(e, hub'.out[c]) => IsSaid(e, hub.out[c])
    BY <1>1 DEF LessSaid
  <2>3. \/ \E m \in DR!Machines : IsOn(e, m)'
        \/ \E c \in DragClients : IsSaid(e, hub'.out[c]) \/ IsSaid(e, up'[c])
    BY <1>2 DEF Alive
  <2> QED
    BY <2>1, <2>2, <2>3 DEF Alive
<1>3. Alone'
  BY <1>2, AloneStays DEF Counts, Drops, Misses
<1>4. ASSUME NEW d \in Astray' PROVE UnderPointer(d)' \/ OnItsWay(d)'
  <2>1. d \in Astray /\ d \notin dropped' \cup missed' /\ d \in DR!Drags
    BY <1>4 DEF Astray, Misses, DR!Begun, DR!Drags
  <2>2. UnderPointer(d) \/ OnItsWay(d)
    BY <2>1 DEF Astray, Somewhere
  <2>3. \A m \in DR!Machines : carries'[m] = d <=> carries[m] = d
    BY <2>1, MachinesAre DEF LetsGo
  <2> QED
    BY <1>1, <2>1, <2>2, <2>3, SomewhereStays
<1> QED
  BY <1>3, <1>4 DEF Somewhere, Astray

\* In queue r, with more said than in q of drag d and of no other, the offer of it is,
\* and before the news.
Offers(q, r, d) ==
  /\ OfferIn(r, d)
  /\ ~IsSaid(d, q) => OfferFirst(r, d)
  /\ \A e \in DR!Drags : IsSaid(e, r) => IsSaid(e, q) \/ e = d

\* The offer of a drag and the news of it, at the end of a queue.
LEMMA OfferedThere ==
  ASSUME NEW q \in Seq(DragMsg), NEW d \in DR!Drags,
         NEW r, r = Append(q, DR!Offered(d))
  PROVE  r \in Seq(DragMsg) /\ Offers(q, r, d)
<1>m. PICK m \in DragMsg : m = DR!Offered(d) /\ m.kind = "Offer" /\ m.drag = d
  BY MessagesAre
<1>1. r = Append(q, m)
  BY <1>m
<1>2. r \in Seq(DragMsg)
  BY <1>1, PutLast
<1>3. OfferIn(r, d)
  BY <1>1, <1>m, SaidWithMore
<1>4. \A e : IsSaid(e, r) => IsSaid(e, q) \/ e = d
  BY <1>1, <1>m, SaidWithMore
<1>5. ASSUME ~IsSaid(d, q) PROVE OfferFirst(r, d)
  <2>1. OfferFirst(q, d)
    BY <1>5 DEF OfferFirst, IsSaid
  <2>2. ~(m.kind = "Dragging" /\ m.drag = d)
    BY <1>m
  <2> QED
    BY <1>1, <2>1, <2>2, OfferFirstWithMore
<1> QED
  BY <1>2, <1>3, <1>4, <1>5 DEF Offers

LEMMA CarriedThere ==
  ASSUME NEW q \in Seq(DragMsg), NEW d \in DR!Drags, OfferIn(q, d),
         NEW r, r = Append(q, DR!Carried(d))
  PROVE  /\ r \in Seq(DragMsg) /\ NewsIn(r, d)
         /\ OfferFirst(q, d) => OfferFirst(r, d)
         /\ \A e : IsSaid(e, r) => IsSaid(e, q) \/ e = d
<1>m. PICK m \in DragMsg : m = DR!Carried(d) /\ m.kind = "Dragging" /\ m.drag = d
  BY MessagesAre
<1>1. r = Append(q, m)
  BY <1>m
<1>2. r \in Seq(DragMsg)
  BY <1>1, PutLast
<1>3. NewsIn(r, d)
  BY <1>1, <1>m, SaidWithMore
<1>4. \A e : IsSaid(e, r) => IsSaid(e, q) \/ e = d
  BY <1>1, <1>m, SaidWithMore
<1>5. OfferFirst(q, d) => OfferFirst(r, d)
  BY <1>1, OfferFirstWithMore
<1> QED
  BY <1>2, <1>3, <1>4, <1>5

\* A drag that is caught is offered to everyone by the machine it was under the
\* pointer of, and said to be under the pointer after that.
Caught(d, m) ==
  /\ carries[m] = d /\ carries'[m] = 0
  /\ \A n \in DR!Machines : n # m => carries'[n] = carries[n]
  /\ share'[m].offer = d
  /\ \A n \in DR!Machines : /\ share'[n].pending = share[n].pending
                            /\ share'[n].pulling = share[n].pulling
  /\ origin'[d] = m
  /\ \A e \in dropped' : e \in dropped \cup {d}

\* Nothing but of that drag is said.
SaidOnlyOf(d) == \A c \in DragClients, e \in DR!Drags :
  /\ IsSaid(e, hub'.out[c]) => IsSaid(e, hub.out[c]) \/ e = d
  /\ IsSaid(e, up'[c]) => IsSaid(e, up[c]) \/ e = d

\* What is said of it, if nothing was said of it before.
Announced(d, m) == \A c \in DragClients :
  /\ IsSaid(d, up'[c]) => c = m
  /\ OfferFirst(hub'.out[c], d)
  /\ m = DragHub => OfferIn(hub'.out[c], d)
  /\ m # DragHub => OfferFirst(up'[c], d)

\* What the machines have of drags, but for what is said, when one is caught.
LEMMA CaughtIsAlive ==
  ASSUME DragTypes, NEW d \in DR!Drags, NEW m \in DR!Machines, Caught(d, m), SaidOnlyOf(d)
  PROVE  Alive(d) /\ \A e \in DR!Drags : Alive(e)' => Alive(e)
<1>1. Alive(d)
  BY DEF Alive, IsOn, Caught
<1>2. ASSUME NEW e \in DR!Drags, Alive(e)' PROVE Alive(e)
  <2>0. e # 0
    BY MachinesAre
  <2>1. ASSUME NEW n \in DR!Machines, IsOn(e, n)' PROVE IsOn(e, n)
    BY <2>0, <2>1 DEF IsOn, Caught
  <2>3. \/ \E n \in DR!Machines : IsOn(e, n)'
        \/ \E c \in DragClients : IsSaid(e, hub'.out[c]) \/ IsSaid(e, up'[c])
    BY <1>2 DEF Alive
  <2> QED
    BY <1>1, <2>1, <2>3 DEF Alive, SaidOnlyOf
<1> QED
  BY <1>1, <1>2

\* A drag that is caught was under that pointer only, and is on its way then.
LEMMA CaughtGoes ==
  ASSUME DragTypes, Alone, Somewhere, NEW d \in DR!Drags, NEW m \in DR!Machines,
         Caught(d, m), Counts, Misses, UNCHANGED holdOf,
         SaidOnlyOf(d), UnderPointer(d) => Announced(d, m),
         \E c \in DragClients : NewsIn(hub'.out[c], d) \/ NewsIn(up'[c], d)
  PROVE  Alone' /\ Somewhere'
<1>1. Alive(d) /\ \A e \in DR!Drags : Alive(e)' => Alive(e)
  BY CaughtIsAlive
<1>2. Alone'
  BY <1>1, AloneStays DEF Caught, Counts, Misses
<1>3. ASSUME NEW x \in Astray' PROVE UnderPointer(x)' \/ OnItsWay(x)'
  <2>1. x \in Astray
    BY <1>3 DEF Astray, Misses, DR!Begun, DR!Drags
  <2>2. x = d /\ (UnderPointer(d) \/ OnItsWay(d))
    BY <1>1, <2>1, OnlyOne
  <2>3. UnderPointer(d)
    BY <2>2 DEF OnItsWay, Caught
  <2>4. d # 0
    BY MachinesAre
  <2>5. \A n \in DR!Machines : /\ carries'[n] # d
                               /\ share'[n].pending # d /\ share'[n].pulling # d
    BY <2>3, <2>4 DEF UnderPointer, Caught
  <2>6. share'[origin'[d]].offer = d /\ origin'[d] = m
    BY DEF Caught
  <2>7. m = DragHub => PassedOn(d)'
    BY <2>3, <2>6 DEF PassedOn, Announced
  <2>8. \A c \in DragClients :
       /\ IsSaid(d, up'[c]) => c = origin'[d]
       /\ PassedOn(d)' \/ OfferFirst(up'[c], d)
       /\ c = origin'[d] \/ share'[c].offer = d \/ OfferFirst(hub'.out[c], d)
    BY <2>3, <2>6, <2>7 DEF Announced
  <2> QED
    BY <2>2, <2>5, <2>6, <2>8 DEF OnItsWay
<1> QED
  BY <1>2, <1>3 DEF Somewhere, Astray

-----------------------------------------------------------------------------
(* Enters and Leaves, and who has the cursor.                              *)

\* A queue in which no Enter was put and no Leave taken.
MildStep(q, r) ==
  \/ r = q
  \/ \E m \in DragMsg : m.kind # "Enter" /\ r = Append(q, m)
  \/ q # <<>> /\ Head(q).kind \notin {"Enter", "Leave"} /\ r = Tail(q)

Milder(q, r) ==
  /\ Alternates(r)
  /\ LeaveFirst(q) => LeaveFirst(r)
  /\ LeaveLast(q) => LeaveLast(r)
  /\ HasLeave(q) => HasLeave(r)

LEMMA MildIsMilder ==
  ASSUME NEW q \in Seq(DragMsg), NEW r, MildStep(q, r), Alternates(q)
  PROVE  Milder(q, r)
<1>1. CASE r = q
  BY <1>1 DEF Milder
<1>2. CASE \E m \in DragMsg : m.kind # "Enter" /\ r = Append(q, m)
  <2>1. PICK m \in DragMsg : m.kind # "Enter" /\ r = Append(q, m)
    BY <1>2
  <2>2. /\ Alternates(r)
        /\ LeaveFirst(q) => LeaveFirst(r)
        /\ LeaveLast(q) => LeaveLast(r)
        /\ HasLeave(q) => HasLeave(r)
    BY <2>1, TurnsWithMore
  <2> QED
    BY <2>2 DEF Milder
<1>3. CASE q # <<>> /\ Head(q).kind \notin {"Enter", "Leave"} /\ r = Tail(q)
  <2>2. /\ Alternates(r)
        /\ LeaveFirst(q) => LeaveFirst(r)
        /\ LeaveLast(q) => LeaveLast(r)
        /\ HasLeave(q) => HasLeave(r)
    BY <1>3, TurnsWithLess
  <2> QED
    BY <2>2 DEF Milder
<1> QED
  BY <1>1, <1>2, <1>3 DEF MildStep

\* Of a machine that neither gets the cursor nor loses it, nor hears that it did.
LEMMA TurnStays ==
  ASSUME NEW c \in DragClients, TakesTurns(c), Milder(hub.out[c], hub'.out[c]),
         hub.active = c => hub'.active = c,
         client'[c].acting = client[c].acting,
         carries'[c] # 0 => client[c].acting = TRUE
  PROVE  TakesTurns(c)'
BY DEF TakesTurns, Milder

\* Of a machine that is told to come in or to leave.
LEMMA TurnComes ==
  ASSUME NEW c \in DragClients, TakesTurns(c), NEW q \in Seq(DragMsg),
         Milder(hub.out[c], q), NEW b \in BOOLEAN,
         hub'.out[c] = Append(q, DR!Enter(b)),
         hub.active # c, hub'.active = c,
         client'[c].acting = client[c].acting, carries'[c] = carries[c]
  PROVE  TakesTurns(c)'
<1>m. PICK m \in DragMsg : m = DR!Enter(b) /\ m.kind = "Enter"
  BY MessagesAre
<1>1. Alternates(q) /\ LeaveLast(q)
  BY DEF Milder, TakesTurns
<1>2. client[c].acting = TRUE => LeaveFirst(q) /\ HasLeave(q)
  BY DEF Milder, TakesTurns
<1>3. hub'.out[c] = Append(q, m)
  BY <1>m
<1>4. Alternates(hub'.out[c])
  BY <1>1, <1>3, TurnsWithMore
<1>5. client[c].acting = TRUE => LeaveFirst(hub'.out[c])
  BY <1>1, <1>2, <1>3, TurnsWithMore
<1> QED
  BY <1>4, <1>5 DEF TakesTurns

LEMMA TurnGoes ==
  ASSUME NEW c \in DragClients, TakesTurns(c), hub.out[c] \in Seq(DragMsg),
         hub'.out[c] = Append(hub.out[c], DR!Leave),
         client'[c].acting = client[c].acting, carries'[c] = carries[c]
  PROVE  TakesTurns(c)'
<1>m. PICK m \in DragMsg : m = DR!Leave /\ m.kind = "Leave"
  BY MessagesAre
<1>1. Alternates(hub.out[c]) /\ (client[c].acting = TRUE => LeaveFirst(hub.out[c]))
  BY DEF TakesTurns
<1>2. hub'.out[c] = Append(hub.out[c], m)
  BY <1>m
<1>3. Alternates(hub'.out[c]) /\ LeaveLast(hub'.out[c]) /\ HasLeave(hub'.out[c])
  BY <1>1, <1>2, <1>m, TurnsWithMore
<1>4. client[c].acting = TRUE => LeaveFirst(hub'.out[c])
  BY <1>1, <1>2, <1>m, TurnsWithMore
<1> QED
  BY <1>3, <1>4 DEF TakesTurns

\* Of a machine that hears that it has the cursor, or lost it.
LEMMA TurnHeard ==
  ASSUME NEW c \in DragClients, TakesTurns(c), hub.out[c] \in Seq(DragMsg),
         hub.out[c] # <<>>, hub'.out[c] = Tail(hub.out[c]), hub'.active = hub.active,
         \/ /\ Head(hub.out[c]).kind = "Enter" /\ client'[c].acting = TRUE
         \/ /\ Head(hub.out[c]).kind = "Leave" /\ client'[c].acting = FALSE
            /\ carries'[c] = 0
  PROVE  TakesTurns(c)'
<1>1. Alternates(hub'.out[c])
  BY TurnsWithLess DEF TakesTurns
<1>2. hub'.active # c => LeaveLast(hub'.out[c])
  BY TurnsWithLess DEF TakesTurns
<1>3. CASE Head(hub.out[c]).kind = "Enter" /\ client'[c].acting = TRUE
  <2>1. LeaveFirst(hub'.out[c])
    BY <1>3, TurnsWithLess DEF TakesTurns
  <2>2. hub'.active # c => HasLeave(hub'.out[c])
    BY <1>3, TurnsWithLess DEF TakesTurns
  <2> QED
    BY <1>1, <1>2, <1>3, <2>1, <2>2 DEF TakesTurns
<1>4. CASE client'[c].acting = FALSE /\ carries'[c] = 0
  BY <1>1, <1>2, <1>4 DEF TakesTurns
<1> QED
  BY <1>3, <1>4

-----------------------------------------------------------------------------
(* The button.                                                             *)

\* A queue in which no change of the button was put.
QuietStep(q, r) ==
  \/ r = q
  \/ \E m \in DragMsg : m.kind # "Button" /\ r = Append(q, m)
  \/ q # <<>> /\ r = Tail(q)

Quieter(q, r, d) ==
  /\ Unmoved(q) => Unmoved(r)
  /\ MovedBefore(q, d) => MovedBefore(r, d)

LEMMA QuietIsQuieter ==
  ASSUME NEW q \in Seq(DragMsg), NEW r, QuietStep(q, r), NEW d
  PROVE  Quieter(q, r, d)
BY ButtonsWithMore, ButtonsWithLess DEF Quieter, QuietStep

\* The button stays down over a drag that is held, if no machine lets go of it and
\* none comes to it.
LEMMA HoldingStays ==
  ASSUME NEW d, Holding(d), d \notin dropped',
         \A c \in DragClients : Quieter(hub.out[c], hub'.out[c], d),
         \A c \in DragClients : IsOn(d, c)' => IsOn(d, c),
         \A c \in DragClients :
           carries'[c] = d => carries[c] = d /\ client'[c].down = client[c].down
  PROVE  Holding(d)'
<1>1. \A c \in DragClients : MovedBefore(hub'.out[c], d)
  BY DEF Holding, Quieter
<1>2. \A c \in DragClients : IsOn(d, c)' => Unmoved(hub'.out[c])
  BY DEF Holding, Quieter
<1>3. \A c \in DragClients : carries'[c] = d => client'[c].down = TRUE
  BY DEF Holding
<1> QED
  BY <1>1, <1>2, <1>3 DEF Holding

LEMMA HeldStays ==
  ASSUME Held, UNCHANGED <<left, hold, holdOf>>, missed \subseteq missed',
         \A d \in DR!Begun \ missed' : Holding(d) => Holding(d)'
  PROVE  Held'
<1>1. DR!Begun' = DR!Begun
  BY DEF DR!Begun, DR!Drags
<1> QED
  BY <1>1 DEF Held

-----------------------------------------------------------------------------
(* Every step keeps what is promised while every link holds.               *)

Promised == Alone /\ InTurn /\ Held /\ Somewhere

\* Queues are queues.
LEMMA QueuesAre ==
  ASSUME DragTypes, NEW c \in DragClients
  PROVE  hub.out[c] \in Seq(DragMsg) /\ up[c] \in Seq(DragMsg)
BY DEF DragTypes, HubType

\* What a machine lets go of was there.
LEMMA LettingIs ==
  ASSUME DragTypes, NEW m \in DR!Machines, dropped' = dropped \cup DR!Letting(m),
         carries' = [carries EXCEPT ![m] = 0]
  PROVE  Drops /\ LetsGo /\ dropped \subseteq dropped'
<1>1. carries[m] \in 0 .. MaxDrags
  BY DEF DragTypes
<1>2. carries[m] # 0 => carries[m] \in DR!Drags /\ Alive(carries[m]) /\ carries[m] \in dropped'
  BY <1>1, MachinesAre DEF DR!Letting, Alive, IsOn
<1>3. \A e \in dropped' : e \in dropped \/ (e = carries[m] /\ carries[m] # 0)
  BY DEF DR!Letting
<1>4. Drops
  BY <1>2, <1>3 DEF Drops
<1>5. carries'[m] = 0 /\ \A n \in DR!Machines : n # m => carries'[n] = carries[n]
  BY DEF DragTypes
<1>6. LetsGo
  BY <1>2, <1>5 DEF LetsGo
<1> QED
  BY <1>4, <1>6

\* Machines that are told a message that names no drag are told nothing of drags.
LEMMA HearPlain ==
  ASSUME NEW to, NEW m \in DragMsg, m.drag = 0, Hear(hub.out, to, m, hub'.out)
  PROVE  PlainlySaid
BY DEF PlainlySaid, PlainStep, Hear

LEMMA HandPromises ==
  ASSUME DragTypes, HomeFollows, Whole', Promised, DR!PressLeft \/ DR!LetGoLeft
  PROVE  Promised'
<1>b. PICK b \in BOOLEAN : hub' = DR!Departures(DR!Tell(hub, {hub.active} \ {DragHub}, DR!Button(b)))
  BY DEF DR!PressLeft, DR!LetGoLeft
<1>m. PICK m \in DragMsg : m = DR!Button(b) /\ m.kind = "Button" /\ m.drag = 0
  BY MessagesAre
<1>0. UNCHANGED <<share, up, origin, holdOf, closed, client, missed, landed>>
  BY DEF DR!PressLeft, DR!LetGoLeft, DR!happened
<1>1. hub'.active = hub.active /\ Hear(hub.out, {hub.active}, DR!Button(b), hub'.out)
  BY <1>0, <1>b, HandTells
<1>2. PlainlySaid
  BY <1>1, <1>m, HearPlain
<1>3. DragHub \in DR!Machines
  BY MachinesAre
<1>4. Drops /\ LetsGo /\ dropped \subseteq dropped'
  <2>1. CASE UNCHANGED <<dropped, carries>>
    BY <2>1 DEF Drops, LetsGo
  <2>2. CASE /\ dropped' = dropped \cup DR!Letting(DragHub)
             /\ carries' = [carries EXCEPT ![DragHub] = 0]
    BY <1>3, <2>2, LettingIs
  <2> QED
    BY <2>1, <2>2 DEF DR!PressLeft, DR!LetGoLeft, DR!happened
<1>5. Counts
  <2>0. hold \in Nat
    BY DEF DragTypes
  <2>1. CASE DR!PressLeft
    <3>1. hold' = hold + 1
      BY <2>1 DEF DR!PressLeft
    <3> QED
      BY <2>0, <3>1 DEF Counts
  <2>2. CASE DR!LetGoLeft
    <3>1. hold' = hold /\ left' = FALSE
      BY <2>2 DEF DR!LetGoLeft
    <3> QED
      BY <2>0, <3>1 DEF Counts
  <2> QED
    BY <2>1, <2>2
<1>6. Misses
  BY <1>0, <1>4 DEF Misses
<1>7. Alone' /\ Somewhere'
  BY <1>0, <1>2, <1>4, <1>5, <1>6, PlainSafe DEF Promised
<1>8. ASSUME NEW c \in DragClients PROVE TakesTurns(c)'
  <2>1. TakesTurns(c)
    BY DEF Promised, InTurn
  <2>2. MildStep(hub.out[c], hub'.out[c])
    BY <1>1, <1>m DEF MildStep, Hear
  <2>3. Milder(hub.out[c], hub'.out[c])
    BY <2>1, <2>2, QueuesAre, MildIsMilder DEF TakesTurns
  <2>4. carries'[c] = carries[c]
    BY MachinesAre DEF DR!PressLeft, DR!LetGoLeft, DR!happened, DragTypes
  <2>5. carries'[c] # 0 => client[c].acting = TRUE
    BY <2>1, <2>4 DEF TakesTurns
  <2> QED
    BY <1>0, <1>1, <2>1, <2>3, <2>5, TurnStays
<1>9. Held'
  <2>1. CASE DR!PressLeft
    <3>1. \A d \in DR!Drags : holdOf'[d] # hold'
      BY <2>1 DEF DR!PressLeft, DR!happened, Promised, Alone, DragTypes
    <3> QED
      BY <3>1 DEF Held, DR!Begun, DR!Drags
  <2>2. CASE DR!LetGoLeft
    BY <2>2 DEF DR!LetGoLeft, Held
  <2> QED
    BY <2>1, <2>2
<1> QED
  BY <1>7, <1>8, <1>9 DEF Promised, InTurn

\* A crossing, or a file that arrives, changes nothing of the button.
LEMMA StillCounts ==
  ASSUME DragTypes, Alone, UNCHANGED <<left, hold>>
  PROVE  Counts
BY DEF Counts, DragTypes, Alone

LEMMA CrossHomePromises ==
  ASSUME DragTypes, HomeFollows, Whole', Promised, DR!CrossHome
  PROVE  Promised'
<1>m. PICK m \in DragMsg : m = DR!Leave /\ m.kind = "Leave" /\ m.drag = 0
  BY MessagesAre
<1>0. UNCHANGED <<share, client, up, closed, carries, left, hold, holdOf, origin, dropped,
                  landed, missed>>
  BY DEF DR!CrossHome, DR!happened
<1>1. hub'.active = DragHub /\ Hear(hub.out, {hub.active}, DR!Leave, hub'.out)
  BY CrossHomeTells
<1>2. PlainlySaid
  BY <1>1, <1>m, HearPlain
<1>3. Drops /\ LetsGo /\ Misses
  BY <1>0 DEF Drops, LetsGo, Misses
<1>4. Alone' /\ Somewhere'
  BY <1>0, <1>2, <1>3, StillCounts, PlainSafe DEF Promised
<1>5. ASSUME NEW c \in DragClients PROVE TakesTurns(c)'
  <2>1. TakesTurns(c)
    BY DEF Promised, InTurn
  <2>2. CASE c = hub.active
    <3>1. hub'.out[c] = Append(hub.out[c], DR!Leave)
      BY <1>1, <2>2 DEF Hear
    <3> QED
      BY <1>0, <2>1, <3>1, QueuesAre, TurnGoes
  <2>3. CASE c # hub.active
    <3>1. hub'.out[c] = hub.out[c]
      BY <1>1, <2>3 DEF Hear
    <3> QED
      BY <1>0, <2>1, <2>3, <3>1 DEF TakesTurns
  <2> QED
    BY <2>2, <2>3
<1>6. ASSUME NEW d \in DR!Begun \ missed', Holding(d) PROVE Holding(d)'
  <2>1. \A c \in DragClients : QuietStep(hub.out[c], hub'.out[c])
    BY <1>1, <1>m DEF QuietStep, Hear
  <2>2. \A c \in DragClients : Quieter(hub.out[c], hub'.out[c], d)
    BY <2>1, QueuesAre, QuietIsQuieter
  <2>3. d \notin dropped'
    BY <1>0, <1>6 DEF Holding
  <2>4. \A c \in DragClients : IsOn(d, c)' => IsOn(d, c)
    BY <1>0 DEF IsOn
  <2> QED
    BY <1>0, <1>6, <2>2, <2>3, <2>4, HoldingStays
<1>7. Held'
  BY <1>0, <1>6, HeldStays DEF Promised
<1> QED
  BY <1>4, <1>5, <1>7 DEF Promised, InTurn

LEMMA CrossOverPromises ==
  ASSUME DragTypes, HomeFollows, Whole', Promised, NEW c \in DragClients, DR!CrossOver(c)
  PROVE  Promised'
<1>m. PICK m \in DragMsg : m = DR!Leave /\ m.kind = "Leave" /\ m.drag = 0
  BY MessagesAre
<1>b. PICK b \in BOOLEAN : b = left
  BY DEF DragTypes
<1>n. PICK n \in DragMsg : n = DR!Enter(b) /\ n.kind = "Enter" /\ n.drag = 0
  BY MessagesAre
<1>0. UNCHANGED <<share, client, up, closed, carries, left, hold, holdOf, origin, dropped,
                  landed, missed>>
  BY DEF DR!CrossOver, DR!happened
<1>1. /\ hub.active \in DragClients /\ hub.active # c /\ hub'.active = c
      /\ hub'.out[hub.active] = Append(hub.out[hub.active], DR!Leave)
      /\ hub'.out[c] = Append(hub.out[c], DR!Enter(b))
      /\ \A x \in DragClients : x # c /\ x # hub.active => hub'.out[x] = hub.out[x]
  BY <1>b, CrossOverTells
<1>2. PlainlySaid
  <2> SUFFICES ASSUME NEW x \in DragClients PROVE PlainStep(hub.out[x], hub'.out[x])
    BY DEF PlainlySaid
  <2>1. CASE x = hub.active
    BY <1>1, <1>m, <2>1 DEF PlainStep
  <2>2. CASE x = c
    BY <1>1, <1>n, <2>2 DEF PlainStep
  <2>3. CASE x # c /\ x # hub.active
    BY <1>1, <2>3 DEF PlainStep
  <2> QED
    BY <2>1, <2>2, <2>3
<1>3. Drops /\ LetsGo /\ Misses
  BY <1>0 DEF Drops, LetsGo, Misses
<1>4. Alone' /\ Somewhere'
  BY <1>0, <1>2, <1>3, StillCounts, PlainSafe DEF Promised
<1>5. ASSUME NEW x \in DragClients PROVE TakesTurns(x)'
  <2>1. TakesTurns(x)
    BY DEF Promised, InTurn
  <2>2. CASE x = hub.active
    BY <1>0, <1>1, <2>1, <2>2, QueuesAre, TurnGoes
  <2>3. CASE x = c
    <3>1. Milder(hub.out[c], hub.out[c])
      BY <2>1, <2>3 DEF Milder, TakesTurns
    <3> QED
      BY <1>0, <1>1, <2>1, <2>3, <3>1, QueuesAre, TurnComes
  <2>4. CASE x # c /\ x # hub.active
    BY <1>0, <1>1, <2>1, <2>4 DEF TakesTurns
  <2> QED
    BY <2>2, <2>3, <2>4
<1>6. ASSUME NEW d \in DR!Begun \ missed', Holding(d) PROVE Holding(d)'
  <2>1. \A x \in DragClients : QuietStep(hub.out[x], hub'.out[x])
    BY <1>1, <1>m, <1>n DEF QuietStep
  <2>2. \A x \in DragClients : Quieter(hub.out[x], hub'.out[x], d)
    BY <2>1, QueuesAre, QuietIsQuieter
  <2>3. d \notin dropped'
    BY <1>0, <1>6 DEF Holding
  <2>4. \A x \in DragClients : IsOn(d, x)' => IsOn(d, x)
    BY <1>0 DEF IsOn
  <2> QED
    BY <1>0, <1>6, <2>2, <2>3, <2>4, HoldingStays
<1>7. Held'
  BY <1>0, <1>6, HeldStays DEF Promised
<1> QED
  BY <1>4, <1>5, <1>7 DEF Promised, InTurn

LEMMA SaidIs ==
  ASSUME DragTypes, NEW e
  PROVE  DR!Said(e) <=> \E c \in DragClients : IsSaid(e, hub.out[c]) \/ IsSaid(e, up[c])
<1>1. \A c \in DragClients : /\ DOMAIN hub.out[c] = 1 .. Len(hub.out[c])
                             /\ DOMAIN up[c] = 1 .. Len(up[c])
  BY QueuesAre
<1> QED
  BY <1>1 DEF DR!Said, IsSaid

LEMMA BeginPromises ==
  ASSUME DragTypes, Promised, NEW m \in DR!Machines, DR!BeginDrag(m)
  PROVE  Promised'
<1>0. /\ UNCHANGED <<hub, share, client, up, left, hold, origin, dropped, landed>>
      /\ left = TRUE /\ \A n \in DR!Machines : carries[n] = 0
  BY DEF DR!BeginDrag, DragTypes
<1>d. PICK d \in DR!Drags :
        /\ holdOf[d] = 0 /\ \A e \in DR!Drags : holdOf[e] # hold
        /\ carries' = [carries EXCEPT ![m] = d]
        /\ holdOf' = [holdOf EXCEPT ![d] = hold]
        /\ missed' = missed \cup DR!UnderWay \cup (IF DR!UnderWay = {} THEN {} ELSE {d})
  BY DEF DR!BeginDrag
<1>1. d # 0 /\ hold # 0 /\ hold \in Nat /\ hold > 0
  BY <1>0, MachinesAre DEF Promised, Alone, DragTypes
<1>2. d \notin DR!Begun /\ DR!Begun' = DR!Begun \cup {d}
  BY <1>d, <1>1 DEF DR!Begun, DR!Drags, DragTypes
<1>3. \A e \in DR!Drags : Alive(e) => e \in DR!UnderWay
  <2> SUFFICES ASSUME NEW e \in DR!Drags, Alive(e) PROVE e \in DR!UnderWay
    OBVIOUS
  <2>1. e \in DR!Begun /\ e # 0
    BY MachinesAre DEF Promised, Alone
  <2>2. \/ \E n \in DR!Machines : e \in {share[n].pending, share[n].pulling}
        \/ \E c \in DragClients : IsSaid(e, hub.out[c]) \/ IsSaid(e, up[c])
    BY <1>0, <2>1 DEF Alive, IsOn
  <2> QED
    BY <2>1, <2>2, SaidIs DEF DR!UnderWay
<1>4. ~Alive(d)
  BY <1>2 DEF Promised, Alone
<1>5. /\ carries'[m] = d
      /\ \A n \in DR!Machines : n # m => carries'[n] = 0
  BY <1>0, <1>d DEF DragTypes
<1>6. ASSUME NEW e \in DR!Drags, Alive(e)' PROVE e = d \/ Alive(e)
  <2>1. \A n \in DR!Machines : IsOn(e, n)' => e = d \/ IsOn(e, n)
    BY <1>0, <1>5, MachinesAre DEF IsOn
  <2> QED
    BY <1>0, <1>6, <2>1 DEF Alive
<1>7. \A e \in DR!Drags : e \notin missed' => e \notin missed /\ ~Alive(e)
  BY <1>d, <1>3
<1>8. d \notin missed' => DR!UnderWay = {}
  BY <1>d
<1>9. Alone'
  <2>1. \A e \in DR!Drags : holdOf'[e] <= hold
    BY <1>d, <1>1 DEF Promised, Alone, DragTypes
  <2>2. dropped' \subseteq DR!Begun'
    BY <1>0, <1>2 DEF Promised, Alone
  <2>3. \A e \in DR!Drags : Alive(e)' => e \in DR!Begun'
    BY <1>2, <1>6 DEF Promised, Alone
  <2>4. ASSUME NEW x \in DR!Begun' \ missed', NEW e \in DR!Drags, Alive(x)', Alive(e)'
        PROVE  e = x
    <3>1. x \in DR!Drags
      BY DEF DR!Begun, DR!Drags
    <3>2. x = d
      BY <1>6, <1>7, <2>4, <3>1
    <3>3. ~Alive(e)
      BY <1>3, <1>8, <2>4, <3>2
    <3> QED
      BY <1>6, <2>4, <3>2, <3>3
  <2>5. left' = TRUE => hold' > 0
    BY <1>0, <1>1
  <2> QED
    BY <1>0, <2>1, <2>2, <2>3, <2>4, <2>5 DEF Alone
<1>10. InTurn'
  <2> SUFFICES ASSUME NEW c \in DragClients PROVE TakesTurns(c)'
    BY DEF InTurn
  <2>1. carries'[c] # 0 => client[c].acting = TRUE
    <3>1. CASE c = m
      BY <3>1, MachinesAre DEF DR!BeginDrag, DR!There, DragTypes
    <3>2. CASE c # m
      BY <1>5, <3>2, MachinesAre
    <3> QED
      BY <3>1, <3>2
  <2>2. TakesTurns(c)
    BY DEF Promised, InTurn
  <2> QED
    BY <1>0, <2>1, <2>2 DEF TakesTurns
<1>11. Held'
  <2> SUFFICES ASSUME NEW x \in DR!Begun' \ missed', holdOf'[x] = hold PROVE Holding(x)'
    BY <1>0 DEF Held
  <2>1. x = d
    BY <1>d, <1>2 DEF DragTypes, DR!Begun
  <2>2. d \notin dropped'
    BY <1>0, <1>2 DEF Promised, Alone
  <2>3. ASSUME NEW c \in DragClients
        PROVE  /\ MovedBefore(hub'.out[c], d)
               /\ IsOn(d, c)' => Unmoved(hub'.out[c])
               /\ carries'[c] = d => client'[c].down = TRUE
    <3>1. c \in DR!Machines /\ c # DragHub
      BY MachinesAre
    <3>2. MovedBefore(hub'.out[c], d)
      BY <1>0, <1>4 DEF MovedBefore, Alive, IsSaid
    <3>3. IsOn(d, c)' => c = m
      BY <1>0, <1>1, <1>4, <1>5, <3>1 DEF IsOn, Alive
    <3>4. c = m => Unmoved(hub'.out[c])
      <4>1. DOMAIN hub.out[c] = 1 .. Len(hub.out[c])
        BY QueuesAre
      <4> QED
        BY <1>0, <3>1, <4>1 DEF DR!BeginDrag, Unmoved
    <3>5. c = m => client'[c].down = TRUE
      BY <1>0, <3>1 DEF DR!BeginDrag, DragTypes
    <3>6. carries'[c] = d => c = m
      BY <1>1, <1>5, <3>1
    <3> QED
      BY <3>2, <3>3, <3>4, <3>5, <3>6
  <2> QED
    BY <2>1, <2>2, <2>3 DEF Holding
<1>12. Somewhere'
  <2> SUFFICES ASSUME NEW x \in Astray' PROVE UnderPointer(x)' \/ OnItsWay(x)'
    BY DEF Somewhere, Astray
  <2>1. x = d
    <3>1. SUFFICES ASSUME x # d PROVE FALSE
      OBVIOUS
    <3>2. x \in DR!Drags /\ x \notin missed'
      BY DEF Astray, DR!Begun, DR!Drags
    <3>3. x \in Astray
      BY <1>0, <1>2, <1>7, <3>1, <3>2 DEF Astray
    <3>4. Alive(x)
      BY <3>2, <3>3, SomewhereIsAlive DEF Promised, Somewhere, Astray
    <3> QED
      BY <1>7, <3>2, <3>4
  <2>2. \A n \in DR!Machines : share[n].pending # d /\ share[n].pulling # d
    BY <1>4 DEF Alive, IsOn
  <2>3. \A c \in DragClients : ~IsSaid(d, hub.out[c]) /\ ~IsSaid(d, up[c])
    BY <1>4 DEF Alive
  <2>4. UnderPointer(d)'
    BY <1>0, <1>1, <1>5, <2>2, <2>3 DEF UnderPointer
  <2> QED
    BY <2>1, <2>4
<1> QED
  BY <1>9, <1>10, <1>11, <1>12 DEF Promised

\* What is said to the machine the cursor goes to with a drag.
LEMMA LadenQueue ==
  ASSUME NEW q \in Seq(DragMsg), Alternates(q), NEW d \in DR!Drags, NEW b \in BOOLEAN,
         NEW r, r = Append(Append(q, DR!Offered(d)), DR!Carried(d)),
         NEW s, s = Append(r, DR!Enter(b))
  PROVE  /\ r \in Seq(DragMsg) /\ Milder(q, r)
         /\ \A x : Quieter(q, s, x)
         /\ Offers(q, s, d) /\ NewsIn(s, d)
<1>o. PICK o \in DragMsg : o = DR!Offered(d) /\ o.kind = "Offer" /\ o.drag = d
  BY MessagesAre
<1>n. PICK n \in DragMsg : n = DR!Carried(d) /\ n.kind = "Dragging" /\ n.drag = d
  BY MessagesAre
<1>m. PICK m \in DragMsg : m = DR!Enter(b) /\ m.kind = "Enter" /\ m.drag = 0
  BY MessagesAre
<1>p. PICK p : p = Append(q, DR!Offered(d))
  OBVIOUS
<1>1. p = Append(q, o) /\ r = Append(p, n) /\ s = Append(r, m)
  BY <1>o, <1>n, <1>m, <1>p
<1>2. p \in Seq(DragMsg) /\ r \in Seq(DragMsg) /\ s \in Seq(DragMsg)
  BY <1>1, PutLast
<1>3. Milder(q, p)
  BY <1>1, <1>o, MildIsMilder DEF MildStep
<1>4. Milder(p, r)
  BY <1>1, <1>2, <1>3, <1>n, MildIsMilder DEF MildStep, Milder
<1>5. Milder(q, r)
  BY <1>3, <1>4 DEF Milder
<1>6. ASSUME NEW x PROVE Quieter(q, s, x)
  <2>1. Quieter(q, p, x)
    BY <1>1, <1>o, QuietIsQuieter DEF QuietStep
  <2>2. Quieter(p, r, x)
    BY <1>1, <1>2, <1>n, QuietIsQuieter DEF QuietStep
  <2>3. Quieter(r, s, x)
    BY <1>1, <1>2, <1>m, QuietIsQuieter DEF QuietStep
  <2> QED
    BY <2>1, <2>2, <2>3 DEF Quieter
<1>0. Offers(q, p, d)
  BY <1>p, OfferedThere
<1>7. /\ OfferIn(p, d)
      /\ ~IsSaid(d, q) => OfferFirst(p, d)
      /\ \A e \in DR!Drags : IsSaid(e, p) => IsSaid(e, q) \/ e = d
  BY <1>0 DEF Offers
<1>8. /\ NewsIn(r, d) /\ (OfferFirst(p, d) => OfferFirst(r, d))
      /\ \A e : IsSaid(e, r) => IsSaid(e, p) \/ e = d
  BY <1>1, <1>2, <1>7, <1>n, CarriedThere
<1>9. OfferIn(r, d)
  <2>1. OfferIn(Append(p, n), d) <=> OfferIn(p, d) \/ (n.kind = "Offer" /\ n.drag = d)
    BY <1>2, SaidWithMore
  <2> QED
    BY <1>1, <1>7, <2>1
<1>10. \A e \in DR!Drags : LessSaid(r, s, e)
  BY <1>1, <1>2, <1>m, PlainSaysLess DEF PlainStep
<1>11. OfferIn(s, d) /\ NewsIn(s, d) /\ (OfferFirst(r, d) => OfferFirst(s, d))
  BY <1>8, <1>9, <1>10 DEF LessSaid
<1>12. \A e \in DR!Drags : IsSaid(e, s) => IsSaid(e, q) \/ e = d
  BY <1>7, <1>8, <1>10 DEF LessSaid
<1> QED
  BY <1>2, <1>5, <1>6, <1>7, <1>8, <1>11, <1>12 DEF Offers

\* The cursor leaves home with nothing picked up.
LEMMA EmptyPromises ==
  ASSUME DragTypes, HomeFollows, Whole', Promised, NEW c \in DragClients, NEW h, NEW r,
         hub.active = DragHub, Looked(c, r, carries[DragHub]), Leaving(h, c), Empty(c, r, h),
         r \in {"nothing", "caught", "unnoticed", "released", "late"}
  PROVE  Promised'
<1>0. UNCHANGED <<share, client, up, closed, left, hold, holdOf, origin, landed>>
  BY DEF Looked, Empty
<1>1. hub'.active = c /\ Hear(hub.out, {c}, DR!Enter(left), hub'.out)
  BY <1>0, EmptyTells
<1>m. PICK m \in DragMsg : m = DR!Enter(left) /\ m.kind = "Enter" /\ m.drag = 0
  BY MessagesAre DEF DragTypes
<1>2. PlainlySaid
  BY <1>1, <1>m, HearPlain
<1>3. dropped' = dropped
  BY DEF Looked, Empty
<1>4. /\ missed \subseteq missed'
      /\ r # "nothing" => carries[DragHub] \in missed'
  BY DEF Looked, Empty, DR!Costs
<1>5. /\ \A n \in DR!Machines : n # DragHub => carries'[n] = carries[n]
      /\ carries'[DragHub] = carries[DragHub]
           \/ (carries'[DragHub] = 0 /\ r # "nothing")
  BY MachinesAre DEF Looked, Empty, DragTypes
<1>6. LetsGo
  BY <1>4, <1>5 DEF LetsGo
<1>7. Drops /\ Misses
  BY <1>0, <1>3, <1>4 DEF Drops, Misses
<1>8. Alone' /\ Somewhere'
  BY <1>0, <1>2, <1>6, <1>7, StillCounts, PlainSafe DEF Promised
<1>9. ASSUME NEW x \in DragClients PROVE TakesTurns(x)'
  <2>1. TakesTurns(x) /\ x # DragHub /\ x \in DR!Machines
    BY MachinesAre DEF Promised, InTurn
  <2>2. CASE x = c
    <3>b. PICK b \in BOOLEAN : b = left
      BY DEF DragTypes
    <3>1. Milder(hub.out[x], hub.out[x])
      BY <2>1 DEF Milder, TakesTurns
    <3>2. hub'.out[x] = Append(hub.out[x], DR!Enter(b))
      BY <1>1, <2>2, <3>b DEF Hear
    <3>3. carries'[x] = carries[x]
      BY <1>5, <2>1
    <3>4. hub.active # x /\ hub'.active = x
      BY <1>1, <2>1, <2>2
    <3> QED
      BY <1>0, <2>1, <3>1, <3>2, <3>3, <3>4, QueuesAre, TurnComes
  <2>3. CASE x # c
    <3>1. hub'.out[x] = hub.out[x]
      BY <1>1, <2>3 DEF Hear
    <3> QED
      BY <1>0, <1>1, <1>5, <2>1, <2>3, <3>1 DEF TakesTurns
  <2> QED
    BY <2>2, <2>3
<1>10. ASSUME NEW d \in DR!Begun \ missed', Holding(d) PROVE Holding(d)'
  <2>1. \A x \in DragClients : QuietStep(hub.out[x], hub'.out[x])
    BY <1>1, <1>m DEF QuietStep, Hear
  <2>2. \A x \in DragClients : Quieter(hub.out[x], hub'.out[x], d)
    BY <2>1, QueuesAre, QuietIsQuieter
  <2>3. d \notin dropped'
    BY <1>3, <1>10 DEF Holding
  <2>4. \A x \in DragClients : carries'[x] = carries[x]
    BY <1>5, MachinesAre
  <2>5. \A x \in DragClients : IsOn(d, x)' => IsOn(d, x)
    BY <1>0, <2>4 DEF IsOn
  <2> QED
    BY <1>0, <1>10, <2>2, <2>3, <2>4, <2>5, HoldingStays
<1>11. Held'
  BY <1>0, <1>4, <1>10, HeldStays DEF Promised
<1> QED
  BY <1>8, <1>9, <1>11 DEF Promised, InTurn

\* The cursor leaves home with a drag.
LEMMA LadenPromises ==
  ASSUME DragTypes, HomeFollows, Whole', Promised, NEW c \in DragClients, NEW h, NEW r,
         hub.active = DragHub, Leaving(h, c), NEW d \in DR!Drags, d = carries[DragHub],
         Looked(c, r, d), NEW h1, NEW h2, Laden(c, r, d, h, h1, h2)
  PROVE  Promised'
<1>0. UNCHANGED <<client, up, closed, left, hold, holdOf, landed>>
  BY DEF Looked
<1>a. c \in DR!Machines /\ c # DragHub /\ DragHub \in DR!Machines
  BY MachinesAre
<1>b. PICK b \in BOOLEAN : b = left
  BY DEF DragTypes
<1>1. /\ hub'.active = c /\ h1.active = c
      /\ hub'.out[c] = Append(Append(Append(hub.out[c], DR!Offered(d)), DR!Carried(d)),
                              DR!Enter(b))
      /\ \A x \in DragClients : x # c => hub'.out[x] = Append(hub.out[x], DR!Offered(d))
  BY <1>0, <1>b, LadenTells
<1>2. /\ missed' = missed \/ missed' = missed \cup {d}
      /\ r = "late" => d \in missed'
      /\ dropped' = IF r = "late" THEN dropped \cup {d} ELSE dropped
  BY DEF Looked, DR!Costs
<1>3. /\ carries'[DragHub] = 0
      /\ \A n \in DR!Machines : n # DragHub => carries'[n] = carries[n]
  BY <1>a DEF Looked, Laden, DragTypes
<1>4. /\ share'[DragHub].offer = d
      /\ \A n \in DR!Machines : /\ share'[n].pending = share[n].pending
                                /\ share'[n].pulling = share[n].pulling
  <2>p. PICK o : o = [share[DragHub] EXCEPT !.offer = d,
                                            !.pending = share[DragHub].pending]
    OBVIOUS
  <2>1. share' = [share EXCEPT ![DragHub] = o]
    BY <1>1, <1>a, <2>p DEF Laden
  <2>2. share[DragHub] \in ShareType
    BY <1>a DEF DragTypes
  <2>3. /\ o.offer = d /\ o.pending = share[DragHub].pending
        /\ o.pulling = share[DragHub].pulling
    BY <2>2, <2>p DEF ShareType
  <2>4. /\ share'[DragHub] = o
        /\ \A n \in DR!Machines : n # DragHub => share'[n] = share[n]
    BY <1>a, <2>1 DEF DragTypes
  <2> QED
    BY <2>3, <2>4
<1>5. origin'[d] = DragHub
  BY DEF Laden, DragTypes
<1>6. Caught(d, DragHub)
  BY <1>2, <1>3, <1>4, <1>5 DEF Caught
<1>7. \A x \in DragClients : hub.out[x] \in Seq(DragMsg) /\ Alternates(hub.out[x])
  BY QueuesAre DEF Promised, InTurn, TakesTurns
<1>s. PICK s : s = Append(Append(hub.out[c], DR!Offered(d)), DR!Carried(d))
  OBVIOUS
<1>8. /\ s \in Seq(DragMsg) /\ Milder(hub.out[c], s)
      /\ \A x : Quieter(hub.out[c], hub'.out[c], x)
      /\ Offers(hub.out[c], hub'.out[c], d) /\ NewsIn(hub'.out[c], d)
  <2>u. PICK u : u = hub'.out[c] /\ u = Append(s, DR!Enter(b))
    BY <1>1, <1>s
  <2>q. PICK q \in Seq(DragMsg) : q = hub.out[c] /\ Alternates(q)
    BY <1>7
  <2>1. s = Append(Append(q, DR!Offered(d)), DR!Carried(d))
    BY <1>s, <2>q
  <2>2. /\ s \in Seq(DragMsg) /\ Milder(q, s)
        /\ \A x : Quieter(q, u, x)
        /\ Offers(q, u, d) /\ NewsIn(u, d)
    BY <2>q, <2>u, <2>1, LadenQueue
  <2> QED
    BY <2>q, <2>u, <2>2
<1>9. ASSUME NEW x \in DragClients, x # c
      PROVE  Offers(hub.out[x], hub'.out[x], d)
  BY <1>1, <1>7, <1>9, OfferedThere
<1>10. SaidOnlyOf(d)
  BY <1>0, <1>8, <1>9 DEF SaidOnlyOf, Offers
<1>11. UnderPointer(d) => Announced(d, DragHub)
  BY <1>0, <1>8, <1>9 DEF UnderPointer, Announced, Offers
<1>12. Misses
  BY <1>0, <1>2 DEF Misses
<1>13. Alone' /\ Somewhere'
  <2>1. \E x \in DragClients : NewsIn(hub'.out[x], d) \/ NewsIn(up'[x], d)
    BY <1>8
  <2>2. Counts
    BY <1>0, StillCounts DEF Promised
  <2> QED
    BY <1>0, <1>6, <1>10, <1>11, <1>12, <1>a, <2>1, <2>2, CaughtGoes DEF Promised
<1>14. ASSUME NEW x \in DragClients PROVE TakesTurns(x)'
  <2>1. TakesTurns(x) /\ x # DragHub /\ x \in DR!Machines
    BY MachinesAre DEF Promised, InTurn
  <2>2. carries'[x] = carries[x]
    BY <1>3, <2>1
  <2>3. CASE x = c
    <3>1. hub'.out[c] = Append(s, DR!Enter(b))
      BY <1>1, <1>s
    <3>2. hub.active # c
      BY <1>a
    <3> QED
      BY <1>0, <1>1, <1>8, <2>1, <2>2, <2>3, <3>1, <3>2, TurnComes
  <2>4. CASE x # c
    <3>1. MildStep(hub.out[x], hub'.out[x])
      BY <1>1, <2>4, MessagesAre DEF MildStep
    <3>2. Milder(hub.out[x], hub'.out[x])
      BY <1>7, <3>1, MildIsMilder
    <3>3. carries'[x] # 0 => client[x].acting = TRUE
      BY <2>1, <2>2 DEF TakesTurns
    <3>4. hub.active # x
      BY <2>1
    <3> QED
      BY <1>0, <2>1, <3>2, <3>3, <3>4, TurnStays
  <2> QED
    BY <2>3, <2>4
<1>15. ASSUME NEW y \in DR!Begun \ missed', Holding(y) PROVE Holding(y)'
  <2>1. ASSUME NEW x \in DragClients PROVE Quieter(hub.out[x], hub'.out[x], y)
    <3>1. CASE x = c
      BY <1>8, <3>1
    <3>2. CASE x # c
      <4>1. QuietStep(hub.out[x], hub'.out[x])
        BY <1>1, <3>2, MessagesAre DEF QuietStep
      <4> QED
        BY <1>7, <4>1, QuietIsQuieter
    <3> QED
      BY <3>1, <3>2
  <2>2. y \notin dropped'
    BY <1>2, <1>15 DEF Holding
  <2>3. \A x \in DragClients : carries'[x] = carries[x]
    BY <1>3, MachinesAre
  <2>4. \A x \in DragClients : IsOn(y, x)' => IsOn(y, x)
    BY <1>4, <2>3, MachinesAre DEF IsOn
  <2> QED
    BY <1>0, <1>15, <2>1, <2>2, <2>3, <2>4, HoldingStays
<1>16. Held'
  BY <1>0, <1>12, <1>15, HeldStays DEF Promised, Misses
<1> QED
  BY <1>13, <1>14, <1>16 DEF Promised, InTurn

LEMMA CrossOutPromises ==
  ASSUME DragTypes, HomeFollows, Whole', Promised, NEW c \in DragClients, DR!CrossOut(c)
  PROVE  Promised'
<1>d. PICK d : d = carries[DragHub]
  OBVIOUS
<1>1. PICK h : \E r \in DR!Catches(left, d) :
              /\ hub.active = DragHub
              /\ Looked(c, r, d) /\ Leaving(h, c)
              /\ Empty(c, r, h) \/ \E h1, h2 : Laden(c, r, d, h, h1, h2)
  BY <1>d, CrossOutIs
<1>2. PICK r \in DR!Catches(left, d) :
              /\ hub.active = DragHub
              /\ Looked(c, r, d) /\ Leaving(h, c)
              /\ Empty(c, r, h) \/ \E h1, h2 : Laden(c, r, d, h, h1, h2)
  BY <1>1
<1>3. CASE Empty(c, r, h)
  <2>1. r \in {"nothing", "caught", "unnoticed", "released", "late"}
    BY CaughtIsThere
  <2> QED
    BY <1>2, <1>3, <1>d, <2>1, EmptyPromises
<1>4. CASE \E h1, h2 : Laden(c, r, d, h, h1, h2)
  <2>1. PICK h1, h2 : Laden(c, r, d, h, h1, h2)
    BY <1>4
  <2>2. r # "nothing"
    BY <2>1 DEF Laden
  <2>3. d # 0
    BY <2>2, CaughtIsThere
  <2>4. d \in DR!Drags
    BY <1>d, <2>3, MachinesAre DEF DragTypes
  <2> QED
    BY <1>2, <1>d, <2>1, <2>4, LadenPromises
<1> QED
  BY <1>2, <1>3, <1>4

\* What a client hears is the first of what it was told.
LEMMA HeardIs ==
  ASSUME DragTypes, HomeFollows, NEW c \in DragClients, hub.out[c] # <<>>, DR!Heard(c)
  PROVE  /\ hub'.active = hub.active /\ hub'.attached = hub.attached
         /\ hub'.out[c] = Tail(hub.out[c])
         /\ \A x \in DragClients : x # c => hub'.out[x] = hub.out[x]
         /\ \A d : \A x \in DragClients : Quieter(hub.out[x], hub'.out[x], d)
         /\ Head(hub.out[c]) \in DragMsg
         /\ Head(hub.out[c]).drag = 0 => PlainlySaid
<1>1. hub' = [hub EXCEPT !.out = [@ EXCEPT ![c] = Tail(hub.out[c])]]
  BY DEF DR!Heard, DragTypes, HubType
<1>2. /\ hub'.active = hub.active /\ hub'.attached = hub.attached
      /\ hub'.out = [hub.out EXCEPT ![c] = Tail(hub.out[c])]
  BY <1>1 DEF DragTypes, HubType
<1>3. /\ hub'.out[c] = Tail(hub.out[c])
      /\ \A x \in DragClients : x # c => hub'.out[x] = hub.out[x]
  BY <1>2 DEF DragTypes, HubType
<1>4. \A x \in DragClients : QuietStep(hub.out[x], hub'.out[x])
  BY <1>3 DEF QuietStep
<1>5. ASSUME NEW x \in DragClients, NEW d PROVE Quieter(hub.out[x], hub'.out[x], d)
  BY <1>4, QueuesAre, QuietIsQuieter
<1>6. Head(hub.out[c]) \in DragMsg
  BY QueuesAre, TakeFirst
<1>7. Head(hub.out[c]).drag = 0 => PlainlySaid
  BY <1>3 DEF PlainlySaid, PlainStep
<1> QED
  BY <1>2, <1>3, <1>5, <1>6, <1>7

\* Whoever does not hear anything goes on as before.
LEMMA OthersTurn ==
  ASSUME NEW x \in DragClients, TakesTurns(x), hub'.out[x] = hub.out[x],
         hub'.active = hub.active, client'[x] = client[x], carries'[x] = carries[x]
  PROVE  TakesTurns(x)'
BY DEF TakesTurns

\* A machine in charge does not hear that it is to be.
LEMMA ChargeIsTakenOnce ==
  ASSUME DragTypes, NEW c \in DragClients, hub.out[c] # <<>>, TakesTurns(c),
         Head(hub.out[c]).kind = "Enter"
  PROVE  carries[c] = 0
<1>1. Len(hub.out[c]) \in Nat /\ Len(hub.out[c]) >= 1 /\ Head(hub.out[c]) = hub.out[c][1]
  BY QueuesAre, TakeFirst
<1>2. ~LeaveFirst(hub.out[c])
  BY <1>1 DEF LeaveFirst
<1> QED
  BY <1>2 DEF TakesTurns

LEMMA HearEnterPromises ==
  ASSUME DragTypes, HomeFollows, Promised, NEW c \in DragClients, hub.out[c] # <<>>,
         DR!HearEnter(c)
  PROVE  Promised'
<1>0. /\ UNCHANGED <<share, up, carries, left, hold, holdOf, origin, dropped, landed, missed>>
      /\ Head(hub.out[c]).kind = "Enter" /\ DR!Heard(c)
      /\ client'[c].acting = TRUE
      /\ \A x \in DragClients : x # c => client'[x] = client[x]
  BY DEF DR!HearEnter, DR!happened, DragTypes
<1>1. /\ hub'.active = hub.active /\ hub'.out[c] = Tail(hub.out[c])
      /\ \A x \in DragClients : x # c => hub'.out[x] = hub.out[x]
      /\ \A d : \A x \in DragClients : Quieter(hub.out[x], hub'.out[x], d)
      /\ PlainlySaid
  BY <1>0, HeardIs, NamesADrag
<1>2. Drops /\ LetsGo /\ Misses
  BY <1>0 DEF Drops, LetsGo, Misses
<1>3. Alone' /\ Somewhere'
  BY <1>0, <1>1, <1>2, StillCounts, PlainSafe DEF Promised
<1>4. ASSUME NEW x \in DragClients PROVE TakesTurns(x)'
  <2>1. TakesTurns(x)
    BY DEF Promised, InTurn
  <2>2. CASE x = c
    BY <1>0, <1>1, <2>1, <2>2, QueuesAre, TurnHeard
  <2>3. CASE x # c
    BY <1>0, <1>1, <2>1, <2>3, OthersTurn
  <2> QED
    BY <2>2, <2>3
<1>5. carries[c] = 0
  BY <1>0, ChargeIsTakenOnce DEF Promised, InTurn
<1>6. ASSUME NEW d \in DR!Begun \ missed', Holding(d) PROVE Holding(d)'
  <2>1. d # 0
    BY MachinesAre DEF DR!Begun
  <2>2. d \notin dropped'
    BY <1>0, <1>6 DEF Holding
  <2>3. \A x \in DragClients : IsOn(d, x)' => IsOn(d, x)
    BY <1>0 DEF IsOn
  <2>4. \A x \in DragClients :
          carries'[x] = d => carries[x] = d /\ client'[x].down = client[x].down
    BY <1>0, <1>5, <2>1
  <2> QED
    BY <1>1, <1>6, <2>2, <2>3, <2>4, HoldingStays
<1>7. Held'
  BY <1>0, <1>6, HeldStays DEF Promised
<1> QED
  BY <1>3, <1>4, <1>7 DEF Promised, InTurn

LEMMA HearButtonPromises ==
  ASSUME DragTypes, HomeFollows, Promised, NEW c \in DragClients, hub.out[c] # <<>>,
         DR!HearButton(c)
  PROVE  Promised'
<1>0. /\ UNCHANGED <<share, up, left, hold, holdOf, origin, landed, missed>>
      /\ Head(hub.out[c]).kind = "Button" /\ DR!Heard(c)
      /\ client'[c].acting = client[c].acting
      /\ \A x \in DragClients : x # c => client'[x] = client[x]
  BY DEF DR!HearButton, DR!happened, DragTypes
<1>a. c \in DR!Machines
  BY MachinesAre
<1>1. /\ hub'.active = hub.active /\ hub'.out[c] = Tail(hub.out[c])
      /\ \A x \in DragClients : x # c => hub'.out[x] = hub.out[x]
      /\ \A d : \A x \in DragClients : Quieter(hub.out[x], hub'.out[x], d)
      /\ PlainlySaid
  BY <1>0, HeardIs, NamesADrag
<1>2. \/ UNCHANGED <<dropped, carries>>
      \/ dropped' = dropped \cup DR!Letting(c) /\ carries' = [carries EXCEPT ![c] = 0]
  BY DEF DR!HearButton
<1>3. Drops /\ LetsGo /\ dropped \subseteq dropped'
  <2>1. CASE UNCHANGED <<dropped, carries>>
    BY <2>1 DEF Drops, LetsGo
  <2>2. CASE dropped' = dropped \cup DR!Letting(c) /\ carries' = [carries EXCEPT ![c] = 0]
    BY <1>a, <2>2, LettingIs
  <2> QED
    BY <1>2, <2>1, <2>2
<1>4. /\ \A x \in DragClients : x # c => carries'[x] = carries[x]
      /\ carries'[c] \in {carries[c], 0}
      /\ \A d \in dropped' : d \in dropped \/ d = carries[c]
  BY <1>2, <1>a, MachinesAre DEF DragTypes, DR!Letting
<1>5. Misses
  BY <1>0, <1>3 DEF Misses
<1>6. Alone' /\ Somewhere'
  BY <1>0, <1>1, <1>3, <1>5, StillCounts, PlainSafe DEF Promised
<1>7. ASSUME NEW x \in DragClients PROVE TakesTurns(x)'
  <2>1. TakesTurns(x)
    BY DEF Promised, InTurn
  <2>2. CASE x = c
    <3>1. MildStep(hub.out[c], hub'.out[c])
      BY <1>0, <1>1 DEF MildStep
    <3>2. Milder(hub.out[c], hub'.out[c])
      BY <2>1, <2>2, <3>1, QueuesAre, MildIsMilder DEF TakesTurns
    <3>3. carries'[c] # 0 => client[c].acting = TRUE
      BY <1>4, <2>1, <2>2 DEF TakesTurns
    <3> QED
      BY <1>0, <1>1, <2>1, <2>2, <3>2, <3>3, TurnStays
  <2>3. CASE x # c
    BY <1>0, <1>1, <1>4, <2>1, <2>3, OthersTurn
  <2> QED
    BY <2>2, <2>3
<1>8. ASSUME NEW d \in DR!Begun \ missed', Holding(d) PROVE Holding(d)'
  <2>0. d # 0
    BY MachinesAre DEF DR!Begun
  <2>1. carries[c] # d
    <3>1. IsOn(d, c) => Unmoved(hub.out[c])
      BY <1>8 DEF Holding
    <3>2. ~Unmoved(hub.out[c])
      BY <1>0, QueuesAre, ButtonsWithLess
    <3> QED
      BY <3>1, <3>2 DEF IsOn
  <2>2. d \notin dropped'
    BY <1>4, <1>8, <2>1 DEF Holding
  <2>3. \A x \in DragClients : IsOn(d, x)' => IsOn(d, x)
    BY <1>0, <1>4, <2>0 DEF IsOn
  <2>4. \A x \in DragClients :
          carries'[x] = d => carries[x] = d /\ client'[x].down = client[x].down
    BY <1>0, <1>4, <2>0, <2>1
  <2> QED
    BY <1>1, <1>8, <2>2, <2>3, <2>4, HoldingStays
<1>9. Held'
  BY <1>0, <1>8, HeldStays DEF Promised
<1> QED
  BY <1>6, <1>7, <1>9 DEF Promised, InTurn

\* What a machine says that was left with a drag.
LEMMA LeaverSays ==
  ASSUME NEW q \in Seq(DragMsg), NEW d \in DR!Drags,
         NEW r, r = q \o <<DR!Offered(d), DR!Carried(d)>>
  PROVE  /\ NewsIn(r, d) /\ (~IsSaid(d, q) => OfferFirst(r, d))
         /\ \A e \in DR!Drags : IsSaid(e, r) => IsSaid(e, q) \/ e = d
<1>o. PICK o \in DragMsg : o = DR!Offered(d)
  BY MessagesAre
<1>n. PICK n \in DragMsg : n = DR!Carried(d)
  BY MessagesAre
<1>p. PICK p \in Seq(DragMsg) : p = Append(q, DR!Offered(d)) /\ p = Append(q, o)
  BY <1>o, PutLast
<1>1. r = Append(p, n)
  <2>1. r = q \o <<o, n>>
    BY <1>o, <1>n
  <2> HIDE DEF DragMsg
  <2> QED
    BY <1>p, <2>1
<1>2. Offers(q, p, d)
  BY <1>p, OfferedThere
<1>3. /\ OfferIn(p, d) /\ (~IsSaid(d, q) => OfferFirst(p, d))
      /\ \A e \in DR!Drags : IsSaid(e, p) => IsSaid(e, q) \/ e = d
  BY <1>2 DEF Offers
<1>4. r = Append(p, DR!Carried(d))
  BY <1>1, <1>n
<1>5. /\ NewsIn(r, d) /\ (OfferFirst(p, d) => OfferFirst(r, d))
      /\ \A e : IsSaid(e, r) => IsSaid(e, p) \/ e = d
  BY <1>3, <1>4, CarriedThere
<1> QED
  BY <1>3, <1>5

\* Being left, with nothing that the machine that is left sees the last of.
LEMMA LeaveEmpty ==
  ASSUME DragTypes, Promised, NEW c \in DragClients, PlainlySaid,
         NEW r \in DR!Catches(client[c].down, carries[c]), r \notin {"caught", "late"},
         DR!Costs(r, carries[c]), dropped' = dropped \cup DR!Letting(c),
         carries' = [carries EXCEPT ![c] = 0],
         UNCHANGED <<share, up, origin, left, hold, holdOf, landed>>
  PROVE  /\ Alone' /\ Somewhere'
         /\ missed \subseteq missed'
         /\ \A d \in DR!Begun \ missed' : Holding(d) => d \notin dropped'
<1>a. c \in DR!Machines
  BY MachinesAre
<1>1. Drops /\ LetsGo /\ dropped \subseteq dropped'
  BY <1>a, LettingIs
<1>2. missed \subseteq missed' /\ (r # "nothing" => carries[c] \in missed')
  BY DEF DR!Costs
<1>3. Misses
  BY <1>1, <1>2 DEF Misses
<1>4. Alone' /\ Somewhere'
  BY <1>1, <1>3, StillCounts, PlainSafe DEF Promised
<1>5. ASSUME NEW d \in DR!Begun \ missed', Holding(d), d \in dropped' PROVE FALSE
  <2>1. carries[c] = d /\ d # 0
    BY <1>5, MachinesAre DEF Holding, DR!Letting, DR!Begun
  <2>2. client[c].down = TRUE
    BY <1>5, <2>1 DEF Holding
  <2>3. r # "nothing"
    BY <2>1, <2>2, CaughtIsThere
  <2> QED
    BY <1>2, <2>1, <2>3
<1> QED
  BY <1>2, <1>4, <1>5

\* Being left with a drag that is caught.
LEMMA LeaveLaden ==
  ASSUME DragTypes, Promised, NEW c \in DragClients,
         \A x \in DragClients, e \in DR!Drags : LessSaid(hub.out[x], hub'.out[x], e),
         NEW d \in DR!Drags, d = carries[c],
         NEW r, r \in {"caught", "late"}, DR!Costs(r, d),
         dropped' = IF r = "caught" THEN dropped ELSE dropped \cup DR!Letting(c),
         carries' = [carries EXCEPT ![c] = 0],
         share' = [share EXCEPT ![c].offer = d],
         up' = [up EXCEPT ![c] = @ \o <<DR!Offered(d), DR!Carried(d)>>],
         origin' = [origin EXCEPT ![d] = c],
         UNCHANGED <<left, hold, holdOf, landed>>
  PROVE  /\ Alone' /\ Somewhere'
         /\ missed \subseteq missed'
         /\ \A y \in DR!Begun \ missed' : Holding(y) => y \notin dropped'
         /\ \A n \in DR!Machines : /\ share'[n].pending = share[n].pending
                                   /\ share'[n].pulling = share[n].pulling
<1>a. c \in DR!Machines /\ c # DragHub
  BY MachinesAre
<1>1. /\ missed \subseteq missed'
      /\ r = "late" => d \in missed'
      /\ dropped \subseteq dropped' /\ \A e \in dropped' : e \in dropped \/ (e = d /\ r = "late")
  BY DEF DR!Costs, DR!Letting
<1>2. /\ carries'[c] = 0
      /\ \A n \in DR!Machines : n # c => carries'[n] = carries[n]
  BY <1>a DEF DragTypes
<1>3. /\ share'[c].offer = d
      /\ \A n \in DR!Machines : /\ share'[n].pending = share[n].pending
                                /\ share'[n].pulling = share[n].pulling
  BY <1>a DEF DragTypes, ShareType
<1>4. origin'[d] = c
  BY DEF DragTypes
<1>5. Caught(d, c)
  BY <1>1, <1>2, <1>3, <1>4 DEF Caught
<1>6. /\ up'[c] = up[c] \o <<DR!Offered(d), DR!Carried(d)>>
      /\ \A x \in DragClients : x # c => up'[x] = up[x]
  BY DEF DragTypes
<1>q. PICK q \in Seq(DragMsg) : q = up[c]
  BY QueuesAre
<1>7. /\ NewsIn(up'[c], d) /\ (~IsSaid(d, up[c]) => OfferFirst(up'[c], d))
      /\ \A e \in DR!Drags : IsSaid(e, up'[c]) => IsSaid(e, up[c]) \/ e = d
  BY <1>6, <1>q, LeaverSays
<1>8. SaidOnlyOf(d)
  BY <1>6, <1>7 DEF SaidOnlyOf, LessSaid
<1>9. UnderPointer(d) => Announced(d, c)
  <2> SUFFICES ASSUME UnderPointer(d), NEW x \in DragClients
               PROVE  /\ IsSaid(d, up'[x]) => x = c
                      /\ OfferFirst(hub'.out[x], d)
                      /\ OfferFirst(up'[x], d)
    BY <1>a DEF Announced
  <2>1. ~IsSaid(d, hub.out[x]) /\ ~IsSaid(d, up[x])
    BY DEF UnderPointer
  <2>2. ~IsSaid(d, hub'.out[x])
    BY <2>1 DEF LessSaid
  <2>3. OfferFirst(hub'.out[x], d)
    BY <2>2 DEF OfferFirst, IsSaid
  <2>4. x # c => ~IsSaid(d, up'[x])
    BY <1>6, <2>1
  <2>5. x # c => OfferFirst(up'[x], d)
    BY <2>4 DEF OfferFirst, IsSaid
  <2>6. x = c => OfferFirst(up'[x], d)
    BY <1>7, <2>1
  <2> QED
    BY <2>3, <2>4, <2>5, <2>6
<1>10. Misses
  BY <1>1 DEF Misses
<1>11. Counts
  BY StillCounts DEF Promised
<1>12. Alone' /\ Somewhere'
  BY <1>5, <1>7, <1>8, <1>9, <1>10, <1>11, <1>a, CaughtGoes DEF Promised
<1>13. \A y \in DR!Begun \ missed' : Holding(y) => y \notin dropped'
  BY <1>1 DEF Holding
<1> QED
  BY <1>1, <1>3, <1>12, <1>13

LEMMA HearLeavePromises ==
  ASSUME DragTypes, HomeFollows, Promised, NEW c \in DragClients, hub.out[c] # <<>>,
         DR!HearLeave(c)
  PROVE  Promised'
<1>0. /\ UNCHANGED <<left, hold, holdOf, landed>>
      /\ Head(hub.out[c]).kind = "Leave" /\ DR!Heard(c)
      /\ client'[c].acting = FALSE
      /\ \A x \in DragClients : x # c => client'[x] = client[x]
      /\ carries' = [carries EXCEPT ![c] = 0]
  BY DEF DR!HearLeave, DragTypes
<1>a. c \in DR!Machines
  BY MachinesAre
<1>1. /\ hub'.active = hub.active /\ hub'.out[c] = Tail(hub.out[c])
      /\ \A x \in DragClients : x # c => hub'.out[x] = hub.out[x]
      /\ \A d : \A x \in DragClients : Quieter(hub.out[x], hub'.out[x], d)
      /\ PlainlySaid
  BY <1>0, HeardIs, NamesADrag
<1>2. /\ carries'[c] = 0
      /\ \A x \in DragClients : x # c => carries'[x] = carries[x]
  BY <1>0, <1>a, MachinesAre DEF DragTypes
<1>r. PICK r \in DR!Catches(client[c].down, carries[c]) :
        /\ DR!Costs(r, carries[c])
        /\ dropped' = IF r = "caught" THEN dropped ELSE dropped \cup DR!Letting(c)
        /\ IF r \in {"caught", "late"}
             THEN /\ share' = [share EXCEPT ![c].offer = carries[c]]
                  /\ up' = [up EXCEPT ![c] = @ \o <<DR!Offered(carries[c]),
                                                    DR!Carried(carries[c])>>]
                  /\ origin' = [origin EXCEPT ![carries[c]] = c]
             ELSE UNCHANGED <<share, up, origin>>
  BY DEF DR!HearLeave
<1>3. /\ Alone' /\ Somewhere'
      /\ missed \subseteq missed'
      /\ \A y \in DR!Begun \ missed' : Holding(y) => y \notin dropped'
      /\ \A n \in DR!Machines : /\ share'[n].pending = share[n].pending
                                /\ share'[n].pulling = share[n].pulling
  <2>1. CASE r \notin {"caught", "late"}
    <3>1. UNCHANGED <<share, up, origin>> /\ dropped' = dropped \cup DR!Letting(c)
      BY <1>r, <2>1
    <3>2. /\ Alone' /\ Somewhere'
          /\ missed \subseteq missed'
          /\ \A y \in DR!Begun \ missed' : Holding(y) => y \notin dropped'
      BY <1>0, <1>1, <1>r, <2>1, <3>1, LeaveEmpty
    <3> QED
      BY <3>1, <3>2
  <2>2. CASE r \in {"caught", "late"}
    <3>d. PICK d : d = carries[c]
      OBVIOUS
    <3>1. d \in DR!Drags
      <4>1. r # "nothing"
        BY <2>2
      <4>2. d # 0
        BY <1>r, <3>d, <4>1, CaughtIsThere
      <4> QED
        BY <1>a, <3>d, <4>2, MachinesAre DEF DragTypes
    <3>2. \A x \in DragClients, e \in DR!Drags : LessSaid(hub.out[x], hub'.out[x], e)
      BY <1>1, QueuesAre, PlainSaysLess DEF PlainlySaid
    <3>3. /\ DR!Costs(r, d)
          /\ dropped' = IF r = "caught" THEN dropped ELSE dropped \cup DR!Letting(c)
          /\ share' = [share EXCEPT ![c].offer = d]
          /\ up' = [up EXCEPT ![c] = @ \o <<DR!Offered(d), DR!Carried(d)>>]
          /\ origin' = [origin EXCEPT ![d] = c]
      BY <1>r, <2>2, <3>d
    <3> QED
      BY <1>0, <2>2, <3>d, <3>1, <3>2, <3>3, LeaveLaden
  <2> QED
    BY <2>1, <2>2
<1>4. ASSUME NEW x \in DragClients PROVE TakesTurns(x)'
  <2>1. TakesTurns(x)
    BY DEF Promised, InTurn
  <2>2. CASE x = c
    BY <1>0, <1>1, <1>2, <2>1, <2>2, QueuesAre, TurnHeard
  <2>3. CASE x # c
    BY <1>0, <1>1, <1>2, <2>1, <2>3, OthersTurn
  <2> QED
    BY <2>2, <2>3
<1>5. ASSUME NEW d \in DR!Begun \ missed', Holding(d) PROVE Holding(d)'
  <2>0. d # 0
    BY MachinesAre DEF DR!Begun
  <2>2. d \notin dropped'
    BY <1>3, <1>5
  <2>3. \A x \in DragClients : IsOn(d, x)' => IsOn(d, x)
    BY <1>2, <1>3, <2>0, MachinesAre DEF IsOn
  <2>4. \A x \in DragClients :
          carries'[x] = d => carries[x] = d /\ client'[x].down = client[x].down
    BY <1>0, <1>2, <2>0
  <2> QED
    BY <1>1, <1>5, <2>2, <2>3, <2>4, HoldingStays
<1>6. Held'
  BY <1>0, <1>3, <1>5, HeldStays DEF Promised
<1> QED
  BY <1>3, <1>4, <1>6 DEF Promised, InTurn

\* A drag that is spoken of is the one that is still to be somewhere, and is on its
\* way.
LEMMA SpokenOf ==
  ASSUME DragTypes, Promised, NEW e \in DR!Drags, NEW c \in DragClients,
         IsSaid(e, hub.out[c]) \/ IsSaid(e, up[c])
  PROVE  /\ Alive(e)
         /\ \A x \in Astray : x = e /\ OnItsWay(e)
<1>1. Alive(e) /\ ~UnderPointer(e)
  BY DEF Alive, UnderPointer
<1> QED
  BY <1>1, OnlyOne DEF Promised

\* Its news begins to be fetched, if the offer came before and from elsewhere.
LEMMA WaitsOrFetches ==
  ASSUME DragTypes, Promised, NEW e \in Astray, OnItsWay(e), NEW m \in DR!Machines,
         share' = DR!DropHere(m, share, e), m = origin[e] \/ share[m].offer = e
  PROVE  /\ \A n \in DR!Machines : /\ share'[n].offer = share[n].offer
                                   /\ share'[n].pending = e => n = origin[e]
                                   /\ share'[n].pulling = e => share'[n].offer = e
         /\ \/ share'[origin[e]].pending = e
            \/ \E n \in DR!Machines : share'[n].pulling = e
<1>e. e \in DR!Drags /\ e # 0 /\ origin[e] \in DR!Machines
  BY MachinesAre DEF Astray, DR!Begun, DragTypes
<1>s. share \in [DR!Machines -> ShareType]
  BY DEF DragTypes
<1>t. PICK t : t = share'
  OBVIOUS
<1>w. Waiting(m, share, e, t)
  BY <1>e, <1>s, <1>t, DropHereIs
<1>0. /\ \A n \in DR!Machines : n # m => t[n] = share[n]
      /\ t[m].offer = share[m].offer
      /\ share[m].offer # e \/ origin[e] = m =>
           t[m].pending = e /\ t[m].pulling = share[m].pulling
      /\ share[m].offer = e /\ origin[e] # m =>
           /\ t[m].pending = 0
           /\ share[m].pulling = 0 => t[m].pulling = e
           /\ share[m].pulling # 0 => t[m].pulling = share[m].pulling
  BY <1>w DEF Waiting
<1>1. /\ \A n \in DR!Machines : n # m => share'[n] = share[n]
      /\ share'[m].offer = share[m].offer
      /\ share[m].offer # e \/ origin[e] = m =>
           share'[m].pending = e /\ share'[m].pulling = share[m].pulling
      /\ share[m].offer = e /\ origin[e] # m =>
           /\ share'[m].pending = 0
           /\ share[m].pulling = 0 => share'[m].pulling = e
           /\ share[m].pulling # 0 => share'[m].pulling = share[m].pulling
  BY <1>0, <1>t
<1>2. \A n \in DR!Machines : /\ share[n].pending = e => n = origin[e]
                             /\ share[n].pulling = e => share[n].offer = e
  BY DEF OnItsWay
<1>3. CASE origin[e] = m
  BY <1>1, <1>2, <1>3
<1>4. CASE origin[e] # m
  <2>1. share[m].offer = e /\ share'[m].pending = 0
    BY <1>1, <1>4
  <2>2. share'[m].pulling = e
    <3>1. share[m].pulling # 0 => share[m].pulling \in DR!Drags /\ Alive(share[m].pulling)
      BY MachinesAre DEF DragTypes, ShareType, Alive, IsOn
    <3>2. share[m].pulling # 0 => share[m].pulling = e
      BY <3>1, OnlyOne DEF Promised
    <3> QED
      BY <1>1, <1>4, <2>1, <3>2
  <2> QED
    BY <1>1, <1>2, <1>e, <2>1, <2>2
<1> QED
  BY <1>3, <1>4

\* A client hears an offer.
LEMMA HearOfferPromises ==
  ASSUME DragTypes, HomeFollows, Promised, NEW c \in DragClients, hub.out[c] # <<>>,
         DR!Heard(c), Head(hub.out[c]).kind = "Offer", NEW e, e = Head(hub.out[c]).drag,
         share' = DR!TakeOffer(c, share, e),
         UNCHANGED <<client, up, left, hold, carries, holdOf, origin, dropped, landed, missed>>
  PROVE  Alone' /\ Held' /\ Somewhere'
<1>1. /\ hub'.out[c] = Tail(hub.out[c])
      /\ \A x \in DragClients : x # c => hub'.out[x] = hub.out[x]
      /\ \A d : \A x \in DragClients : Quieter(hub.out[x], hub'.out[x], d)
      /\ Head(hub.out[c]) \in DragMsg
  BY HeardIs
<1>q. /\ hub.out[c] \in Seq(DragMsg) /\ c \in DR!Machines /\ c # DragHub
      /\ DragHub \in DR!Machines
  BY QueuesAre, MachinesAre
<1>e. e \in DR!Drags /\ e # 0
  BY <1>1, NamesADrag, MachinesAre
<1>s. share \in [DR!Machines -> ShareType]
  BY DEF DragTypes
<1>2. IsSaid(e, hub.out[c])
  BY <1>q, SaidWithLess
<1>t. PICK t : t = share'
  OBVIOUS
<1>w. Taken(c, share, e, t)
  BY <1>e, <1>q, <1>s, <1>t, TakeOfferIs
<1>0. /\ \A n \in DR!Machines : n # c => t[n] = share[n]
      /\ t[c].offer = e
      /\ share[c].pending # e \/ origin[e] = c =>
           t[c].pending = share[c].pending /\ t[c].pulling = share[c].pulling
      /\ t[c].pending \in {share[c].pending, 0}
      /\ t[c].pulling \in {share[c].pulling, share[c].pending}
  BY <1>w DEF Taken
<1>3. /\ \A n \in DR!Machines : n # c => share'[n] = share[n]
      /\ share'[c].offer = e
      /\ share[c].pending # e \/ origin[e] = c =>
           share'[c].pending = share[c].pending /\ share'[c].pulling = share[c].pulling
      /\ share'[c].pending \in {share[c].pending, 0}
      /\ share'[c].pulling \in {share[c].pulling, share[c].pending}
  BY <1>0, <1>t
<1>4. ASSUME NEW d \in DR!Drags, NEW n \in DR!Machines, IsOn(d, n)' PROVE IsOn(d, n)
  BY <1>3, <1>4, MachinesAre DEF IsOn
<1>5. \A d : \A x \in DragClients : IsSaid(d, hub'.out[x]) => IsSaid(d, hub.out[x])
  BY <1>1, <1>q, SaidWithLess
<1>6. \A d \in DR!Drags : Alive(d)' => Alive(d)
  BY <1>4, <1>5 DEF Alive
<1>7. Alone'
  <2>1. Counts
    BY StillCounts DEF Promised
  <2> QED
    BY <1>6, <2>1, AloneStays DEF Promised, Counts
<1>8. ASSUME NEW d \in DR!Begun \ missed', Holding(d) PROVE Holding(d)'
  <2>1. d \in DR!Drags
    BY DEF DR!Begun
  <2>2. d \notin dropped'
    BY <1>8 DEF Holding
  <2>3. \A x \in DragClients : IsOn(d, x)' => IsOn(d, x)
    BY <1>4, <2>1, MachinesAre
  <2> QED
    BY <1>1, <1>8, <2>2, <2>3, HoldingStays
<1>9. Held'
  BY <1>8, HeldStays DEF Promised
<1>10. ASSUME NEW x \in Astray' PROVE OnItsWay(x)'
  <2>1. x = e /\ OnItsWay(e) /\ e \in Astray
    BY <1>2, <1>e, <1>10, SpokenOf DEF Astray, DR!Begun, DR!Drags
  <2>2. /\ \A n \in DR!Machines : /\ share[n].pending = e => n = origin[e]
                                  /\ share[n].pulling = e => share[n].offer = e
        /\ share[origin[e]].offer = e
    BY <2>1 DEF OnItsWay
  <2>3. share'[c].pending = share[c].pending /\ share'[c].pulling = share[c].pulling
    BY <1>3, <1>q, <2>2
  <2>4. \A n \in DR!Machines : /\ share'[n].pending = share[n].pending
                               /\ share'[n].pulling = share[n].pulling
                               /\ share[n].offer = e => share'[n].offer = e
    BY <1>3, <2>3
  <2>5. /\ OfferIn(hub.out[c], e) => OfferIn(hub'.out[c], e) \/ share'[c].offer = e
        /\ NewsIn(hub.out[c], e) => NewsIn(hub'.out[c], e)
    <3>1. NewsIn(hub.out[c], e) =>
            NewsIn(Tail(hub.out[c]), e) \/ (Head(hub.out[c]).kind = "Dragging" /\ Head(hub.out[c]).drag = e)
      BY <1>q, SaidWithLess
    <3> QED
      BY <1>1, <1>3, <3>1
  <2>6. origin[e] \in DR!Machines
    BY <1>e DEF DragTypes
  <2>7. PassedOn(e) => PassedOn(e)'
    BY <1>1, <1>3, <1>q, <2>4, MachinesAre DEF PassedOn
  <2>8. \A y \in DragClients :
         /\ IsSaid(e, up'[y]) => y = origin'[e]
         /\ PassedOn(e)' \/ OfferFirst(up'[y], e)
         /\ y = origin'[e] \/ share'[y].offer = e \/ OfferFirst(hub'.out[y], e)
    BY <1>1, <1>3, <1>q, <2>1, <2>4, <2>7, MachinesAre DEF OnItsWay
  <2>9. \/ share'[origin'[e]].pending = e
        \/ \E n \in DR!Machines : share'[n].pulling = e
        \/ \E y \in DragClients : NewsIn(hub'.out[y], e) \/ NewsIn(up'[y], e)
    BY <1>1, <2>1, <2>4, <2>5, <2>6 DEF OnItsWay
  <2>c. \A n \in DR!Machines : carries[n] # e
    BY <2>1 DEF OnItsWay
  <2>10. /\ \A n \in DR!Machines : /\ carries'[n] # e
                                   /\ share'[n].pending = e => n = origin'[e]
                                   /\ share'[n].pulling = e => share'[n].offer = e
         /\ share'[origin'[e]].offer = e
    <3>1. share'[origin'[e]].offer = e
      BY <2>2, <2>4, <2>6
    <3>2. ASSUME NEW n \in DR!Machines
          PROVE  /\ carries'[n] # e
                 /\ share'[n].pending = e => n = origin'[e]
                 /\ share'[n].pulling = e => share'[n].offer = e
      BY <2>2, <2>4, <2>c
    <3> QED
      BY <3>1, <3>2
  <2> QED
    BY <2>1, <2>8, <2>9, <2>10 DEF OnItsWay
<1>11. Somewhere'
  BY <1>10 DEF Somewhere, Astray
<1> QED
  BY <1>7, <1>9, <1>11

\* A client hears what is dragged to it.
LEMMA HearNewsPromises ==
  ASSUME DragTypes, HomeFollows, Promised, NEW c \in DragClients, hub.out[c] # <<>>,
         DR!Heard(c), Head(hub.out[c]).kind = "Dragging", NEW e, e = Head(hub.out[c]).drag,
         share' = DR!DropHere(c, share, e),
         UNCHANGED <<client, up, left, hold, carries, holdOf, origin, dropped, landed, missed>>
  PROVE  Alone' /\ Held' /\ Somewhere'
<1>1. /\ hub'.out[c] = Tail(hub.out[c])
      /\ \A x \in DragClients : x # c => hub'.out[x] = hub.out[x]
      /\ \A d : \A x \in DragClients : Quieter(hub.out[x], hub'.out[x], d)
      /\ Head(hub.out[c]) \in DragMsg
  BY HeardIs
<1>q. /\ hub.out[c] \in Seq(DragMsg) /\ c \in DR!Machines /\ c # DragHub
      /\ DragHub \in DR!Machines
  BY QueuesAre, MachinesAre
<1>e. e \in DR!Drags /\ e # 0
  BY <1>1, NamesADrag, MachinesAre
<1>s. share \in [DR!Machines -> ShareType]
  BY DEF DragTypes
<1>2. IsSaid(e, hub.out[c]) /\ Alive(e)
  BY <1>q, SaidWithLess DEF Alive
<1>3. /\ \A n \in DR!Machines : n # c => share'[n] = share[n]
      /\ share'[c].offer = share[c].offer
      /\ share'[c].pending \in {e, 0}
      /\ share'[c].pulling \in {share[c].pulling, e}
  <2>t. PICK t : t = share'
    OBVIOUS
  <2>k. t = DR!DropHere(c, share, e) /\ c \in DR!Machines /\ e \in DR!Drags
    BY <1>e, <1>q, <2>t
  <2>w. Waiting(c, share, e, t)
    BY <1>s, <2>k, DropHereIs
  <2>0. /\ \A n \in DR!Machines : n # c => t[n] = share[n]
        /\ t[c].offer = share[c].offer
        /\ share[c].offer # e \/ origin[e] = c =>
             t[c].pending = e /\ t[c].pulling = share[c].pulling
        /\ share[c].offer = e /\ origin[e] # c =>
             /\ t[c].pending = 0
             /\ share[c].pulling = 0 => t[c].pulling = e
             /\ share[c].pulling # 0 => t[c].pulling = share[c].pulling
    BY <2>w DEF Waiting
  <2>1. /\ \A n \in DR!Machines : n # c => share'[n] = share[n]
        /\ share'[c].offer = share[c].offer
        /\ share[c].offer # e \/ origin[e] = c =>
             share'[c].pending = e /\ share'[c].pulling = share[c].pulling
        /\ share[c].offer = e /\ origin[e] # c =>
             /\ share'[c].pending = 0
             /\ share[c].pulling = 0 => share'[c].pulling = e
             /\ share[c].pulling # 0 => share'[c].pulling = share[c].pulling
    BY <2>0, <2>t
  <2> QED
    BY <2>1
<1>4. ASSUME NEW d \in DR!Drags, NEW n \in DR!Machines, IsOn(d, n)'
      PROVE  IsOn(d, n) \/ (d = e /\ n = c)
  BY <1>3, <1>4, MachinesAre DEF IsOn
<1>5. \A d : \A x \in DragClients : IsSaid(d, hub'.out[x]) => IsSaid(d, hub.out[x])
  BY <1>1, <1>q, SaidWithLess
<1>6. \A d \in DR!Drags : Alive(d)' => Alive(d)
  BY <1>2, <1>4, <1>5 DEF Alive
<1>7. Alone'
  <2>1. Counts
    BY StillCounts DEF Promised
  <2> QED
    BY <1>6, <2>1, AloneStays DEF Promised, Counts
<1>8. ASSUME NEW d \in DR!Begun \ missed', Holding(d) PROVE Holding(d)'
  <2>1. d \in DR!Drags
    BY DEF DR!Begun
  <2>2. \A x \in DragClients : MovedBefore(hub'.out[x], d)
    BY <1>1, <1>8 DEF Holding, Quieter
  <2>3. ASSUME NEW x \in DragClients, IsOn(d, x)' PROVE Unmoved(hub'.out[x])
    <3>1. CASE IsOn(d, x)
      BY <1>1, <1>8, <3>1 DEF Holding, Quieter
    <3>2. CASE d = e /\ x = c
      <4>1. MovedBefore(hub.out[c], e)
        BY <1>8, <3>2 DEF Holding
      <4>2. Unmoved(Tail(hub.out[c]))
        BY <1>q, <4>1, ButtonsWithLess
      <4> QED
        BY <1>1, <3>2, <4>2
    <3>3. x \in DR!Machines
      BY MachinesAre
    <3> QED
      BY <1>4, <2>1, <2>3, <3>1, <3>2, <3>3
  <2>4. \A x \in DragClients : carries'[x] = d => client'[x].down = TRUE
    BY <1>8 DEF Holding
  <2>5. d \notin dropped'
    BY <1>8 DEF Holding
  <2> QED
    BY <2>2, <2>3, <2>4, <2>5 DEF Holding
<1>9. Held'
  BY <1>8, HeldStays DEF Promised
<1>10. ASSUME NEW x \in Astray' PROVE OnItsWay(x)'
  <2>1. x = e /\ OnItsWay(e) /\ e \in Astray
    BY <1>2, <1>e, <1>10, SpokenOf DEF Astray, DR!Begun, DR!Drags
  <2>2. ~OfferFirst(hub.out[c], e)
    BY <1>q, OfferFirstWithLess
  <2>3. c = origin[e] \/ share[c].offer = e
    BY <2>1, <2>2 DEF OnItsWay
  <2>4. /\ \A n \in DR!Machines : /\ share'[n].offer = share[n].offer
                                  /\ share'[n].pending = e => n = origin[e]
                                  /\ share'[n].pulling = e => share'[n].offer = e
        /\ \/ share'[origin[e]].pending = e
           \/ \E n \in DR!Machines : share'[n].pulling = e
    BY <1>q, <2>1, <2>3, WaitsOrFetches
  <2>5. /\ OfferIn(hub.out[c], e) => OfferIn(hub'.out[c], e)
        /\ OfferFirst(hub.out[c], e) => OfferFirst(hub'.out[c], e)
    <3>1. OfferIn(hub.out[c], e) =>
            OfferIn(Tail(hub.out[c]), e) \/ (Head(hub.out[c]).kind = "Offer" /\ Head(hub.out[c]).drag = e)
      BY <1>q, SaidWithLess
    <3> QED
      BY <1>1, <2>2, <3>1
  <2>6. origin[e] \in DR!Machines
    BY <1>e DEF DragTypes
  <2>7. PassedOn(e) => PassedOn(e)'
    BY <1>1, <1>q, <2>4, <2>5, MachinesAre DEF PassedOn
  <2>8. \A y \in DragClients :
         /\ IsSaid(e, up'[y]) => y = origin'[e]
         /\ PassedOn(e)' \/ OfferFirst(up'[y], e)
         /\ y = origin'[e] \/ share'[y].offer = e \/ OfferFirst(hub'.out[y], e)
    BY <1>1, <1>q, <2>1, <2>4, <2>5, <2>7, MachinesAre DEF OnItsWay
  <2>9. /\ \A n \in DR!Machines : /\ carries'[n] # e
                                  /\ share'[n].pending = e => n = origin'[e]
                                  /\ share'[n].pulling = e => share'[n].offer = e
        /\ share'[origin'[e]].offer = e
    BY <2>1, <2>4, <2>6 DEF OnItsWay
  <2>10. \/ share'[origin'[e]].pending = e
         \/ \E n \in DR!Machines : share'[n].pulling = e
    BY <2>4
  <2> QED
    BY <2>1, <2>8, <2>9, <2>10 DEF OnItsWay
<1>11. Somewhere'
  BY <1>10 DEF Somewhere, Astray
<1> QED
  BY <1>7, <1>9, <1>11

LEMMA HearBulkPromises ==
  ASSUME DragTypes, HomeFollows, Promised, NEW c \in DragClients, hub.out[c] # <<>>,
         DR!HearBulk(c)
  PROVE  Promised'
<1>0. /\ UNCHANGED <<client, up, left, hold, carries, holdOf, origin, dropped, landed, missed>>
      /\ DR!Heard(c)
  BY DEF DR!HearBulk, DR!happened
<1>e. PICK e : e = Head(hub.out[c]).drag
  OBVIOUS
<1>1. \/ Head(hub.out[c]).kind = "Offer" /\ share' = DR!TakeOffer(c, share, e)
      \/ Head(hub.out[c]).kind = "Dragging" /\ share' = DR!DropHere(c, share, e)
  BY <1>e DEF DR!HearBulk
<1>2. Alone' /\ Held' /\ Somewhere'
  BY <1>0, <1>1, <1>e, HearOfferPromises, HearNewsPromises
<1>3. /\ hub'.active = hub.active /\ hub'.out[c] = Tail(hub.out[c])
      /\ \A x \in DragClients : x # c => hub'.out[x] = hub.out[x]
  BY <1>0, HeardIs
<1>4. ASSUME NEW x \in DragClients PROVE TakesTurns(x)'
  <2>1. TakesTurns(x)
    BY DEF Promised, InTurn
  <2>2. MildStep(hub.out[x], hub'.out[x])
    BY <1>1, <1>3 DEF MildStep
  <2>3. Milder(hub.out[x], hub'.out[x])
    BY <2>1, <2>2, QueuesAre, MildIsMilder DEF TakesTurns
  <2>4. carries'[x] # 0 => client[x].acting = TRUE
    BY <1>0, <2>1 DEF TakesTurns
  <2> QED
    BY <1>0, <1>3, <2>1, <2>3, <2>4, TurnStays
<1> QED
  BY <1>2, <1>4 DEF Promised, InTurn

\* A queue that has a message more speaks of what that speaks of.
MoreSaid(q, r, m) == \A e :
  /\ IsSaid(e, r) => IsSaid(e, q) \/ m.drag = e
  /\ OfferIn(q, e) \/ (m.kind = "Offer" /\ m.drag = e) => OfferIn(r, e)
  /\ NewsIn(q, e) \/ (m.kind = "Dragging" /\ m.drag = e) => NewsIn(r, e)

LEMMA AppendSays ==
  ASSUME NEW q \in Seq(DragMsg), NEW m \in DragMsg, NEW r, r = Append(q, m)
  PROVE  MoreSaid(q, r, m)
<1>1. ASSUME NEW e
      PROVE  /\ IsSaid(e, r) <=> IsSaid(e, q) \/ m.drag = e
             /\ OfferIn(r, e) <=> OfferIn(q, e) \/ (m.kind = "Offer" /\ m.drag = e)
             /\ NewsIn(r, e) <=> NewsIn(q, e) \/ (m.kind = "Dragging" /\ m.drag = e)
  BY SaidWithMore
<1> QED
  BY <1>1 DEF MoreSaid

\* The hub hears a client: what it takes is the first of what the client said, of
\* the one drag that is still to be somewhere, which the client was left with.
Takes(c, e) ==
  /\ up' = [up EXCEPT ![c] = Tail(@)]
  /\ e = Head(up[c]).drag /\ Head(up[c]).kind \in {"Offer", "Dragging"}
TookOf(c, e) ==
  /\ \A x \in Astray : x = e /\ OnItsWay(e) /\ origin[e] = c
  /\ up'[c] = Tail(up[c])
  /\ \A x \in DragClients : x # c => up'[x] = up[x]
  /\ \A d : \A x \in DragClients : IsSaid(d, up'[x]) => IsSaid(d, up[x])

LEMMA SaidAtHub ==
  ASSUME DragTypes, Promised, NEW c \in DragClients, up[c] # <<>>, NEW e, Takes(c, e)
  PROVE  e \in DR!Drags /\ e # 0 /\ Alive(e) /\ TookOf(c, e)
<1>q. up[c] \in Seq(DragMsg)
  BY QueuesAre
<1>1. Head(up[c]) \in DragMsg
  BY <1>q, TakeFirst
<1>2. e \in DR!Drags /\ e # 0
  BY <1>1, NamesADrag, MachinesAre DEF Takes
<1>3. IsSaid(e, up[c])
  BY <1>q, SaidWithLess DEF Takes
<1>4. Alive(e) /\ \A x \in Astray : x = e /\ OnItsWay(e)
  BY <1>2, <1>3, SpokenOf
<1>5. \A x \in Astray : origin[e] = c
  BY <1>3, <1>4 DEF OnItsWay
<1>6. /\ up'[c] = Tail(up[c])
      /\ \A x \in DragClients : x # c => up'[x] = up[x]
  BY DEF DragTypes, Takes
<1>7. \A d : \A x \in DragClients : IsSaid(d, up'[x]) => IsSaid(d, up[x])
  BY <1>6, <1>q, SaidWithLess
<1> QED
  BY <1>2, <1>4, <1>5, <1>6, <1>7 DEF TookOf

\* Nothing of a drag is under way that was not, but what the hub heard of.
LEMMA HubIsAlone ==
  ASSUME DragTypes, Promised, NEW e \in DR!Drags, Alive(e),
         \A d \in DR!Drags : \A n \in DR!Machines : IsOn(d, n)' => IsOn(d, n) \/ d = e,
         \A d \in DR!Drags : \A x \in DragClients :
           /\ IsSaid(d, hub'.out[x]) => IsSaid(d, hub.out[x]) \/ d = e
           /\ IsSaid(d, up'[x]) => IsSaid(d, up[x]),
         UNCHANGED <<left, hold, holdOf, dropped, missed, landed>>
  PROVE  Alone'
<1>1. \A d \in DR!Drags : Alive(d)' => Alive(d)
  BY DEF Alive
<1>2. Counts
  BY StillCounts DEF Promised
<1> QED
  BY <1>1, <1>2, AloneStays DEF Promised, Counts

\* What is held stays held if nothing but what its machines are told changes.
LEMMA HubHolds ==
  ASSUME DragTypes, Promised,
         \A x \in DragClients : QuietStep(hub.out[x], hub'.out[x]),
         \A x \in DragClients : share'[x] = share[x],
         UNCHANGED <<client, carries, left, hold, holdOf, dropped, missed>>
  PROVE  Held'
<1>1. ASSUME NEW d \in DR!Begun \ missed', Holding(d) PROVE Holding(d)'
  <2>1. d \notin dropped'
    BY <1>1 DEF Holding
  <2>2. \A x \in DragClients : Quieter(hub.out[x], hub'.out[x], d)
    BY QueuesAre, QuietIsQuieter
  <2>3. \A x \in DragClients : IsOn(d, x)' => IsOn(d, x)
    BY DEF IsOn
  <2> QED
    BY <1>1, <2>1, <2>2, <2>3, HoldingStays
<1> QED
  BY <1>1, HeldStays DEF Promised

\* And the turns, if no Enter or Leave is among it.
LEMMA HubTurns ==
  ASSUME DragTypes, Promised, hub'.active = hub.active,
         \A x \in DragClients : MildStep(hub.out[x], hub'.out[x]),
         UNCHANGED <<client, carries>>
  PROVE  InTurn'
<1>1. ASSUME NEW x \in DragClients PROVE TakesTurns(x)'
  <2>1. TakesTurns(x)
    BY DEF Promised, InTurn
  <2>2. Milder(hub.out[x], hub'.out[x])
    BY <2>1, QueuesAre, MildIsMilder DEF TakesTurns
  <2>3. carries'[x] # 0 => client[x].acting = TRUE
    BY <2>1 DEF TakesTurns
  <2> QED
    BY <2>1, <2>2, <2>3, TurnStays
<1> QED
  BY <1>1 DEF InTurn

\* The hub takes an offer and passes it on.
LEMMA HubTakesOfferPromises ==
  ASSUME DragTypes, HomeFollows, Whole', Promised, NEW c \in DragClients, up[c] # <<>>,
         DR!HubTakesOffer(c)
  PROVE  Promised'
<1>e. PICK e : e = Head(up[c]).drag
  OBVIOUS
<1>0. /\ UNCHANGED <<client, closed, carries, left, hold, holdOf, origin, dropped, landed,
                     missed>>
      /\ up' = [up EXCEPT ![c] = Tail(@)] /\ Head(up[c]).kind = "Offer"
      /\ share' = DR!TakeOffer(DragHub, share, e)
      /\ hub' = DR!Departures(DR!Tell(hub, DragClients \ {c}, DR!Offered(e)))
  BY <1>e DEF DR!HubTakesOffer, DR!SendBulk, DR!happened
<1>k. Takes(c, e)
  BY <1>0, <1>e DEF Takes
<1>h. e \in DR!Drags /\ e # 0 /\ Alive(e) /\ TookOf(c, e)
  BY <1>k, SaidAtHub
<1>1. /\ e \in DR!Drags /\ e # 0 /\ Alive(e)
      /\ \A x \in Astray : x = e /\ OnItsWay(e) /\ origin[e] = c
      /\ up'[c] = Tail(up[c])
      /\ \A x \in DragClients : x # c => up'[x] = up[x]
      /\ \A d : \A x \in DragClients : IsSaid(d, up'[x]) => IsSaid(d, up[x])
  BY <1>h DEF TookOf
<1>m. PICK m \in DragMsg : m = DR!Offered(e) /\ m.kind = "Offer" /\ m.drag = e
  BY <1>1, MessagesAre
<1>2. /\ hub'.active = hub.active
      /\ Hear(hub.out, DragClients \ {c}, m, hub'.out)
  BY <1>0, <1>1, <1>m, HubOfferTells
<1>3. /\ hub'.out[c] = hub.out[c]
      /\ \A x \in DragClients : x # c => hub'.out[x] = Append(hub.out[x], m)
  BY <1>2 DEF Hear
<1>a. /\ DragHub \in DR!Machines /\ c # DragHub
      /\ \A x \in DragClients : x \in DR!Machines /\ x # DragHub
  BY MachinesAre
<1>t. PICK t : t = share'
  OBVIOUS
<1>s. share \in [DR!Machines -> ShareType]
  BY DEF DragTypes
<1>w. Taken(DragHub, share, e, t)
  BY <1>0, <1>1, <1>a, <1>s, <1>t, TakeOfferIs
<1>4. /\ \A n \in DR!Machines : n # DragHub => t[n] = share[n]
      /\ t[DragHub].offer = e
      /\ share[DragHub].pending # e \/ origin[e] = DragHub =>
           t[DragHub].pending = share[DragHub].pending
           /\ t[DragHub].pulling = share[DragHub].pulling
      /\ t[DragHub].pending \in {share[DragHub].pending, 0}
      /\ t[DragHub].pulling \in {share[DragHub].pulling, share[DragHub].pending}
  BY <1>w DEF Taken
<1>5. \A d \in DR!Drags : \A n \in DR!Machines : IsOn(d, n)' => IsOn(d, n)
  BY <1>0, <1>4, <1>t, MachinesAre DEF IsOn
<1>n. \A x \in DragClients : x # c => MoreSaid(hub.out[x], hub'.out[x], m)
  BY <1>3, QueuesAre, AppendSays
<1>6. \A d : \A x \in DragClients : IsSaid(d, hub'.out[x]) => IsSaid(d, hub.out[x]) \/ d = e
  BY <1>3, <1>m, <1>n DEF MoreSaid
<1>7. Alone'
  BY <1>0, <1>1, <1>5, <1>6, HubIsAlone
<1>8. Held'
  <2>1. \A x \in DragClients : QuietStep(hub.out[x], hub'.out[x])
    BY <1>3, <1>m DEF QuietStep
  <2>2. \A x \in DragClients : share'[x] = share[x]
    BY <1>4, <1>a, <1>t
  <2> QED
    BY <1>0, <2>1, <2>2, HubHolds
<1>9. InTurn'
  <2>1. \A x \in DragClients : MildStep(hub.out[x], hub'.out[x])
    BY <1>3, <1>m DEF MildStep
  <2> QED
    BY <1>0, <1>2, <2>1, HubTurns
<1>10. ASSUME NEW x \in Astray' PROVE OnItsWay(x)'
  <2>1. x = e /\ OnItsWay(e) /\ origin[e] = c
    BY <1>0, <1>1, <1>10 DEF Astray, DR!Begun, DR!Drags
  <2>2. /\ \A n \in DR!Machines : /\ carries[n] # e
                                  /\ share[n].pending = e => n = c
                                  /\ share[n].pulling = e => share[n].offer = e
        /\ share[c].offer = e
    BY <2>1 DEF OnItsWay
  <2>3. /\ t[DragHub].pending = share[DragHub].pending
        /\ t[DragHub].pulling = share[DragHub].pulling
    BY <1>4, <1>a, <2>2
  <2>4. \A n \in DR!Machines : /\ share'[n].pending = share[n].pending
                               /\ share'[n].pulling = share[n].pulling
                               /\ n # DragHub => share'[n].offer = share[n].offer
    BY <1>4, <1>t, <2>3
  <2>5. \A y \in DragClients : y # c => OfferIn(hub'.out[y], e)
    BY <1>3, <1>m, <1>n DEF MoreSaid
  <2>6. PassedOn(e)'
    BY <1>0, <1>4, <1>t, <2>1, <2>5 DEF PassedOn
  <2>7. \A y \in DragClients : y # c /\ OfferFirst(hub.out[y], e) => OfferFirst(hub'.out[y], e)
    BY <1>3, <1>m, QueuesAre, OfferFirstWithMore
  <2>8. \A y \in DragClients :
         /\ IsSaid(e, up'[y]) => y = origin'[e]
         /\ PassedOn(e)' \/ OfferFirst(up'[y], e)
         /\ y = origin'[e] \/ share'[y].offer = e \/ OfferFirst(hub'.out[y], e)
    BY <1>0, <1>1, <1>a, <2>1, <2>4, <2>6, <2>7 DEF OnItsWay
  <2>9. \A y \in DragClients : /\ NewsIn(hub.out[y], e) => NewsIn(hub'.out[y], e)
                               /\ NewsIn(up[y], e) => NewsIn(up'[y], e)
    <3>1. \A y \in DragClients : NewsIn(hub.out[y], e) => NewsIn(hub'.out[y], e)
      BY <1>3, <1>m, <1>n DEF MoreSaid
    <3>2. NewsIn(up[c], e) =>
            NewsIn(Tail(up[c]), e) \/ (Head(up[c]).kind = "Dragging" /\ Head(up[c]).drag = e)
      BY QueuesAre, SaidWithLess
    <3> QED
      BY <1>0, <1>1, <3>1, <3>2
  <2>x. \/ share[c].pending = e
        \/ \E n \in DR!Machines : share[n].pulling = e
        \/ \E y \in DragClients : NewsIn(hub.out[y], e) \/ NewsIn(up[y], e)
    BY <2>1 DEF OnItsWay
  <2>10. \/ share'[origin'[e]].pending = e
         \/ \E n \in DR!Machines : share'[n].pulling = e
         \/ \E y \in DragClients : NewsIn(hub'.out[y], e) \/ NewsIn(up'[y], e)
    BY <1>0, <1>a, <2>1, <2>4, <2>9, <2>x
  <2>11. /\ \A n \in DR!Machines : /\ carries'[n] # e
                                   /\ share'[n].pending = e => n = origin'[e]
                                   /\ share'[n].pulling = e => share'[n].offer = e
         /\ share'[origin'[e]].offer = e
    BY <1>0, <1>4, <1>a, <1>t, <2>1, <2>2, <2>4
  <2> QED
    BY <2>1, <2>8, <2>10, <2>11 DEF OnItsWay
<1>11. Somewhere'
  BY <1>10 DEF Somewhere, Astray
<1> QED
  BY <1>7, <1>8, <1>9, <1>11 DEF Promised

\* The hub hears what is dragged, and the cursor is at home.
LEMMA HubFetches ==
  ASSUME DragTypes, Promised, NEW c \in DragClients, up[c] # <<>>,
         up' = [up EXCEPT ![c] = Tail(@)], Head(up[c]).kind = "Dragging",
         NEW e, e = Head(up[c]).drag, share' = DR!DropHere(DragHub, share, e),
         UNCHANGED <<hub, client, carries, left, hold, holdOf, origin, dropped, landed, missed>>
  PROVE  Promised'
<1>k. Takes(c, e)
  BY DEF Takes
<1>h. e \in DR!Drags /\ e # 0 /\ Alive(e) /\ TookOf(c, e)
  BY <1>k, SaidAtHub
<1>1. /\ e \in DR!Drags /\ e # 0 /\ Alive(e)
      /\ \A x \in Astray : x = e /\ OnItsWay(e) /\ origin[e] = c
      /\ up'[c] = Tail(up[c])
      /\ \A x \in DragClients : x # c => up'[x] = up[x]
      /\ \A d : \A x \in DragClients : IsSaid(d, up'[x]) => IsSaid(d, up[x])
  BY <1>h DEF TookOf
<1>a. /\ DragHub \in DR!Machines /\ c # DragHub
      /\ \A x \in DragClients : x \in DR!Machines /\ x # DragHub
  BY MachinesAre
<1>t. PICK t : t = share'
  OBVIOUS
<1>s. share \in [DR!Machines -> ShareType]
  BY DEF DragTypes
<1>w. Waiting(DragHub, share, e, t)
  BY <1>1, <1>a, <1>s, <1>t, DropHereIs
<1>3. /\ \A n \in DR!Machines : n # DragHub => t[n] = share[n]
      /\ t[DragHub].offer = share[DragHub].offer
      /\ share[DragHub].offer # e \/ origin[e] = DragHub =>
           t[DragHub].pending = e /\ t[DragHub].pulling = share[DragHub].pulling
      /\ share[DragHub].offer = e /\ origin[e] # DragHub =>
           /\ t[DragHub].pending = 0
           /\ share[DragHub].pulling = 0 => t[DragHub].pulling = e
           /\ share[DragHub].pulling # 0 => t[DragHub].pulling = share[DragHub].pulling
  BY <1>w DEF Waiting
<1>4. t[DragHub].pending \in {e, 0} /\ t[DragHub].pulling \in {share[DragHub].pulling, e}
  BY <1>3
<1>5. \A d \in DR!Drags : \A n \in DR!Machines : IsOn(d, n)' => IsOn(d, n) \/ d = e
  BY <1>3, <1>4, <1>t, MachinesAre DEF IsOn
<1>6. Alone'
  BY <1>1, <1>5, HubIsAlone
<1>7. Held'
  <2>1. \A x \in DragClients : QuietStep(hub.out[x], hub'.out[x])
    BY DEF QuietStep
  <2>2. \A x \in DragClients : share'[x] = share[x]
    BY <1>3, <1>a, <1>t
  <2> QED
    BY <2>1, <2>2, HubHolds
<1>8. InTurn'
  BY HubTurns DEF MildStep
<1>9. ASSUME NEW x \in Astray' PROVE OnItsWay(x)'
  <2>1. x = e /\ OnItsWay(e) /\ origin[e] = c /\ e \in Astray
    BY <1>1, <1>9 DEF Astray, DR!Begun, DR!Drags
  <2>2. ~OfferFirst(up[c], e)
    BY QueuesAre, OfferFirstWithLess
  <2>3. PassedOn(e)
    BY <2>1, <2>2 DEF OnItsWay
  <2>4. share[DragHub].offer = e
    BY <1>a, <2>1, <2>3 DEF PassedOn
  <2>5. /\ \A n \in DR!Machines : /\ share'[n].offer = share[n].offer
                                  /\ share'[n].pending = e => n = origin[e]
                                  /\ share'[n].pulling = e => share'[n].offer = e
        /\ \/ share'[origin[e]].pending = e
           \/ \E n \in DR!Machines : share'[n].pulling = e
    BY <1>a, <2>1, <2>4, WaitsOrFetches
  <2>6. PassedOn(e)'
    BY <1>a, <2>3, <2>5 DEF PassedOn
  <2>7. \A y \in DragClients :
         /\ IsSaid(e, up'[y]) => y = origin'[e]
         /\ PassedOn(e)' \/ OfferFirst(up'[y], e)
         /\ y = origin'[e] \/ share'[y].offer = e \/ OfferFirst(hub'.out[y], e)
    BY <1>1, <1>a, <2>1, <2>5, <2>6 DEF OnItsWay
  <2>8. /\ \A n \in DR!Machines : /\ carries'[n] # e
                                  /\ share'[n].pending = e => n = origin'[e]
                                  /\ share'[n].pulling = e => share'[n].offer = e
        /\ share'[origin'[e]].offer = e
    BY <1>a, <2>1, <2>5 DEF OnItsWay
  <2>9. \/ share'[origin'[e]].pending = e
        \/ \E n \in DR!Machines : share'[n].pulling = e
    BY <2>5
  <2> QED
    BY <2>1, <2>7, <2>8, <2>9 DEF OnItsWay
<1>10. Somewhere'
  BY <1>9 DEF Somewhere, Astray
<1> QED
  BY <1>6, <1>7, <1>8, <1>10 DEF Promised

\* The hub hears what is dragged, and passes it on to where the cursor is.
LEMMA HubPasses ==
  ASSUME DragTypes, HomeFollows, Whole', Promised, NEW c \in DragClients, up[c] # <<>>,
         up' = [up EXCEPT ![c] = Tail(@)], Head(up[c]).kind = "Dragging",
         NEW e, e = Head(up[c]).drag, hub.active # DragHub, hub' = DR!PassOn(hub, c, e),
         UNCHANGED <<share, client, closed, carries, left, hold, holdOf, origin, dropped,
                     landed, missed>>
  PROVE  Promised'
<1>k. Takes(c, e)
  BY DEF Takes
<1>h. e \in DR!Drags /\ e # 0 /\ Alive(e) /\ TookOf(c, e)
  BY <1>k, SaidAtHub
<1>1. /\ e \in DR!Drags /\ e # 0 /\ Alive(e)
      /\ \A x \in Astray : x = e /\ OnItsWay(e) /\ origin[e] = c
      /\ up'[c] = Tail(up[c])
      /\ \A x \in DragClients : x # c => up'[x] = up[x]
      /\ \A d : \A x \in DragClients : IsSaid(d, up'[x]) => IsSaid(d, up[x])
  BY <1>h DEF TookOf
<1>a. /\ DragHub \in DR!Machines /\ c # DragHub
      /\ \A x \in DragClients : x \in DR!Machines /\ x # DragHub
  BY MachinesAre
<1>m. PICK m \in DragMsg : m = DR!Carried(e) /\ m.kind = "Dragging" /\ m.drag = e
  BY <1>1, MessagesAre
<1>2. /\ hub'.active = hub.active /\ hub.active \in DragClients
      /\ Hear(hub.out, {hub.active}, m, hub'.out)
  <2>1. hub' = DR!Departures(DR!Tell(hub, {hub.active}, DR!Carried(e)))
    BY DEF DR!PassOn, DR!SendBulk
  <2> QED
    BY <1>1, <1>m, <2>1, PassOnTells
<1>3. /\ hub'.out[hub.active] = Append(hub.out[hub.active], m)
      /\ \A x \in DragClients : x # hub.active => hub'.out[x] = hub.out[x]
  BY <1>2 DEF Hear
<1>5. \A d \in DR!Drags : \A n \in DR!Machines : IsOn(d, n)' => IsOn(d, n)
  BY DEF IsOn
<1>n. MoreSaid(hub.out[hub.active], hub'.out[hub.active], m)
  BY <1>2, <1>3, QueuesAre, AppendSays
<1>6. \A d : \A x \in DragClients : IsSaid(d, hub'.out[x]) => IsSaid(d, hub.out[x]) \/ d = e
  BY <1>2, <1>3, <1>m, <1>n DEF MoreSaid
<1>7. Alone'
  BY <1>1, <1>5, <1>6, HubIsAlone
<1>8. Held'
  <2>1. \A x \in DragClients : QuietStep(hub.out[x], hub'.out[x])
    BY <1>3, <1>m DEF QuietStep
  <2> QED
    BY <2>1, HubHolds
<1>9. InTurn'
  <2>1. \A x \in DragClients : MildStep(hub.out[x], hub'.out[x])
    BY <1>3, <1>m DEF MildStep
  <2> QED
    BY <1>2, <2>1, HubTurns
<1>10. ASSUME NEW x \in Astray' PROVE OnItsWay(x)'
  <2>1. x = e /\ OnItsWay(e) /\ origin[e] = c
    BY <1>1, <1>10 DEF Astray, DR!Begun, DR!Drags
  <2>2. ~OfferFirst(up[c], e)
    BY QueuesAre, OfferFirstWithLess
  <2>3. PassedOn(e)
    BY <2>1, <2>2 DEF OnItsWay
  <2>4. \A y \in DragClients : OfferIn(hub.out[y], e) => OfferIn(hub'.out[y], e)
    BY <1>2, <1>3, <1>m, <1>n DEF MoreSaid
  <2>5. PassedOn(e)'
    BY <2>3, <2>4 DEF PassedOn
  <2>6. ASSUME NEW y \in DragClients, y # c, share[y].offer # e PROVE OfferFirst(hub'.out[y], e)
    <3>1. OfferFirst(hub.out[y], e) /\ OfferIn(hub.out[y], e)
      BY <2>1, <2>3, <2>6 DEF OnItsWay, PassedOn
    <3> QED
      BY <1>2, <1>3, <1>m, <3>1, QueuesAre, OfferFirstWithMore
  <2>7. \A y \in DragClients :
         /\ IsSaid(e, up'[y]) => y = origin'[e]
         /\ PassedOn(e)' \/ OfferFirst(up'[y], e)
         /\ y = origin'[e] \/ share'[y].offer = e \/ OfferFirst(hub'.out[y], e)
    BY <1>1, <2>1, <2>5, <2>6 DEF OnItsWay
  <2>8. NewsIn(hub'.out[hub.active], e)
    BY <1>2, <1>3, <1>m, <1>n DEF MoreSaid
  <2>9. /\ \A n \in DR!Machines : /\ carries'[n] # e
                                  /\ share'[n].pending = e => n = origin'[e]
                                  /\ share'[n].pulling = e => share'[n].offer = e
        /\ share'[origin'[e]].offer = e
    BY <2>1 DEF OnItsWay
  <2> QED
    BY <1>2, <2>1, <2>7, <2>8, <2>9 DEF OnItsWay
<1>11. Somewhere'
  BY <1>10 DEF Somewhere, Astray
<1> QED
  BY <1>7, <1>8, <1>9, <1>11 DEF Promised

\* Files arrive.
LEMMA LandPromises ==
  ASSUME DragTypes, Promised, NEW m \in DR!Machines, DR!Land(m)
  PROVE  Promised'
<1>d. PICK d : d = share[m].pulling
  OBVIOUS
<1>0. /\ UNCHANGED <<hub, client, up, left, hold, holdOf, origin, dropped, missed>>
      /\ d # 0 /\ landed' = landed \cup {d}
      /\ share' = [share EXCEPT ![m].pulling = 0]
      /\ carries' \in DR!NativeDrop(m, d)
  BY <1>d DEF DR!Land
<1>1. d \in DR!Drags /\ IsOn(d, m) /\ Alive(d)
  BY <1>0, <1>d, MachinesAre DEF DragTypes, ShareType, IsOn, Alive
<1>2. \/ carries' = carries
      \/ DR!Dragging(m) /\ carries' = [carries EXCEPT ![m] = d]
  BY <1>0 DEF DR!NativeDrop
<1>3. \A n \in DR!Machines :
        carries'[n] = carries[n] \/ (n = m /\ carries'[n] = d /\ DR!Dragging(m))
  BY <1>2 DEF DragTypes
<1>4. \A n \in DR!Machines : /\ share'[n].pending = share[n].pending
                             /\ share'[n].pulling \in {share[n].pulling, 0}
  BY <1>0 DEF DragTypes, ShareType
<1>5. ASSUME NEW e \in DR!Drags, NEW n \in DR!Machines, IsOn(e, n)' PROVE IsOn(e, n)
  BY <1>1, <1>3, <1>4, <1>5, MachinesAre DEF IsOn
<1>6. \A e \in DR!Drags : Alive(e)' => Alive(e)
  BY <1>0, <1>5 DEF Alive
<1>7. Alone'
  <2>1. Counts
    BY <1>0, StillCounts DEF Promised
  <2> QED
    BY <1>0, <1>6, <2>1, AloneStays DEF Promised, Counts
<1>8. ASSUME NEW c \in DragClients, DR!Dragging(c)
      PROVE  client[c].acting = TRUE /\ client[c].down = TRUE
  BY <1>8, MachinesAre DEF DR!Dragging, DragTypes
<1>9. ASSUME NEW c \in DragClients PROVE TakesTurns(c)'
  <2>1. TakesTurns(c) /\ c \in DR!Machines
    BY MachinesAre DEF Promised, InTurn
  <2>2. carries'[c] # 0 => client[c].acting = TRUE
    BY <1>3, <1>8, <2>1 DEF TakesTurns
  <2> QED
    BY <1>0, <2>1, <2>2 DEF TakesTurns
<1>10. ASSUME NEW e \in DR!Begun \ missed', Holding(e) PROVE Holding(e)'
  <2>1. ASSUME NEW c \in DragClients
        PROVE  /\ MovedBefore(hub'.out[c], e)
               /\ IsOn(e, c)' => Unmoved(hub'.out[c])
               /\ carries'[c] = e => client'[c].down = TRUE
    <3>1. c \in DR!Machines /\ e \in DR!Drags
      BY MachinesAre DEF DR!Begun
    <3>2. /\ MovedBefore(hub.out[c], e)
          /\ IsOn(e, c) => Unmoved(hub.out[c])
          /\ carries[c] = e => client[c].down = TRUE
      BY <1>10 DEF Holding
    <3>3. carries'[c] = e => client[c].down = TRUE
      BY <1>3, <1>8, <3>1, <3>2
    <3> QED
      BY <1>0, <1>5, <3>1, <3>2, <3>3
  <2>2. e \notin dropped'
    BY <1>0, <1>10 DEF Holding
  <2> QED
    BY <2>1, <2>2 DEF Holding
<1>11. Held'
  BY <1>0, <1>10, HeldStays DEF Promised
<1>12. Astray' = {}
  <2> SUFFICES ASSUME NEW x \in Astray' PROVE FALSE
    OBVIOUS
  <2>1. x \in Astray /\ x # d
    BY <1>0 DEF Astray, DR!Begun, DR!Drags
  <2> QED
    BY <1>1, <2>1, OnlyOne DEF Promised
<1>13. Somewhere'
  BY <1>12 DEF Somewhere, Astray
<1> QED
  BY <1>7, <1>9, <1>11, <1>13 DEF Promised, InTurn

\* Files do not arrive: of a drag that is on its way they do.
LEMMA PullFailsPromises ==
  ASSUME DragTypes, Whole, Promised, NEW m \in DR!Machines, DR!PullFails(m)
  PROVE  Promised'
<1>d. PICK d : d = share[m].pulling
  OBVIOUS
<1>0. /\ UNCHANGED <<hub, client, up, carries, left, hold, holdOf, origin, dropped, missed,
                     landed>>
      /\ d # 0 /\ share' = [share EXCEPT ![m].pulling = 0]
      /\ \/ share[origin[d]].offer # d \/ share[m].offer # d
         \/ \E n \in {m, origin[d]} \ {DragHub} : n \notin hub.attached
  BY <1>d DEF DR!PullFails, DR!happened
<1>1. d \in DR!Drags /\ Alive(d)
  BY <1>0, <1>d, MachinesAre DEF DragTypes, ShareType, IsOn, Alive
<1>2. \A n \in DR!Machines : /\ share'[n].pending = share[n].pending
                             /\ share'[n].pulling \in {share[n].pulling, 0}
  BY <1>0 DEF DragTypes, ShareType
<1>3. ASSUME NEW e \in DR!Drags, NEW n \in DR!Machines, IsOn(e, n)' PROVE IsOn(e, n)
  BY <1>0, <1>2, <1>3, MachinesAre DEF IsOn
<1>4. \A e \in DR!Drags : Alive(e)' => Alive(e)
  BY <1>0, <1>3 DEF Alive
<1>5. Alone'
  <2>1. Counts
    BY <1>0, StillCounts DEF Promised
  <2> QED
    BY <1>0, <1>4, <2>1, AloneStays DEF Promised, Counts
<1>6. InTurn'
  BY <1>0 DEF Promised, InTurn, TakesTurns
<1>7. ASSUME NEW e \in DR!Begun \ missed', Holding(e) PROVE Holding(e)'
  <2>1. \A c \in DragClients : IsOn(e, c)' => IsOn(e, c)
    BY <1>3, MachinesAre DEF DR!Begun
  <2> QED
    BY <1>0, <1>7, <2>1 DEF Holding
<1>8. Held'
  BY <1>0, <1>7, HeldStays DEF Promised
<1>9. Astray = {}
  <2> SUFFICES ASSUME NEW x \in Astray PROVE FALSE
    OBVIOUS
  <2>1. x = d /\ (UnderPointer(d) \/ OnItsWay(d))
    BY <1>1, OnlyOne DEF Promised
  <2>2. OnItsWay(d)
    BY <1>d, <2>1 DEF UnderPointer
  <2>3. share[m].offer = d /\ share[origin[d]].offer = d
    BY <1>d, <2>2 DEF OnItsWay
  <2>4. origin[d] \in DR!Machines
    BY <1>1 DEF DragTypes
  <2> QED
    BY <1>0, <2>3, <2>4, MachinesAre DEF Whole
<1>10. Somewhere'
  BY <1>0, <1>9 DEF Somewhere, Astray, DR!Begun, DR!Drags
<1> QED
  BY <1>5, <1>6, <1>8, <1>10 DEF Promised

\* Drags as they are when the server starts.
LEMMA NothingIsDragged == DR!Init => DragInv
<1> SUFFICES ASSUME DR!Init PROVE DragInv
  OBVIOUS
<1>i. /\ hub = [active |-> DragHub, attached |-> DragClients, swallow |-> FALSE,
                hidden |-> FALSE, out |-> [c \in DragClients |-> <<>>], downs |-> {}]
      /\ share = [m \in DR!Machines |-> [offer |-> 0, pending |-> 0, pulling |-> 0]]
      /\ client = [c \in DragClients |-> [acting |-> FALSE, down |-> FALSE]]
      /\ up = [c \in DragClients |-> <<>>]
      /\ closed = {} /\ left = FALSE /\ hold = 0
      /\ carries = [m \in DR!Machines |-> 0]
      /\ holdOf = [d \in DR!Drags |-> 0] /\ origin = [d \in DR!Drags |-> DragHub]
      /\ dropped = {}
  BY DEF DR!Init
<1>a. DragHub \in DR!Machines /\ 0 \in 0 .. MaxDrags /\ <<>> \in Seq(DragMsg)
  BY MachinesAre, DragAssumption
<1>1. DragTypes
  BY <1>i, <1>a DEF DragTypes, HubType, ShareType
<1>2. HomeFollows
  BY <1>i DEF HomeFollows, Homely
<1>3. DR!Begun = {}
  BY <1>i DEF DR!Begun
<1>4. \A c \in DragClients : hub.out[c] = <<>> /\ up[c] = <<>>
  BY <1>i
<1>5. \A e \in DR!Drags : ~Alive(e)
  <2> SUFFICES ASSUME NEW e \in DR!Drags, Alive(e) PROVE FALSE
    OBVIOUS
  <2>1. e # 0
    BY MachinesAre
  <2>2. \A m \in DR!Machines : ~IsOn(e, m)
    BY <1>i, <2>1 DEF IsOn
  <2>3. ~IsSaid(e, <<>>)
    BY DEF IsSaid
  <2> QED
    BY <1>4, <2>2, <2>3 DEF Alive
<1>6. Alone
  BY <1>3, <1>5, <1>i DEF Alone
<1>7. InTurn
  <2> SUFFICES ASSUME NEW c \in DragClients PROVE TakesTurns(c)
    BY DEF InTurn
  <2>1. Alternates(<<>>) /\ LeaveLast(<<>>)
    BY DEF Alternates, LeaveLast
  <2>2. client[c].acting = FALSE /\ carries[c] = 0
    BY <1>i, MachinesAre
  <2> QED
    BY <1>4, <2>1, <2>2 DEF TakesTurns
<1>8. Held /\ Somewhere
  BY <1>3 DEF Held, Somewhere
<1> QED
  BY <1>1, <1>2, <1>6, <1>7, <1>8 DEF DragInv

\* Nobody is lost in a step if nobody is after it.
LEMMA CrossOutWhole ==
  ASSUME DragTypes, HomeFollows, Whole', NEW c \in DragClients, DR!CrossOut(c)
  PROVE  Whole
<1>d. PICK d : d = carries[DragHub]
  OBVIOUS
<1>c. closed' = closed
  BY DEF DR!CrossOut
<1>1. PICK h : \E r \in DR!Catches(left, d) :
              /\ hub.active = DragHub
              /\ Looked(c, r, d) /\ Leaving(h, c)
              /\ Empty(c, r, h) \/ \E h1, h2 : Laden(c, r, d, h, h1, h2)
  BY <1>d, CrossOutIs
<1>2. PICK r \in DR!Catches(left, d) :
              /\ hub.active = DragHub
              /\ Looked(c, r, d) /\ Leaving(h, c)
              /\ Empty(c, r, h) \/ \E h1, h2 : Laden(c, r, d, h, h1, h2)
  BY <1>1
<1>3. CASE Empty(c, r, h)
  BY <1>2, <1>3, <1>c, EmptyTells
<1>4. CASE \E h1, h2 : Laden(c, r, d, h, h1, h2)
  <2>1. PICK h1, h2 : Laden(c, r, d, h, h1, h2)
    BY <1>4
  <2>2. r # "nothing"
    BY <2>1 DEF Laden
  <2>3. d # 0
    BY <2>2, CaughtIsThere
  <2>4. d \in DR!Drags
    BY <1>d, <2>3, MachinesAre DEF DragTypes
  <2> QED
    BY <1>2, <1>c, <2>1, <2>4, LadenTells
<1> QED
  BY <1>2, <1>3, <1>4

LEMMA HubTakesOfferWhole ==
  ASSUME DragTypes, HomeFollows, Whole', NEW c \in DragClients, up[c] # <<>>,
         DR!HubTakesOffer(c)
  PROVE  Whole
<1>e. PICK e : e = Head(up[c]).drag
  OBVIOUS
<1>0. /\ closed' = closed /\ Head(up[c]).kind = "Offer"
      /\ hub' = DR!Departures(DR!Tell(hub, DragClients \ {c}, DR!Offered(e)))
  BY <1>e DEF DR!HubTakesOffer, DR!SendBulk
<1>1. Head(up[c]) \in DragMsg
  BY QueuesAre, TakeFirst
<1>2. e \in DR!Drags
  BY <1>0, <1>1, <1>e, NamesADrag
<1> QED
  BY <1>0, <1>2, HubOfferTells

LEMMA DragStep == DragInv /\ [DR!Next]_DR!vars => DragInv'
<1> SUFFICES ASSUME DragInv, [DR!Next]_DR!vars PROVE DragInv'
  OBVIOUS
<1>1. DragTypes' /\ HomeFollows'
  BY DragStepTyped DEF DragInv
<1>2. ASSUME Whole' PROVE Promised'
  <2>0. DragTypes /\ HomeFollows /\ (Whole => Promised)
    BY DEF DragInv, Promised
  <2>1. CASE UNCHANGED DR!vars
    <3>1. UNCHANGED <<hub, share, client, up, closed, carries, left, hold, holdOf, origin,
                      dropped, landed, missed>>
      BY <2>1 DEF DR!vars, DR!happened
    <3>2. Promised
      BY <1>2, <2>0, <3>1 DEF Whole
    <3>3. Alone' /\ InTurn' /\ Somewhere'
      BY <3>1, <3>2 DEF Promised, Alone, Alive, IsOn, InTurn, TakesTurns, Somewhere,
           UnderPointer, OnItsWay, PassedOn, DR!Begun, DR!Drags
    <3>4. Held'
      BY <3>1, <3>2 DEF Promised, Held, Holding, IsOn, DR!Begun, DR!Drags
    <3> QED
      BY <3>3, <3>4 DEF Promised
  <2>2. CASE DR!PressLeft \/ DR!LetGoLeft
    <3>b. PICK b \in BOOLEAN :
            hub' = DR!Departures(DR!Tell(hub, {hub.active} \ {DragHub}, DR!Button(b)))
      BY <2>2 DEF DR!PressLeft, DR!LetGoLeft
    <3>1. closed' = closed
      BY <2>2 DEF DR!PressLeft, DR!LetGoLeft
    <3>2. Whole
      BY <1>2, <2>0, <3>1, <3>b, HandTells
    <3> QED
      BY <1>2, <2>0, <2>2, <3>2, HandPromises
  <2>3. CASE DR!CrossHome
    BY <1>2, <2>0, <2>3, CrossHomeTells, CrossHomePromises
  <2>4. ASSUME NEW m \in DR!Machines, DR!BeginDrag(m) PROVE Promised'
    <3>1. Whole
      BY <1>2, <2>4 DEF Whole, DR!BeginDrag
    <3> QED
      BY <2>0, <2>4, <3>1, BeginPromises
  <2>5. ASSUME NEW m \in DR!Machines, DR!Land(m) PROVE Promised'
    <3>1. Whole
      BY <1>2, <2>5 DEF Whole, DR!Land
    <3> QED
      BY <2>0, <2>5, <3>1, LandPromises
  <2>6. ASSUME NEW m \in DR!Machines, DR!PullFails(m) PROVE Promised'
    <3>1. Whole
      BY <1>2, <2>6 DEF Whole, DR!PullFails
    <3> QED
      BY <2>0, <2>6, <3>1, PullFailsPromises
  <2>7. ASSUME NEW c \in DragClients, DR!CrossOut(c) PROVE Promised'
    <3>1. Whole
      BY <1>2, <2>0, <2>7, CrossOutWhole
    <3> QED
      BY <1>2, <2>0, <2>7, <3>1, CrossOutPromises
  <2>8. ASSUME NEW c \in DragClients, DR!CrossOver(c) PROVE Promised'
    BY <1>2, <2>0, <2>8, CrossOverTells, CrossOverPromises
  <2>9. ASSUME NEW c \in DragClients, DR!Cut(c) \/ DR!Gone(c) \/ DR!Detached(c) PROVE Promised'
    <3>1. c \in closed'
      BY <2>9 DEF DR!Cut, DR!Gone, DR!Detached
    <3> QED
      BY <1>2, <3>1 DEF Whole
  <2>10. ASSUME NEW c \in DragClients, DR!ClientHears(c) PROVE Promised'
    <3>1. /\ hub.out[c] # <<>>
          /\ DR!HearEnter(c) \/ DR!HearButton(c) \/ DR!HearLeave(c) \/ DR!HearBulk(c)
      BY <2>10 DEF DR!ClientHears
    <3>2. DR!Heard(c) /\ closed' = closed
      BY <3>1 DEF DR!HearEnter, DR!HearButton, DR!HearLeave, DR!HearBulk
    <3>3. hub'.attached = hub.attached
      BY <2>0, <3>1, <3>2, HeardIs
    <3>4. Promised
      BY <1>2, <2>0, <3>2, <3>3 DEF Whole
    <3> QED
      BY <2>0, <3>1, <3>4, HearEnterPromises, HearButtonPromises, HearLeavePromises,
         HearBulkPromises
  <2>11. ASSUME NEW c \in DragClients, DR!HubHears(c) PROVE Promised'
    <3>1. /\ up[c] # <<>>
          /\ DR!HubTakesOffer(c) \/ DR!HubHearsDragging(c)
      BY <2>11 DEF DR!HubHears
    <3>e. PICK e : e = Head(up[c]).drag
      OBVIOUS
    <3>2. CASE DR!HubTakesOffer(c)
      <4>1. Whole
        BY <1>2, <2>0, <3>1, <3>2, HubTakesOfferWhole
      <4> QED
        BY <1>2, <2>0, <3>1, <3>2, <4>1, HubTakesOfferPromises
    <3>3. CASE DR!HubHearsDragging(c)
      <4>0. /\ UNCHANGED <<client, closed, carries, left, hold, holdOf, origin, dropped,
                           landed, missed>>
            /\ up' = [up EXCEPT ![c] = Tail(@)] /\ Head(up[c]).kind = "Dragging"
        BY <3>3 DEF DR!HubHearsDragging, DR!happened
      <4>1. CASE hub.active = DragHub
        <5>1. share' = DR!DropHere(DragHub, share, e) /\ UNCHANGED hub
          BY <3>3, <3>e, <4>1 DEF DR!HubHearsDragging
        <5>2. Promised
          BY <1>2, <2>0, <4>0, <5>1 DEF Whole
        <5> QED
          BY <2>0, <3>1, <3>e, <4>0, <5>1, <5>2, HubFetches
      <4>2. CASE hub.active # DragHub
        <5>1. hub' = DR!PassOn(hub, c, e) /\ UNCHANGED share
          BY <3>3, <3>e, <4>2 DEF DR!HubHearsDragging
        <5>2. e \in DR!Drags
          <6>1. Head(up[c]) \in DragMsg
            BY <2>0, <3>1, QueuesAre, TakeFirst
          <6> QED
            BY <3>e, <4>0, <6>1, NamesADrag
        <5>3. hub' = DR!Departures(DR!Tell(hub, {hub.active}, DR!Carried(e)))
          BY <5>1 DEF DR!PassOn, DR!SendBulk
        <5>4. Whole
          BY <1>2, <2>0, <4>0, <4>2, <5>2, <5>3, PassOnTells
        <5> QED
          BY <1>2, <2>0, <3>1, <3>e, <4>0, <4>2, <5>1, <5>4, HubPasses
      <4> QED
        BY <4>1, <4>2
    <3> QED
      BY <3>1, <3>2, <3>3
  <2> QED
    BY <2>1, <2>2, <2>3, <2>4, <2>5, <2>6, <2>7, <2>8, <2>9, <2>10, <2>11 DEF DR!Next
<1> QED
  BY <1>1, <1>2 DEF DragInv, Promised

\* What the invariant says of a drag that is still to be somewhere when everything
\* has been said.
LEMMA DragInvCarries == DragInv => DragIsCarried
<1> SUFFICES ASSUME DragInv PROVE DragIsCarried
  OBVIOUS
<1>1. DR!HiddenWhileAway
  <2>1. HomeFollows /\ hub \in HubType
    BY DEF DragInv, DragTypes
  <2>2. hub.swallow \in BOOLEAN /\ hub.hidden \in BOOLEAN
    BY <2>1 DEF HubType
  <2>3. hub.swallow = (hub.active # DragHub)
    BY <2>1, <2>2 DEF HomeFollows, Homely
  <2>4. hub.hidden = (hub.active # DragHub) \/ spoiled
    BY <2>1, <2>2 DEF HomeFollows, Homely
  <2> QED
    BY <2>3, <2>4 DEF DR!HiddenWhileAway
<1>2. DR!CarriedUntilLetGo
  <2> SUFFICES ASSUME hub.attached = DragClients, closed = {}, NEW d \in DR!Begun \ missed
               PROVE  /\ d \in dropped => ~(left /\ holdOf[d] = hold)
                      /\ (/\ \A c \in DragClients : hub.out[c] = <<>> /\ up[c] = <<>>
                          /\ \A m \in DR!Machines : share[m].pulling = 0)
                         => \/ d \in dropped \cup landed
                            \/ \E m \in DR!Machines : carries[m] = d
                            \/ share[origin[d]].pending = d
    BY DEF DR!CarriedUntilLetGo
  <2>1. Held /\ Somewhere /\ DragTypes
    BY DEF DragInv, Whole
  <2>2. d \in dropped => ~(left /\ holdOf[d] = hold)
    BY <2>1 DEF Held, Holding
  <2>3. ASSUME \A c \in DragClients : hub.out[c] = <<>> /\ up[c] = <<>>,
               \A m \in DR!Machines : share[m].pulling = 0,
               d \notin dropped \cup landed
        PROVE  \/ \E m \in DR!Machines : carries[m] = d
               \/ share[origin[d]].pending = d
    <3>1. UnderPointer(d) \/ OnItsWay(d)
      BY <2>1, <2>3 DEF Somewhere
    <3>2. d # 0
      BY MachinesAre DEF DR!Begun
    <3>3. ~NewsIn(<<>>, d)
      BY DEF NewsIn
    <3> QED
      BY <2>3, <3>1, <3>2, <3>3 DEF UnderPointer, OnItsWay
  <2> QED
    BY <2>2, <2>3
<1> QED
  BY <1>1, <1>2 DEF DragIsCarried

\* Drag: whatever is told to whom and whoever hears it when, what is dragged stays
\* under the hand until the hand lets go, and the pointer at home is hidden, and its
\* input swallowed, exactly while the cursor is away.
THEOREM DragAlwaysCarried == DR!Spec => []DragIsCarried
<1>1. DR!Init => DragInv
  BY NothingIsDragged
<1>2. DragInv /\ [DR!Next]_DR!vars => DragInv'
  BY DragStep
<1>3. DragInv => DragIsCarried
  BY DragInvCarries
<1> QED
  BY <1>1, <1>2, <1>3, PTL DEF DR!Spec
=============================================================================
