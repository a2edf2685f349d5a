--------------------------- MODULE Heartbeat_proof ---------------------------
(* A link that works is never given up, for every heartbeat, every number  *)
(* of misses above one and every delay below half a heartbeat.  The rounds *)
(* do not overlap: a ping is exactly as old as the heartbeat that sent it, *)
(* and by the next heartbeat its answer has come, so what either end has   *)
(* waited is bounded by two heartbeats.                                    *)
EXTENDS Heartbeat, TLAPS

\* Where a round stands while the link works.
RoundOnTime ==
  /\ heard <= Beat + beat
  /\ waited <= Beat + beat
  /\ ping # None => ping = beat /\ pong = None
  /\ pong # None => pong <= beat /\ beat <= pong + Delay
  /\ ping = None => waited <= beat
  /\ ping = None /\ pong = None => heard <= beat

IInv ==
  /\ TypeOK
  /\ dead => ping = None /\ pong = None
  /\ ~dead => attached /\ session /\ RoundOnTime

\* Two heartbeats fit in what either end puts up with.
LEMMA LimitIsLong == Limit \in Nat /\ Beat \in Nat /\ 2 * Beat <= Limit
<1>1. Missed \in Nat /\ Missed >= 2 /\ Beat \in Nat
  BY TimeAssumption
<1>2. PICK m \in Nat : Missed = m + 2
  <2>1. Missed - 2 \in Nat /\ Missed = (Missed - 2) + 2
    BY <1>1
  <2> QED
    BY <2>1
<1>3. Missed * Beat = m * Beat + 2 * Beat
  BY <1>1, <1>2
<1>4. m * Beat \in Nat
  BY <1>1, <1>2
<1> QED
  BY <1>1, <1>3, <1>4 DEF Limit

\* The facts about the constants that every step below needs.
LEMMA Bounds ==
  /\ Beat \in Nat /\ Look \in Nat /\ Delay \in Nat /\ Limit \in Nat
  /\ 2 * Delay < Beat /\ 2 * Beat <= Limit
  /\ None \notin Nat
BY TimeAssumption, NoneAssumption, LimitIsLong

\* A link starts out in order.
LEMMA InitOnTime == Init => IInv
<1> SUFFICES ASSUME Init
             PROVE  IInv
  OBVIOUS
<1>1. TypeOK
  <2>1. dead \in BOOLEAN /\ attached \in BOOLEAN /\ session \in BOOLEAN
    BY Zenon DEF Init
  <2>2. /\ beat \in 0 .. Beat /\ heard \in 0 .. Limit + 1
        /\ look \in 0 .. Look /\ waited \in 0 .. Limit
    BY Bounds DEF Init
  <2>3. ping \in Times \cup {None} /\ pong \in Times \cup {None}
    BY DEF Init
  <2> QED
    BY <2>1, <2>2, <2>3 DEF TypeOK
<1>2. RoundOnTime
  BY Bounds DEF Init, RoundOnTime
<1> QED
  BY <1>1, <1>2, Zenon DEF Init, IInv

\* Every step leaves it in order.
LEMMA StepOnTime == IInv /\ [Next]_vars => IInv'
<1> SUFFICES ASSUME IInv, [Next]_vars
             PROVE  IInv'
  OBVIOUS
<1> USE Bounds
<1>1. CASE Advance
  <2>1. TypeOK'
    BY <1>1 DEF IInv, TypeOK, Advance, Older, InTime, Later, Times
  <2>2. (dead => ping = None /\ pong = None)'
    BY <1>1 DEF IInv, Advance, Later
  <2>3. (~dead => attached /\ session /\ RoundOnTime)'
    BY <1>1 DEF IInv, TypeOK, RoundOnTime, Advance, Older, InTime, Later, Times
  <2> QED
    BY <2>1, <2>2, <2>3 DEF IInv
<1>2. CASE Sleep
  BY <1>2 DEF IInv, TypeOK, Sleep, Older
<1>3. CASE Die
  BY <1>3 DEF IInv, TypeOK, Die
<1>4. CASE ServerBeat
  <2>1. ~dead => ping = None /\ pong = None /\ heard <= Limit
    BY <1>4 DEF IInv, TypeOK, RoundOnTime, ServerBeat, Times
  <2>2. TypeOK'
    BY <1>4 DEF IInv, TypeOK, ServerBeat, Times
  <2>3. (dead => ping = None /\ pong = None)'
    BY <1>4 DEF IInv, ServerBeat
  <2>4. ~dead' => attached' /\ session'
    BY <1>4, <2>1, Zenon DEF IInv, ServerBeat
  <2>5. ~dead' => RoundOnTime'
    BY <1>4, <2>1, <2>4 DEF IInv, TypeOK, RoundOnTime, ServerBeat
  <2> QED
    BY <2>2, <2>3, <2>4, <2>5 DEF IInv
<1>5. CASE Answer
  <2>1. TypeOK' /\ ~dead /\ ~dead'
    BY <1>5 DEF IInv, TypeOK, Answer, Rearmed, Times
  <2>2. RoundOnTime'
    BY <1>5, <2>1 DEF IInv, TypeOK, RoundOnTime, Answer, Rearmed, Times
  <2>3. attached' /\ session'
    BY <1>5, <2>1, Zenon DEF IInv, Answer
  <2> QED
    BY <2>1, <2>2, <2>3 DEF IInv
<1>6. CASE Hear
  BY <1>6 DEF IInv, TypeOK, RoundOnTime, Hear, Times
<1>7. CASE LookAround
  BY <1>7 DEF IInv, TypeOK, RoundOnTime, LookAround, Rearmed, Times
<1>8. CASE GiveUp
  <2>1. dead
    BY <1>8 DEF IInv, TypeOK, RoundOnTime, GiveUp, Times
  <2>2. TypeOK' /\ dead' /\ ping' = None /\ pong' = None
    BY <1>8, <2>1 DEF IInv, TypeOK, GiveUp
  <2> QED
    BY <2>2 DEF IInv
<1>9. CASE UNCHANGED vars
  BY <1>9 DEF IInv, TypeOK, RoundOnTime, vars
<1> QED
  BY <1>1, <1>2, <1>3, <1>4, <1>5, <1>6, <1>7, <1>8, <1>9 DEF Next

\* The strengthened invariant holds throughout.
THEOREM OnTime == Spec => []IInv
BY InitOnTime, StepOnTime, PTL DEF Spec

\* Neither end gives up a link that works.
THEOREM LiveLinkKept == Spec => []LiveLinkIsKept
<1>1. IInv => LiveLinkIsKept
  BY DEF IInv, LiveLinkIsKept
<1> QED
  BY <1>1, OnTime, PTL
=============================================================================
