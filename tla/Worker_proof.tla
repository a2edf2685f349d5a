---------------------------- MODULE Worker_proof ----------------------------
(***************************************************************************)
(* A proof about Worker, for any desktops, any number of failures and      *)
(* however much a worker has said that nobody has heard: what the daemon   *)
(* believes it can reach is where what it sends goes, and the worker there *)
(* swallows as it was told.                                                *)
(*                                                                         *)
(* Neither follows from what the minder alone does: anybody who says       *)
(* something may find the pipe dead between any two of its steps, and be   *)
(* overtaken before the reach is told, and the daemon may change its mind. *)
(* What carries them is who holds a pipe when (NoPipe): there is none      *)
(* while a worker is let go of and started and none where the minder holds *)
(* no worker, and until attach claims one nobody is believed in either, so *)
(* a worker that replaces another is never written to on the other's       *)
(* account; and, while attach is half way, it is at a desktop, and what it *)
(* read is what is wanted unless it says that it was overtaken             *)
(* (AttachIsCurrent).                                                      *)
(***************************************************************************)
EXTENDS Worker, SequenceTheorems, TLAPS

Processes == [on : Names, alive : BOOLEAN, reads : BOOLEAN, told : Names,
              waits : Seq(Names), pipe : Seq(Names), swallows : BOOLEAN]

Types ==
  /\ minder \in Steps
  /\ running \in BOOLEAN /\ write \in BOOLEAN /\ crossed \in BOOLEAN
  /\ swallow \in BOOLEAN /\ standing \in BOOLEAN /\ outrun \in BOOLEAN
  /\ worker \in Processes
  /\ stray \in Seq(Names)
  /\ saidInput \in Names
  /\ reach \in [worker : Names, input : Names]

NoPipe ==
  /\ minder \in {"letting go", "starting", "joining"} => ~write
  /\ minder \in {"starting", "joining", "placed"} => reach.worker = None
  /\ minder = "looking" /\ ~running => ~write /\ reach.worker = None

AttachIsCurrent ==
  Attaching => worker.on # None /\ (~crossed => standing = swallow)

IInv == Types /\ ReachIsTrue /\ SwallowsAsTold /\ NoPipe /\ AttachIsCurrent

-----------------------------------------------------------------------------
\* A process that is not there, and one that has just come.
LEMMA ProcessTyped ==
  /\ NoProcess \in Processes
  /\ \A d \in Desktops : Process(d) \in Processes /\ Process(d).on = d
<1>1. <<>> \in Seq(Names) /\ None \in Names /\ Desktops \subseteq Names
  BY DEF Names
<1> QED
  BY <1>1 DEF NoProcess, Process, Processes

\* A process that is roused is the same one.
LEMMA RousedTyped ==
  ASSUME NEW p \in Processes
  PROVE  Roused(p) \in Processes /\ Roused(p).on = p.on /\ Roused(p).swallows = p.swallows
<1>1. p.pipe \o p.waits \in Seq(Names) /\ <<>> \in Seq(Names)
  BY ConcatProperties DEF Processes
<1> QED
  BY <1>1 DEF Roused, Processes

\* Nothing of it depends on more than these.
LEMMA Undisturbed ==
  ASSUME IInv, UNCHANGED <<minder, running, write, telling, outrun, told>>,
         worker' \in Processes, worker'.on = worker.on, worker'.swallows = worker.swallows,
         stray' \in Seq(Names), saidInput' \in Names,
         reach' \in [worker : Names, input : Names], reach'.worker = reach.worker
  PROVE  IInv'
<1>1. Types'
  BY DEF IInv, Types, told
<1>2. ReachIsTrue' /\ SwallowsAsTold'
  BY DEF IInv, ReachIsTrue, SwallowsAsTold, told
<1>3. NoPipe' /\ AttachIsCurrent'
  BY DEF IInv, NoPipe, AttachIsCurrent, Attaching, told
<1> QED
  BY <1>1, <1>2, <1>3 DEF IInv

\* It holds before any worker was started,
LEMMA InitHolds == Init => IInv
<1> SUFFICES ASSUME Init PROVE IInv
  OBVIOUS
<1>1. Types
  <2>1. <<>> \in Seq(Names)
    OBVIOUS
  <2> QED
    BY <2>1, ProcessTyped DEF Init, Types, Names, Steps
<1> QED
  BY <1>1 DEF Init, IInv, ReachIsTrue, SwallowsAsTold, NoPipe, AttachIsCurrent, Attaching

\* A worker that is let go of has no pipe; what it was believed to be stays until
\* the next step.
LEMMA DetachKeeps ==
  ASSUME IInv, Detach, minder = "looking", UNCHANGED <<told, worker, heard>>,
         running' \in BOOLEAN
  PROVE  IInv'
BY DEF Detach, IInv, Types, Steps, ReachIsTrue, SwallowsAsTold, NoPipe, AttachIsCurrent,
       Attaching, told, heard

\* What one turn of the minder does, before a worker is started.
LEMMA MinderKeeps ==
  ASSUME IInv, LoseWorker \/ NobodyThere \/ Look \/ LetsGo
  PROVE  IInv'
<1>1. CASE LoseWorker
  BY <1>1, DetachKeeps DEF LoseWorker, Looking
<1>2. CASE NobodyThere
  BY <1>2, DetachKeeps DEF NobodyThere, Looking, IInv, Types
<1>3. CASE Look
  <2>1. minder = "looking" /\ UNCHANGED <<told, worker, heard>>
    BY <1>3 DEF Look, Looking
  <2>2. CASE UNCHANGED <<minder, wanted, running, linked, cutOff>>
    BY <2>1, <2>2 DEF IInv, Types, ReachIsTrue, SwallowsAsTold, NoPipe, AttachIsCurrent,
                      Attaching, told, heard, linked
  <2>3. CASE running' = FALSE /\ Detach
    BY <2>1, <2>3, DetachKeeps
  <2>4. CASE ~running /\ running' = FALSE /\ minder' = "starting" /\ UNCHANGED <<linked, cutOff>>
    BY <2>1, <2>4 DEF IInv, Types, Steps, ReachIsTrue, SwallowsAsTold, NoPipe,
                      AttachIsCurrent, Attaching, told, heard, linked
  <2> QED
    BY <1>3, <2>2, <2>3, <2>4 DEF Look
<1>4. CASE LetsGo
  <2>1. /\ ~write /\ write' = write /\ reach' = [reach EXCEPT !.worker = None]
        /\ outrun' = FALSE /\ saidInput' = None /\ crossed' = FALSE
        /\ UNCHANGED <<running, telling, swallow, standing>>
        /\ \/ minder' = "looking" /\ UNCHANGED <<worker, heard>>
           \/ minder' = "starting" /\ worker' = NoProcess /\ stray' = worker.pipe
    BY <1>4 DEF LetsGo, IInv, NoPipe
  <2>2. /\ worker' \in Processes /\ stray' \in Seq(Names)
        /\ reach' \in [worker : Names, input : Names] /\ reach'.worker = None
    <3>1. worker.pipe \in Seq(Names)
      BY DEF IInv, Types, Processes
    <3> QED
      BY <2>1, <3>1, ProcessTyped DEF IInv, Types, Names, heard
  <2>3. None \in Names /\ minder' \in Steps
    BY <2>1 DEF Names, Steps
  <2>4. Types'
    BY <2>1, <2>2, <2>3 DEF IInv, Types
  <2>5. ReachIsTrue' /\ NoPipe'
    BY <2>1, <2>2 DEF IInv, Types, ReachIsTrue, NoPipe
  <2>6. SwallowsAsTold' /\ AttachIsCurrent'
    BY <2>1 DEF SwallowsAsTold, AttachIsCurrent, Attaching
  <2> QED
    BY <2>4, <2>5, <2>6 DEF IInv
<1> QED
  BY <1>1, <1>2, <1>3, <1>4

\* Whoever finds the pipe dead drops it, and has yet to tell the reach.
LEMMA DropKeeps ==
  ASSUME IInv, NEW v, Drops(v)
  PROVE  /\ ReachIsTrue' /\ SwallowsAsTold' /\ write' = FALSE /\ worker' = worker
         /\ reach' = reach /\ outrun' = outrun /\ saidInput' = saidInput
<1>1. v \in telling'
  BY DEF Drops
<1> QED
  BY <1>1 DEF Drops, IInv, Types, ReachIsTrue, SwallowsAsTold

\* A worker is started, or is not, and the rest of attach.
LEMMA StartKeeps ==
  ASSUME IInv, (\E d \in Desktops : Starts(d)) \/ StartFails \/ Place \/ Claim \/ Attach
  PROVE  IInv'
<1> USE DEF IInv, NoPipe, ReachIsTrue, SwallowsAsTold, AttachIsCurrent, Attaching, Steps
<1>1. ASSUME NEW d \in Desktops, Starts(d) PROVE IInv'
  <2>1. /\ worker' \in Processes /\ worker'.on = d /\ d # None
    BY <1>1, ProcessTyped, DesktopAssumption DEF Starts
  <2>2. /\ minder = "starting" /\ minder' = "joining"
        /\ standing' = swallow /\ crossed' = FALSE
        /\ UNCHANGED <<running, linked, swallow, heard>>
    BY <1>1 DEF Starts
  <2>3. Types'
    BY <2>1, <2>2 DEF Types, linked, heard
  <2>4. ReachIsTrue' /\ SwallowsAsTold'
    BY <2>2, <2>1 DEF Types, linked
  <2>5. NoPipe' /\ AttachIsCurrent'
    BY <2>1, <2>2 DEF linked
  <2> QED
    BY <2>3, <2>4, <2>5
<1>2. CASE StartFails
  BY <1>2 DEF StartFails, Types, linked, told, heard
<1>3. CASE Place
  BY <1>3 DEF Place, Types, told, heard
<1>4. CASE Claim
  <2>1. worker.on \in Names
    BY DEF Types, Processes
  <2>2. /\ minder = "placed" /\ minder' = "attaching" /\ outrun' = ~write
        /\ UNCHANGED <<running, write, saidInput, telling, told, worker, heard>>
        /\ reach' = [reach EXCEPT !.worker = worker.on]
    BY <1>4 DEF Claim
  <2>3. Types'
    BY <2>1, <2>2 DEF Types, told, heard
  <2>4. ReachIsTrue' /\ SwallowsAsTold'
    BY <2>1, <2>2 DEF Types
  <2>5. NoPipe' /\ AttachIsCurrent'
    BY <2>2 DEF told
  <2> QED
    BY <2>3, <2>4, <2>5
<1>5. CASE Attach
  <2>0. /\ minder = "attaching" /\ minder' = "looking" /\ running' = TRUE /\ standing' = FALSE
        /\ UNCHANGED <<swallow, crossed, heard>>
    BY <1>5 DEF Attach
  <2>1. CASE CanTake /\ worker' = [Roused(worker) EXCEPT !.swallows = standing] /\ UNCHANGED linked
    <3>1. worker'.on = worker.on /\ worker'.swallows = standing
          /\ worker' \in Processes
      BY <2>1, RousedTyped DEF Processes, Types
    <3> QED
      BY <2>0, <2>1, <3>1 DEF Types, linked, heard
  <2>2. CASE Drops(Minder)
    BY <2>0, <2>2, DropKeeps DEF Types, heard
  <2>3. CASE ~write /\ UNCHANGED <<linked, worker>>
    BY <2>0, <2>3 DEF Types, linked, heard
  <2> QED
    BY <1>5, <2>1, <2>2, <2>3 DEF Attach
<1> QED
  BY <1>1, <1>2, <1>3, <1>4, <1>5

\* What is heard changes nothing of what can be reached.
LEMMA HearingKeeps ==
  ASSUME IInv, HearWorker \/ HearStray
  PROVE  IInv'
<1>1. ASSUME NEW n \in Names, Hears(n)
      PROVE  /\ saidInput' \in Names /\ reach'.worker = reach.worker
             /\ reach' \in [worker : Names, input : Names]
  BY <1>1 DEF Hears, IInv, Types
<1>2. CASE HearWorker
  <2>1. worker.pipe \in Seq(Names) /\ worker.pipe # <<>>
    BY <1>2 DEF HearWorker, IInv, Types, Processes
  <2>2. Head(worker.pipe) \in Names /\ Tail(worker.pipe) \in Seq(Names)
    BY <2>1
  <2>3. /\ worker' \in Processes /\ worker'.on = worker.on
        /\ worker'.swallows = worker.swallows
    BY <1>2, <2>2 DEF HearWorker, IInv, Types, Processes
  <2>4. UNCHANGED <<minder, running, write, telling, outrun, told>> /\ stray' \in Seq(Names)
    BY <1>2 DEF HearWorker, minding, heard, IInv, Types
  <2> QED
    BY <1>1, <1>2, <2>2, <2>3, <2>4, Undisturbed DEF HearWorker
<1>3. CASE HearStray
  <2>1. stray \in Seq(Names) /\ stray # <<>>
    BY <1>3 DEF HearStray, IInv, Types
  <2>2. Head(stray) \in Names /\ Tail(stray) \in Seq(Names)
    BY <2>1
  <2>3. /\ UNCHANGED <<minder, running, write, telling, outrun, told, worker>>
        /\ stray' \in Seq(Names) /\ worker \in Processes
    BY <1>3, <2>2 DEF HearStray, minding, IInv, Types
  <2> QED
    BY <1>1, <1>3, <2>2, <2>3, Undisturbed DEF HearStray
<1> QED
  BY <1>2, <1>3

\* What the daemon sends either arrives or ends the pipe, and whoever ended one
\* tells the reach, be it late.
LEMMA DaemonKeeps ==
  ASSUME IInv, \/ \E v \in Voices : Say(v)
               \/ \E v : TellReach(v)
               \/ \E b \in BOOLEAN : SetSwallow(b)
  PROVE  IInv'
<1> USE DEF IInv, NoPipe, AttachIsCurrent, Attaching
<1>1. /\ Roused(worker).on = worker.on /\ Roused(worker).swallows = worker.swallows
      /\ Roused(worker) \in Processes
  BY RousedTyped DEF Types
<1>2. ASSUME NEW v \in Voices, Say(v) PROVE IInv'
  <2>1. UNCHANGED <<minding, told, heard>>
    BY <1>2 DEF Say
  <2>2. CASE worker' = Roused(worker) /\ UNCHANGED linked
    BY <1>1, <2>1, <2>2 DEF Types, ReachIsTrue, SwallowsAsTold, minding, told, heard, linked
  <2>3. CASE Drops(v)
    <3>1. write
      BY <2>3 DEF Drops
    <3> QED
      BY <2>1, <2>3, <3>1, DropKeeps DEF Types, minding, told, heard
  <2> QED
    BY <1>2, <2>2, <2>3 DEF Say
<1>3. ASSUME NEW v, TellReach(v) PROVE IInv'
  BY <1>3 DEF TellReach, Types, Names, ReachIsTrue, SwallowsAsTold, minding, told, heard
<1>4. ASSUME NEW b \in BOOLEAN, SetSwallow(b) PROVE IInv'
  <2>1. /\ swallow' = b /\ crossed' = (Attaching /\ standing # b)
        /\ UNCHANGED <<minding, standing, heard>>
    BY <1>4 DEF SetSwallow
  <2>2. CASE CanTake /\ worker' = [Roused(worker) EXCEPT !.swallows = b] /\ UNCHANGED linked
    <3>1. worker' \in Processes /\ worker'.on = worker.on /\ worker'.swallows = b
      BY <1>1, <2>2 DEF Processes
    <3> QED
      BY <2>1, <2>2, <3>1 DEF Types, ReachIsTrue, SwallowsAsTold, minding, heard, linked
  <2>3. CASE Drops(Daemon)
    <3>1. write
      BY <2>3 DEF Drops
    <3> QED
      BY <2>1, <2>3, <3>1, DropKeeps DEF Types, minding, heard
  <2>4. CASE ~write /\ UNCHANGED <<linked, worker>>
    BY <2>1, <2>4 DEF Types, ReachIsTrue, SwallowsAsTold, minding, heard, linked
  <2> QED
    BY <1>4, <2>2, <2>3, <2>4 DEF SetSwallow
<1> QED
  BY <1>2, <1>3, <1>4

\* Nor does anything that happens to the worker or to the machine.
LEMMA WorldKeeps ==
  ASSUME IInv,
         \/ \E n \in Names : WorkerLooks(n)
         \/ Settles \/ Dies \/ Wedges \/ InputMoves \/ SessionChanges
  PROVE  IInv'
<1>1. /\ UNCHANGED <<minder, running, write, telling, outrun, told>>
      /\ UNCHANGED <<stray, saidInput, reach>>
  BY DEF WorkerLooks, Settles, Dies, Wedges, InputMoves, SessionChanges, minding, linked,
         heard
<1>2. worker \in Processes
  BY DEF IInv, Types
<1>3. /\ worker' \in Processes /\ worker'.on = worker.on
      /\ worker'.swallows = worker.swallows
  <2>1. ASSUME NEW n \in Names, WorkerLooks(n)
        PROVE  /\ worker' \in Processes /\ worker'.on = worker.on
               /\ worker'.swallows = worker.swallows
    <3>1. Append(worker.pipe, n) \in Seq(Names) /\ Append(worker.waits, n) \in Seq(Names)
      BY <1>2 DEF Processes
    <3> QED
      BY <1>2, <2>1, <3>1 DEF WorkerLooks, Processes
  <2>2. CASE Dies \/ Wedges
    <3>1. <<>> \in Seq(Names)
      OBVIOUS
    <3>2. None \in Names
      BY DEF Names
    <3> QED
      BY <1>2, <2>2, <3>1, <3>2 DEF Dies, Wedges, Processes
  <2>3. CASE Settles \/ InputMoves \/ SessionChanges
    BY <1>2, <2>3 DEF Settles, InputMoves, SessionChanges
  <2> QED
    BY <2>1, <2>2, <2>3
<1>4. /\ stray \in Seq(Names) /\ saidInput \in Names
      /\ reach \in [worker : Names, input : Names]
  BY DEF IInv, Types
<1> QED
  BY <1>1, <1>3, <1>4, Undisturbed

\* and after every step.
LEMMA StepKeeps == IInv /\ [Next]_vars => IInv'
<1> SUFFICES ASSUME IInv, [Next]_vars PROVE IInv'
  OBVIOUS
<1>1. CASE UNCHANGED vars
  BY <1>1 DEF vars, minding, linked, told, heard, IInv, Types, ReachIsTrue, SwallowsAsTold,
              NoPipe, AttachIsCurrent, Attaching
<1>2. CASE Next
  BY <1>2, MinderKeeps, StartKeeps, HearingKeeps, DaemonKeeps, WorldKeeps DEF Next, Service
<1> QED
  BY <1>1, <1>2

\* What the daemon believes it can reach is where what it sends goes, and the
\* worker there swallows exactly as it was told, for any desktops and any number of
\* threads that say things to it, however many workers die, wedge, fail to start or
\* are heard late, in any order of what the minder, the listener and those threads do
\* under one lock after another: but while one of them is between two locks, and
\* where it was overtaken there.
THEOREM WorkerIsAlwaysAsTold == Spec => []WorkerIsAsTold
<1>1. IInv => WorkerIsAsTold
  BY DEF IInv, WorkerIsAsTold
<1> QED
  BY <1>1, InitHolds, StepKeeps, PTL DEF Spec
=============================================================================
