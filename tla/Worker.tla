------------------------------- MODULE Worker -------------------------------
(***************************************************************************)
(* The service that keeps a process (the worker) on whichever desktop has  *)
(* the input: mind_workers and start_worker                                *)
(* (crates/smkvm-cli/src/secure/windows/scm.rs), what it decides           *)
(* (secure/watch.rs), the daemon's end of the pipe (windows/link.rs), what *)
(* it believes about its reach (secure/reach.rs, without the refusals: see *)
(* module Reach) and the worker's own loop (windows/worker.rs).            *)
(*                                                                         *)
(* The minder, the thread that hears the worker, the daemon's threads and  *)
(* the worker's all run at once.  The pipe, the reach, what was said of    *)
(* the input and the flag of swallowing are behind locks of their own, and *)
(* no thread holds two: what is done under two locks is two steps here.    *)
(***************************************************************************)
EXTENDS Naturals, Sequences

CONSTANTS
  Desktops, Default,   \* ALWAYS_THERE
  GiveUpAfter,         \* GIVE_UP_AFTER
  MaxTrouble,          \* bound: how often something goes wrong
  Room,                \* bound: what a worker has said and nobody has heard
  Voices, Daemon,      \* the threads that say things to a worker, besides the minder
  Minder,              \* the minder, when it says something
  None

ASSUME DesktopAssumption == Default \in Desktops /\ None \notin Desktops
ASSUME VoiceAssumption == Daemon \in Voices /\ Minder \notin Voices
ASSUME LimitAssumption == GiveUpAfter \in Nat \ {0} /\ MaxTrouble \in Nat /\ Room \in Nat \ {0}

VARIABLES
  session,    \* whether somebody is at the screen
  input,      \* the desktop that has the input
  broken,     \* the desktops where a worker cannot be started, or dies at once
  minder,     \* what the minder does next: see Steps
  wanted,     \* the desktop a worker is being started on
  running,    \* whether the minder holds a worker
  watch,      \* Watch: [on, settled, failing, tries]
  worker,     \* the worker's process
  stray,      \* what a worker that was replaced had still said
  write,      \* Link::write: whether there is a pipe to write to
  reach,      \* Reach: [worker, input], the desktops it believes in
  saidInput,  \* Link::said_input_is_on
  swallow,    \* Link::swallow
  standing,   \* what attach read of it
  telling,    \* who has dropped the pipe in say and has yet to tell the reach
  \* what happened, for the properties:
  crossed,    \* what attach says was read before what the daemon said meanwhile
  outrun,     \* the reach was told last by a thread that another had overtaken
  late,       \* a replaced worker was heard after its successor had begun
  cutOff,     \* the pipe was dropped and its worker lived on
  trouble     \* how often something went wrong

machine == <<session, input, broken>>
minding == <<minder, wanted, running, watch>>
linked  == <<write, reach, saidInput, telling, outrun>>
told    == <<swallow, standing, crossed>>
heard == <<stray, late>>
vars == <<machine, minding, linked, told, worker, heard, cutOff, trouble>>

\* The minder looks; or is in detach, after the pipe; or
\* starts a worker; or is in attach, after each of its first three locks.
Steps == {"looking", "letting go", "starting", "joining", "placed", "attaching"}

Attaching == minder \in {"joining", "placed", "attaching"}

Names == Desktops \cup {None}

NoProcess == [on |-> None, alive |-> FALSE, reads |-> FALSE, told |-> None,
              waits |-> <<>>, pipe |-> <<>>, swallows |-> FALSE]

\* A process that has connected and said hello.
Process(d) == [NoProcess EXCEPT !.on = d, !.alive = TRUE, !.reads = TRUE]

Fails == trouble < MaxTrouble /\ trouble' = trouble + 1

-----------------------------------------------------------------------------
(* Watch.                                                                  *)

Fresh == [on |-> None, settled |-> FALSE, failing |-> None, tries |-> 0]

ForgetFailures(w) == [w EXCEPT !.failing = None, !.tries = 0]

CountFailure(w, d) ==
  IF w.failing = d THEN [w EXCEPT !.tries = @ + 1]
  ELSE [w EXCEPT !.failing = d, !.tries = 1]

WorkerStartedForgets(w, landed, d) ==   \* mutant: a hello clears the failures
  ForgetFailures([w EXCEPT !.on = landed, !.settled = FALSE])

\* worker_started: where it says it is, which may not be where it was sent.
WorkerStarted(w, landed, d) ==
  LET w1 == [w EXCEPT !.on = landed, !.settled = FALSE]
  IN IF landed # d THEN CountFailure(w1, d) ELSE w1

NobodyOn(w) == [w EXCEPT !.on = None, !.settled = FALSE]

WorkerFailed(w, d) == CountFailure(NobodyOn(w), d)

\* worker_gone: whether it is a failure depends on how long it lasted.
WorkerGone(w) ==
  IF w.on = None THEN w
  ELSE IF w.settled THEN ForgetFailures(NobodyOn(w))
  ELSE CountFailure(NobodyOn(w), w.on)

TargetWaits(w, name) == name   \* mutant: with nobody to ask, it waits

\* saw: what is made of the name, before anything is done.  With nobody to ask
\* a worker goes where one can always be.
Target(w, name) == IF name = None /\ w.on = None THEN Default ELSE name

Considered(w, d) == IF w.failing = d THEN w ELSE ForgetFailures(w)

-----------------------------------------------------------------------------
(* Link.                                                                   *)

\* detach: the pipe, and then the reach and what was said of the input.
Detach ==
  /\ minder' = "letting go"
  /\ write' = FALSE
  /\ cutOff' = (cutOff \/ (worker.alive /\ running'))
  /\ UNCHANGED <<reach, saidInput, telling, outrun>>

\* The worker's pipe is not overlapped: what its threads have to say waits
\* until the read its main loop is parked in comes back (pipe.rs, Waiting).
Roused(p) == [p EXCEPT !.pipe = @ \o p.waits, !.waits = <<>>]

CanTake == write /\ worker.alive /\ worker.reads

\* say: a worker that does not take it counts as dead, and the pipe is dropped;
\* the reach is told after that, under its own lock.
Drops(v) ==
  /\ write /\ ~CanTake
  /\ write' = FALSE
  /\ telling' = telling \cup {v}
  /\ cutOff' = worker.alive
  /\ UNCHANGED <<reach, saidInput, outrun, worker>>

TellReach(v) ==
  /\ v \in telling
  /\ telling' = telling \ {v}
  /\ reach' = [reach EXCEPT !.worker = None]
  /\ outrun' = (write /\ minder # "placed")
  /\ UNCHANGED <<machine, minding, write, saidInput, told, worker, heard, cutOff, trouble>>

-----------------------------------------------------------------------------
Init ==
  /\ session \in BOOLEAN
  /\ input \in Desktops
  /\ broken \in {{}} \cup {{d} : d \in Desktops}
  /\ minder = "looking" /\ wanted = None /\ running = FALSE
  /\ watch = Fresh
  /\ worker = NoProcess
  /\ stray = <<>> /\ late = FALSE
  /\ write = FALSE
  /\ reach = [worker |-> None, input |-> None]
  /\ saidInput = None
  /\ swallow = FALSE /\ standing = FALSE /\ crossed = FALSE
  /\ telling = {} /\ outrun = FALSE
  /\ cutOff = FALSE
  /\ trouble = 0

(* mind_workers, one turn: first what is true is recorded.                 *)

Looking == minder = "looking" /\ Minder \notin telling

Gone == running /\ ~worker.alive

\* The worker exited.
LoseWorker ==
  /\ Looking /\ Gone
  /\ watch' = WorkerGone(watch)
  /\ running' = FALSE
  /\ Detach
  /\ UNCHANGED <<machine, wanted, told, worker, heard, trouble>>

\* Nobody is at the screen: wait.
NobodyThere ==
  /\ Looking /\ ~Gone /\ ~session
  /\ write \/ reach.worker # None \/ saidInput # None
  /\ UNCHANGED running
  /\ Detach
  /\ UNCHANGED <<machine, wanted, watch, told, worker, heard, trouble>>

\* What Watch makes of where the input is said to be.
Look ==
  /\ Looking /\ ~Gone /\ session
  /\ LET d  == Target(watch, saidInput)
         w1 == Considered(watch, d)
     IN \/ \* GiveUp, said once; and Stay, where nothing changes
              /\ d \notin {None, watch.on} /\ w1.tries >= GiveUpAfter
              /\ watch' = w1
              /\ UNCHANGED <<minder, wanted, running, linked, cutOff>>
           \/ \* Move: the one that was there is told to stop, let go of and killed
              /\ d \notin {None, watch.on} /\ w1.tries < GiveUpAfter
              /\ watch' = w1
              /\ running' = FALSE
              /\ wanted' = d
              /\ IF running THEN Detach
                 ELSE minder' = "starting" /\ UNCHANGED <<linked, cutOff>>
  /\ UNCHANGED <<machine, told, worker, heard, trouble>>

\* detach goes on: nobody is reached any more, and what the last one said of the
\* input is forgotten, in two steps nobody can tell from one.  One that is
\* replaced is killed.
LetsGo ==
  /\ minder = "letting go"
  /\ reach' = [reach EXCEPT !.worker = None]
  /\ outrun' = FALSE
  /\ saidInput' = None
  /\ crossed' = FALSE
  /\ IF wanted = None
       THEN minder' = "looking" /\ UNCHANGED <<worker, heard>>
       ELSE /\ minder' = "starting"
            /\ stray' = worker.pipe /\ late' = FALSE
            /\ worker' = NoProcess
  /\ UNCHANGED <<machine, wanted, running, watch, write, telling, swallow, standing,
                 cutOff, trouble>>

\* start_worker: the pipe is made, the process started, it connects and its
\* hello is judged; and attach begins by reading what it should swallow.
Starts(landed) ==
  /\ minder = "starting" /\ session
  /\ IF landed = wanted THEN UNCHANGED trouble ELSE Fails
  /\ minder' = "joining"
  /\ worker' = Process(landed)
  /\ standing' = swallow /\ crossed' = FALSE
  /\ cutOff' = FALSE
  /\ UNCHANGED <<machine, wanted, running, watch, linked, swallow, heard>>

\* attach: the pipe is put in place,
Place ==
  /\ minder = "joining"
  /\ minder' = "placed"
  /\ write' = TRUE
  /\ UNCHANGED <<machine, wanted, running, watch, reach, saidInput, telling, outrun,
                 told, worker, heard, cutOff, trouble>>

\* and the reach told of it, whatever became of the pipe meanwhile.
Claim ==
  /\ minder = "placed"
  /\ minder' = "attaching"
  /\ reach' = [reach EXCEPT !.worker = worker.on]
  /\ outrun' = ~write
  /\ UNCHANGED <<machine, wanted, running, watch, write, saidInput, telling, told, worker,
                 heard, cutOff, trouble>>

\* It could not be started, did not connect in time or said nothing sensible.
StartFails ==
  /\ minder = "starting"
  /\ IF session /\ wanted \notin broken THEN Fails ELSE UNCHANGED trouble
  /\ minder' = "looking" /\ wanted' = None
  /\ watch' = WorkerFailed(watch, wanted)
  /\ UNCHANGED <<machine, running, linked, told, worker, heard, cutOff>>

AttachSaysNothing ==   \* mutant: the new worker is not told to swallow
  /\ minder = "attaching"
  /\ minder' = "looking" /\ wanted' = None /\ standing' = FALSE
  /\ running' = TRUE
  /\ watch' = WorkerStarted(watch, worker.on, wanted)
  /\ UNCHANGED <<machine, swallow, crossed, worker, linked, heard, cutOff, trouble>>

\* The rest of attach: whatever still holds is said to the new worker.
Attach ==
  /\ minder = "attaching"
  /\ minder' = "looking" /\ wanted' = None /\ standing' = FALSE
  /\ running' = TRUE
  /\ watch' = WorkerStarted(watch, worker.on, wanted)
  /\ \/ CanTake /\ worker' = [Roused(worker) EXCEPT !.swallows = standing]
        /\ UNCHANGED <<linked, cutOff>>
     \/ Drops(Minder)
     \/ ~write /\ UNCHANGED <<linked, worker, cutOff>>
  /\ UNCHANGED <<machine, swallow, crossed, heard, trouble>>

-----------------------------------------------------------------------------
(* The thread that hears the worker.                                       *)

Hears(name) ==
  /\ saidInput' = name
  /\ reach' = IF name = None THEN reach ELSE [reach EXCEPT !.input = name]

\* The thread is begun when attach is over.
HearWorker ==
  /\ worker.pipe # <<>> /\ ~Attaching
  /\ Hears(Head(worker.pipe))
  /\ worker' = [worker EXCEPT !.pipe = Tail(@)]
  /\ UNCHANGED <<machine, minding, told, heard, write, telling, outrun, cutOff, trouble>>

\* A worker that was replaced may still be heard.
HearStray ==
  /\ stray # <<>>
  /\ Hears(Head(stray))
  /\ stray' = Tail(stray)
  /\ late' = (late \/ write)
  /\ UNCHANGED <<machine, minding, told, worker, write, telling, outrun, cutOff, trouble>>

(* The daemon, through Arm and set_swallow, and whoever answers a paste.   *)

\* Link::say.
Say(v) ==
  /\ v \notin telling
  /\ \/ CanTake /\ worker.waits # <<>> /\ worker' = Roused(worker)
        /\ UNCHANGED <<linked, cutOff>>
     \/ Drops(v)
  /\ UNCHANGED <<machine, minding, told, heard, trouble>>

\* The client injects only where Reach does not say it is blocked.
Blocked ==
  CASE reach.worker = None -> "NoWorker"
    [] reach.worker # None /\ reach.input \notin {None, reach.worker} -> "WrongDesktop"
    [] OTHER -> "no"

Inject == Blocked = "no" /\ \E v \in Voices : Say(v)

\* set_swallow: the flag, and then whoever is there is told.  One step for the two:
\* nobody but attach reads the flag, and one that read it between them would only
\* be told again what it is about to say.
SetSwallow(b) ==
  /\ swallow # b /\ Daemon \notin telling
  /\ swallow' = b
  /\ crossed' = (Attaching /\ standing # b)
  /\ \/ CanTake /\ worker' = [Roused(worker) EXCEPT !.swallows = b]
        /\ UNCHANGED <<linked, cutOff>>
     \/ Drops(Daemon)
     \/ ~write /\ UNCHANGED <<linked, worker, cutOff>>
  /\ UNCHANGED <<machine, minding, standing, heard, trouble>>

-----------------------------------------------------------------------------
(* The worker, and the machine it is on.                                   *)

\* Its look at which desktop has the input, said when it changes.  The first is
\* said before the main loop waits for the service.
WorkerLooks(name) ==
  /\ worker.alive /\ worker.told # name
  /\ Len(worker.pipe) + Len(worker.waits) < Room
  /\ IF name = None THEN Fails ELSE name = input /\ UNCHANGED trouble
  /\ worker' = IF worker.told = None /\ worker.waits = <<>>
                 THEN [worker EXCEPT !.told = name, !.pipe = Append(@, name)]
                 ELSE [worker EXCEPT !.told = name, !.waits = Append(@, name)]
  /\ UNCHANGED <<machine, minding, linked, told, heard, cutOff>>

\* It has lasted SETTLED_AFTER.
Settles ==
  /\ watch.on \notin broken \cup {None} /\ ~watch.settled /\ worker.alive
  /\ watch' = [watch EXCEPT !.settled = TRUE]
  /\ UNCHANGED <<machine, minder, wanted, running, linked, told, worker, heard, cutOff, trouble>>

\* It exits, or faults.
Dies ==
  /\ worker.alive
  /\ IF worker.on \in broken /\ ~watch.settled THEN UNCHANGED trouble ELSE Fails
  /\ worker' = [worker EXCEPT !.alive = FALSE, !.reads = FALSE, !.told = None, !.waits = <<>>]
  /\ UNCHANGED <<machine, minding, linked, told, heard, cutOff>>

\* It no longer reads what it is told.
Wedges ==
  /\ Fails
  /\ worker.alive /\ worker.reads
  /\ worker' = [worker EXCEPT !.reads = FALSE]
  /\ UNCHANGED <<machine, minding, linked, told, heard, cutOff>>

InputMoves ==
  /\ input' \in Desktops \ {input}
  /\ UNCHANGED <<session, broken, minding, linked, told, worker, heard, cutOff, trouble>>

\* Somebody comes to the screen, or leaves it; their processes may live on.
SessionChanges ==
  /\ Fails
  /\ session' = ~session
  /\ UNCHANGED <<input, broken, minding, linked, told, worker, heard, cutOff>>

Service ==
  \/ LoseWorker \/ NobodyThere \/ Look \/ LetsGo
  \/ (\E d \in Desktops : Starts(d)) \/ Place \/ Claim \/ Attach
  \/ TellReach(Minder)

Next ==
  \/ Service \/ StartFails \/ HearWorker \/ HearStray
  \/ \E v \in Voices : Say(v) \/ TellReach(v)
  \/ \E b \in BOOLEAN : SetSwallow(b)
  \/ \E name \in Names : WorkerLooks(name)
  \/ Settles \/ Dies \/ Wedges \/ InputMoves \/ SessionChanges

\* The service's threads and the worker's run.  Nothing has to go wrong.
Fairness ==
  /\ WF_vars(Service) /\ WF_vars(StartFails \/ \E d \in Desktops : Starts(d))
  /\ WF_vars(HearWorker) /\ WF_vars(HearStray)
  /\ \A v \in Voices : WF_vars(TellReach(v))
  /\ WF_vars(\E d \in Desktops : WorkerLooks(d))

Spec == Init /\ [][Next]_vars /\ Fairness

-----------------------------------------------------------------------------
(* Properties.                                                             *)

\* What the daemon is told it can reach is where what it sends goes.  The two are
\* behind different locks and changed by the minder and by everyone who says
\* something, so they differ while one of these is between the two locks; and they
\* go on differing after that, up to the next attach or detach, only where one told
\* the reach of a pipe that had been replaced or dropped by then.
ReachIsTrue ==
  /\ reach.worker \in {None, worker.on}
  /\ reach.worker # None /\ ~write => telling # {} \/ minder = "letting go" \/ outrun
  /\ write /\ reach.worker = None => minder = "placed" \/ outrun

\* A worker put on another desktop swallows the local keyboard and mouse
\* exactly while the daemon wants that, however workers come and go; unless
\* what attach told the new one was read before the daemon said otherwise.
SwallowsAsTold ==
  write /\ minder = "looking" /\ ~crossed => worker.swallows = swallow

\* What the daemon believes it can reach is where what it sends goes, and a worker
\* on another desktop swallows the local input exactly as it was told, whatever
\* died, moved or was said late between the threads that keep this up, but for
\* those of them that were overtaken between two locks (secure/windows/link.rs).
WorkerIsAsTold == ReachIsTrue /\ SwallowsAsTold

\* The service does not start workers on the ordinary desktop for ever when
\* each of them fails to start, lands elsewhere or dies at once.
DefaultIsGivenUp ==
  (Default \in broken /\ <>[](session /\ input = Default)) => <>[](minder # "starting")

\* Wherever the input comes to rest, a worker that can be reached ends up on
\* that desktop, whatever died or failed or was heard late before, as long as
\* somebody goes on using the machine, no worker was cut off while it lived, none
\* that was replaced is heard after its successor has begun and nobody tells the
\* reach that a pipe is gone when it has been replaced.
FollowsInput ==
  WF_vars(Inject) =>
    \A d \in Desktops :
      <>[](session /\ input = d /\ broken = {})
        => \/ <>[](write /\ worker.alive /\ worker.on = d /\ reach = [worker |-> d, input |-> d])
           \/ []<>cutOff \/ []<>late \/ []<>outrun
           \/ []<>(watch.tries >= GiveUpAfter)

-----------------------------------------------------------------------------
(* What the documentation says and the code does not do.                   *)

\* "remembered so a worker that starts later is told."
\* (secure/windows/link.rs:562)
ToldOfLaterWishes == write /\ minder = "looking" => worker.swallows = swallow

\* "A stale reach claiming reach is the whole subject of this module"
\* (secure/windows/scm.rs:727)
NoStaleReach ==
  minder = "looking" /\ telling = {} => (write <=> reach.worker # None)

\* "How many failed starts on one desktop before the service stops trying."
\* (secure/watch.rs:33)
FailedStartsEnd ==
  \A d \in Desktops :
    (d \in broken /\ <>[](session /\ input = d)) => <>[](minder # "starting")

\* "Every write from here has a deadline, and a write that misses it means the
\* worker is dead: the pipe is dropped, the reach says no worker, the cursor
\* goes home, and `watch` starts another."  (secure/windows/link.rs:33)
WedgedIsReplaced == <>[]session => (cutOff ~> ~cutOff)
=============================================================================
