----------------------------- MODULE Installing -----------------------------
(***************************************************************************)
(* How a Windows machine comes to run one daemon: the commands service     *)
(* install, uninstall, start and stop (crates/smkvm-cli/src/service.rs,    *)
(* secure/plan.rs, secure/carry.rs and secure/windows/store.rs and scm.rs),*)
(* what starts a daemon, and what a daemon looks at before it goes on      *)
(* (ensure_not_running in crates/smkvm-cli/src/main.rs, the reports of     *)
(* crates/smkvm-config).                                                   *)
(*                                                                         *)
(* The machine is a client: a server has the listening port besides, which *)
(* a second one cannot have.  The person's account and an administrator's  *)
(* are two: an install over the network is by the second, which cannot see *)
(* what the first one's daemon reports.  Nothing keeps two commands apart, *)
(* and any may be cut off between two of its steps.                        *)
(***************************************************************************)
EXTENDS Naturals, Sequences, FiniteSets

CONSTANTS
  Consoles,    \* where commands are typed: one at a time in each
  MaxPids,     \* bound: processes there ever are
  MaxCommands, \* bound
  MaxTrouble,  \* bound: questions unanswered, steps that fail or are cut off, processes killed
  None

Places == {"machine", "profile"}

VARIABLES
  task, service, \* what is registered
  process,       \* process[p]: how it was started, where its files are, and how far it is
  report,        \* report[place]: the process that wrote it last, and whether it is recent
  latest,        \* the place written to last
  carried,       \* the machine-wide directory has what the service needs
  command,       \* command[s]: what runs at a console, or None
  due,           \* what the system is to start by itself
  commands, trouble,
  \* what happened, for the properties:
  unasked,       \* PowerShell did not answer what is registered or running
  overtaken,     \* one arrangement was registered while another command, told there was
                 \* none, was about to register the other
  spared         \* daemons of a task that came off the list, which were not stopped

vars == <<task, service, process, report, latest, carried, command, due,
          commands, trouble, unasked, overtaken, spared>>
registered == <<task, service>>
reports == <<report, latest>>
mixups == <<overtaken, spared>>
history == <<unasked, mixups>>

Pids == 1..MaxPids
NoProcess == [how |-> None, place |-> "profile", at |-> "gone"]

Registered == (IF task THEN {"task"} ELSE {}) \cup (IF service THEN {"service"} ELSE {})
Running(how) == {p \in Pids : process[p].at # "gone" /\ process[p].how = how}
Live == {p \in Pids : process[p].at # "gone"}
Up == {p \in Pids : process[p].at = "up"}

\* A machine that has just been started, with the task or with nothing installed.
Init ==
  /\ task \in BOOLEAN /\ service = FALSE
  /\ process = [p \in Pids |-> NoProcess]
  /\ report = [p \in Places |-> [pid |-> None, recent |-> FALSE]] /\ latest = "machine"
  /\ carried = FALSE /\ command = [s \in Consoles |-> None] /\ due = Registered
  /\ commands = 0 /\ trouble = 0
  /\ unasked = FALSE /\ overtaken = FALSE /\ spared = {}

Fails == trouble < MaxTrouble /\ trouble' = trouble + 1

-----------------------------------------------------------------------------
(* Who runs, as a report tells it.                                         *)

\* status_file_to_read: of the reports this account can see, the one written last.
Read(sees) ==
  LET there == {p \in sees : report[p].pid # None}
  IN IF there = {} THEN [pid |-> None, recent |-> FALSE]
     ELSE IF latest \in there THEN report[latest]
     ELSE report[CHOOSE p \in there : TRUE]

\* Status::current, and process_alive: nobody whose process has gone.
SaidToRun(sees) ==
  LET said == Read(sees) IN said.pid # None /\ said.recent /\ said.pid \in Live

\* The places an account looks in.  The system's own profile, and an
\* administrator's, has nothing in it.
Sees(who) == IF who = "person" THEN Places ELSE {"machine"}

-----------------------------------------------------------------------------
(* A daemon: run, connect, client::run and its reports.                    *)

\* The number of a process that has gone is given again, though not while a recent
\* report still names it.
Free(p) ==
  /\ process[p] = NoProcess /\ p \notin spared
  /\ \A place \in Places : report[place] # [pid |-> p, recent |-> TRUE]

Begins(how) ==
  \E p \in Pids :
    /\ Free(p) /\ \A q \in Pids : Free(q) => p <= q
    /\ process' = [process EXCEPT ![p] =
         [how |-> how, place |-> IF how = "service" THEN "machine" ELSE "profile", at |-> "begun"]]

Ends(P) == [p \in Pids |-> IF p \in P THEN NoProcess ELSE process[p]]

\* ensure_not_running, as the account this process is of.
FindsAnother(p) == SaidToRun(Sees(IF process[p].how = "service" THEN "system" ELSE "person"))

\* load_config, then the look around: it refuses, which for the task is a failure
\* like any other, or it goes on.
Check(p) ==
  /\ process[p].at = "begun"
  /\ \E on \in {~FindsAnother(p) /\ (process[p].how = "service" => carried)} :
       /\ process' = IF on THEN [process EXCEPT ![p].at = "checked"] ELSE Ends({p})
       /\ due' = due \cup (IF ~on THEN {process[p].how} \cap {"task"} ELSE {})
  /\ UNCHANGED <<registered, reports, carried, command, commands, trouble, history>>

Writes(p) ==
  /\ report' = [report EXCEPT ![process[p].place] = [pid |-> p, recent |-> TRUE]]
  /\ latest' = process[p].place

\* The first report, which is what the next one to look can see.
Report(p) ==
  /\ process[p].at = "checked"
  /\ process' = [process EXCEPT ![p].at = "up"] /\ Writes(p)
  /\ UNCHANGED <<registered, carried, command, due, commands, trouble, history>>

Refresh(p) ==
  /\ process[p].at = "up" /\ Writes(p)
  /\ UNCHANGED <<registered, process, carried, command, due, commands, trouble, history>>

\* FRESH_FOR goes by.  A daemon that is up has written again by then.
Ages(place) ==
  /\ report[place].recent /\ report[place].pid \notin Up
  /\ report' = [report EXCEPT ![place].recent = FALSE]
  /\ UNCHANGED <<registered, process, latest, carried, command, due, commands, trouble, history>>

\* Told to stop, or Ctrl+C: the report goes with it, whoever wrote it.
Closes(p) ==
  /\ process' = Ends({p})
  /\ report' = [report EXCEPT ![process[p].place].pid = None]

ByHand ==
  /\ Begins("hand")
  /\ commands < MaxCommands /\ commands' = commands + 1
  /\ UNCHANGED <<registered, reports, carried, command, due, trouble, history>>

Interrupted(p) ==
  /\ process[p].at = "up" /\ process[p].how = "hand" /\ Closes(p)
  /\ UNCHANGED <<registered, latest, carried, command, due, commands, trouble, history>>

\* One that failed is started again after a minute: RestartOnFailure, and the
\* failure actions of the service.
Dies(p) ==
  /\ p \in Live /\ Fails
  /\ process' = Ends({p})
  /\ due' = IF process[p].how = "hand" THEN due ELSE due \cup {process[p].how}
  /\ UNCHANGED <<registered, reports, carried, command, commands, history>>

\* Whatever is being done at the time ends where it is.
Reboot ==
  /\ Fails
  /\ process' = Ends(Pids)
  /\ command' = [s \in Consoles |-> None]
  /\ due' = Registered
  /\ UNCHANGED <<registered, reports, carried, commands, history>>

\* The scheduler, MultipleInstancesPolicy IgnoreNew, and the service manager.
BySystem(how) ==
  /\ how \in due /\ due' = due \ {how}
  /\ IF how \in Registered /\ Running(how) = {} THEN Begins(how) ELSE UNCHANGED process
  /\ UNCHANGED <<registered, reports, carried, command, commands, trouble, history>>

-----------------------------------------------------------------------------
(* The commands.                                                           *)

Steps == {"stop", "start", "unregister task", "delete service", "stop others",
          "forget report", "carry over", "register service", "register task"}

\* A command that runs: whose it is, whether its prompt is an administrator's, and
\* what it still has to do.
Commanded == [who : {"person", "admin"}, raised : BOOLEAN, todo : Seq(Steps) \ {<<>>}]

\* plan::install: the other one goes first.
InstallSteps(wanted, there) ==
  IF wanted = "task"
    THEN (IF "service" \in there THEN <<"delete service", "stop others">> ELSE <<>>) \o <<"register task">>
    ELSE (IF "task" \in there THEN <<"stop", "unregister task", "stop others">> ELSE <<>>)
           \o <<"carry over", "register service">>

UninstallSteps(there) ==
  (IF "task" \in there THEN <<"stop", "unregister task", "stop others">> ELSE <<>>)
    \o (IF "service" \in there THEN <<"delete service", "stop others", "forget report">> ELSE <<>>)

\* present: a question PowerShell does not answer is a task that is not there.
Asks(there) ==
  \/ there = Registered /\ UNCHANGED <<trouble, unasked>>
  \/ task /\ Fails /\ there = Registered \ {"task"} /\ unasked' = TRUE

\* Only an administrator's prompt may change what is registered.
Begin(s, who, raised) ==
  /\ command[s] = None /\ commands < MaxCommands /\ commands' = commands + 1
  /\ \E there \in SUBSET {"task", "service"} :
       /\ Asks(there)
       /\ \E todo \in {InstallSteps(w, there) : w \in {"task", "service"}} \cup
                      {UninstallSteps(there), <<"start">>, <<"stop">>} :
            /\ todo # <<>>
            /\ command' = [command EXCEPT ![s] = [who |-> who, raised |-> raised, todo |-> todo]]
  /\ UNCHANGED <<registered, process, reports, carried, due, mixups>>

At(s, step) == command[s] # None /\ Head(command[s].todo) = step

\* It goes on with the next step, and ends after the last.
Rest(c) == IF Len(c.todo) = 1 THEN None ELSE [c EXCEPT !.todo = Tail(@)]
GoesOn(s) == command' = [command EXCEPT ![s] = Rest(@)]
GivesUp(s) == command' = [command EXCEPT ![s] = None]

\* Whether a command will register the one and leave the other where it is.
LeavesService(c) ==
  \E i \in 1 .. Len(c.todo) :
    c.todo[i] = "register task" /\ \A j \in 1 .. (i - 1) : c.todo[j] # "delete service"

LeavesTask(c) ==
  /\ c.raised
  /\ \E i \in 1 .. Len(c.todo) :
       c.todo[i] = "register service" /\ \A j \in 1 .. (i - 1) : c.todo[j] # "unregister task"

\* Whose command has taken the task off the list and has yet to stop its daemon.
YetToStop(s) == At(s, "stop others") /\ command[s].raised

\* Ctrl+C, a window that is closed, a connection that is lost.
CutOff(s) ==
  /\ command[s] # None /\ Fails
  /\ GivesUp(s)
  /\ spared' = spared \cup (IF YetToStop(s) THEN Running("task") ELSE {})
  /\ UNCHANGED <<registered, process, reports, carried, due, commands, unasked, overtaken>>

StopsNobody(s) == {}   \* mutant

\* running_pid.
Told(s) ==
  LET sees == Sees(command[s].who) IN {p \in Live : SaidToRun(sees) /\ p = Read(sees).pid}

\* Whom this account may stop.
Stoppable(s) ==
  IF command[s].raised THEN Live
  ELSE {p \in Live : process[p].how = "hand" /\ command[s].who = "person"}

\* stop, and what is asked of a service that runs; uninstall_task goes on
\* whatever came of it.
Stop(s) ==
  /\ At(s, "stop")
  /\ GoesOn(s)
  /\ IF Running("service") # {} /\ command[s].raised
       THEN process' = Ends(Running("service")) /\ report' = [report EXCEPT !["machine"].pid = None]
       ELSE UNCHANGED report /\ process' = IF Running("service") # {} THEN process
              ELSE Ends(Stoppable(s) \cap (Running("task") \cup Told(s)))
  /\ UNCHANGED <<registered, latest, carried, due, commands, trouble, history>>

\* start: the service if it is registered and does not run.
Start(s) ==
  /\ At(s, "start")
  /\ GivesUp(s)
  /\ IF service
       THEN IF command[s].raised /\ Running("service") = {} THEN Begins("service")
            ELSE UNCHANGED process
       ELSE IF task /\ ~SaidToRun(Sees(command[s].who)) /\ Running("task") = {} THEN Begins("task")
            ELSE UNCHANGED process
  /\ UNCHANGED <<registered, reports, carried, due, commands, trouble, history>>

\* uninstall_task, whose refusal is silent.
UnregisterTask(s) ==
  /\ At(s, "unregister task")
  /\ \/ Fails /\ GivesUp(s) /\ UNCHANGED task
     \/ task' = (task /\ ~command[s].raised) /\ GoesOn(s) /\ UNCHANGED trouble
  /\ UNCHANGED <<service, process, reports, carried, due, commands, history>>

\* scm::uninstall.
DeleteService(s) ==
  /\ At(s, "delete service")
  /\ IF command[s].raised
       THEN /\ process' = Ends(Running("service"))
            /\ report' = IF Running("service") = {} THEN report ELSE [report EXCEPT !["machine"].pid = None]
            /\ \/ Fails /\ GivesUp(s) /\ UNCHANGED service
               \/ service' = FALSE /\ GoesOn(s) /\ UNCHANGED trouble
       ELSE GivesUp(s) /\ UNCHANGED <<process, report, service, trouble>>
  /\ UNCHANGED <<task, latest, carried, due, commands, history>>

\* stop_every_other_daemon, by the list of processes: nobody listed, nobody stopped;
\* and one that cannot be stopped is only remarked on.
StopOthers(s) ==
  /\ At(s, "stop others")
  /\ GoesOn(s)
  /\ \/ \E refused \in SUBSET Stoppable(s) :
          /\ IF refused = {} THEN UNCHANGED trouble ELSE Fails
          /\ process' = Ends(Stoppable(s) \ refused)
          /\ spared' = spared \cup (refused \cap Running("task"))
          /\ UNCHANGED unasked
     \/ Fails /\ unasked' = TRUE /\ UNCHANGED <<process, spared>>
  /\ UNCHANGED <<registered, reports, carried, due, commands, overtaken>>

\* store::forget_the_report.
ForgetReport(s) ==
  /\ At(s, "forget report")
  /\ report' = [report EXCEPT !["machine"].pid = None]
  /\ GoesOn(s)
  /\ UNCHANGED <<registered, process, latest, carried, due, commands, trouble, history>>

\* store::prepare and carry::plan: what is there already stays, what is not is
\* copied, and a doubt about who can read it ends the command.
CarryOver(s) ==
  /\ At(s, "carry over")
  /\ \/ ~command[s].raised /\ GivesUp(s) /\ UNCHANGED <<carried, trouble>>
     \/ command[s].raised /\ Fails /\ GivesUp(s) /\ carried' \in {carried, TRUE}
     \/ command[s].raised /\ carried' = TRUE /\ GoesOn(s) /\ UNCHANGED trouble
  /\ UNCHANGED <<registered, process, reports, due, commands, history>>

\* scm::install: the description and the failure actions come after, and one of
\* them failing leaves a service behind.
RegisterService(s) ==
  /\ At(s, "register service")
  /\ GivesUp(s)
  /\ \/ /\ ~command[s].raised \/ service
        /\ UNCHANGED <<service, trouble, mixups>>
     \/ /\ command[s].raised /\ ~service
        /\ service' = TRUE /\ (UNCHANGED trouble \/ Fails)
        /\ overtaken' = (overtaken \/ \E t \in Consoles \ {s} : command[t] # None /\ LeavesService(command[t]))
        /\ spared' = spared \cup (IF \E t \in Consoles : YetToStop(t) THEN Running("task") ELSE {})
     \/ /\ command[s].raised /\ ~service
        /\ Fails /\ UNCHANGED <<service, mixups>>
  /\ UNCHANGED <<task, process, reports, carried, due, commands, unasked>>

\* register_task, with the highest privileges or --limited.
RegisterTask(s) ==
  /\ At(s, "register task")
  /\ GivesUp(s)
  /\ \/ /\ task' = TRUE /\ UNCHANGED trouble
        /\ overtaken' = (overtaken \/ \E t \in Consoles \ {s} : command[t] # None /\ LeavesTask(command[t]))
     \/ Fails /\ UNCHANGED <<task, overtaken>>
  /\ UNCHANGED <<service, process, reports, carried, due, commands, unasked, spared>>

Commands(s) ==
  \/ Stop(s) \/ Start(s) \/ UnregisterTask(s) \/ DeleteService(s) \/ StopOthers(s) \/ ForgetReport(s)
  \/ CarryOver(s) \/ RegisterService(s) \/ RegisterTask(s) \/ CutOff(s)

Next ==
  \/ \E p \in Pids : Check(p) \/ Report(p) \/ Refresh(p) \/ Interrupted(p) \/ Dies(p)
  \/ \E place \in Places : Ages(place)
  \/ ByHand \/ Reboot
  \/ \E how \in {"task", "service"} : BySystem(how)
  \/ \E s \in Consoles, who \in {"person", "admin"}, raised \in BOOLEAN :
       (who = "admin" => raised) /\ Begin(s, who, raised)
  \/ \E s \in Consoles : Commands(s)

Spec == Init /\ [][Next]_vars

-----------------------------------------------------------------------------
(* What it is for.                                                         *)

\* service.rs: "it is never both".  Whatever steps of whatever commands failed or
\* were cut off, and however two commands went on side by side, no machine has the
\* task and the service registered: as long as every question was answered, and no
\* command registered the one after another had found it absent and before that
\* registered the other.
NeverBoth == ~unasked /\ ~overtaken => ~(task /\ service)

\* However often the arrangement is switched, by whom, and with what still
\* running, the task's daemon and the service's never run together: the other
\* is not only taken off the list, it is stopped, out of sight as it may be; but
\* for one that whoever took it off was kept from stopping, or had yet to stop
\* when another command registered the service.
OneArrangementRuns ==
  ~unasked /\ ~overtaken =>
    \A p, q \in Live : {process[p].how, process[q].how} = {"task", "service"} => {p, q} \cap spared # {}

-----------------------------------------------------------------------------
(* What the documentation says and the code does not do.                   *)

\* "two daemons fighting over one clipboard, which `plan` exists to make impossible."
\* (service.rs:320)  Two installs that have each asked what is there before either has
\* registered anything register both; and an install that is cut off once the task is
\* off the list leaves its daemon to the next, which sees no task to remove.
NeverTwoDaemons ==
  ~unasked => /\ ~(task /\ service)
              /\ \A p, q \in Live : {process[p].how, process[q].how} # {"task", "service"}

\* "Refuse to start a second daemon beside one that is running."  (main.rs,
\* ensure_not_running)  A service does not see the one in somebody's profile, and is
\* started whoever runs; and two that are started together see neither.
SecondIsRefused ==
  [][\A p \in Pids : process[p].at = "begun" /\ process'[p].at = "checked" => Up = {}]_vars
=============================================================================
