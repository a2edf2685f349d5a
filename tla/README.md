# SMKVM in TLA+

SMKVM shares one keyboard, mouse and clipboard across several machines.  The
machine that owns the keyboard and mouse (the *server*, or *hub*) decides where
the cursor is and sends input to the others (the *clients*); what is copied on
one machine is offered to all and fetched by whoever pastes.

This directory specifies the parts of it that are hard to test: who has the
cursor, what is pressed where, what a client does when input stops reaching its
screen, links that fail while messages are on their way, the heartbeat, the
clipboard exchange, files and drags, where screens are on the common desktop, the
capture hooks, the privileged worker of a Windows machine and the readers beside
it, the clipboards of both platforms, pairing, and installing.  TLC checks the
specifications on small instances; TLAPS proves most of the safety properties for
every value of the constants (section 4).

    tlc -config MCServer.cfg MCServer        # one run (see the table of runs)
    tlapm Server_proof.tla                   # one module of proofs

Paths below are relative to `crates/` of the repository unless they begin with
`docs/` or `README`.

## 1. Inventory

### How the parts interact

Everything is driven by two daemons in `smkvm-cli`.  The **server daemon** owns
one loop that takes captured input, what clients say, new sessions, a 20 ms
tick, the heartbeat, clipboard reports and configuration changes one at a time,
gives each to a pure state machine (`smkvm-core::Server`, `Exchange`), and
carries out the actions it returns: local ones at once, messages by putting
them on a client's queues.  A writer task per client drains its queues to an
encrypted session (`smkvm-net`); a reader task per client feeds what it says
back to the loop.  The **client daemon** has one session at a time, with a
loop of its own over `smkvm-core::Client` (which drives the `Tracked` injector)
and its own `Exchange`.  Clipboards are read by threads that report back to the
loop.  On Windows, a *service* may stand between: it keeps a privileged *worker*
process on whichever desktop has the input, which captures, injects and holds the
clipboard at the other end of a pipe, and a *reader* process that looks at the
clipboard as the person at the screen.  Shared state is confined to queues and a few flags; the hazards
are in the order in which those queues are drained, in state that went stale
between two turns, and in what a failure leaves behind.

### Components

| component | state it keeps | operations | what makes it correct | here |
|---|---|---|---|---|
| Switching core, server (`smkvm-core/src/server.rs`) | holder of the cursor, capture mode, position, screens and health of each client, keys held, the edge being held, last strike, settings | one arm of `handle` per event; `reconfigure` | cursor only with a connected machine on its own screen; local input swallowed exactly while it is away; a machine is told when it loses the cursor; delay and double tap respected | modelled, proved |
| Switching core, client (`smkvm-core/src/client.rs`, `smkvm-input/src/lib.rs`) | acting, suspended, the record of what is pressed, the parked pointer's debt | one arm per message; suspend, resume, disconnected | the record and the machine agree; the pointer comes out of the corner; a suspension ends | modelled, proved |
| Server daemon (`smkvm-cli/src/server.rs`) | attached machines with two queues each, last heard, departures still to be told | arrived, gone, heard, heartbeat, send, pick up a drag, settle drops, reload | its map is the server's map; state changes never dropped; one departure per arrival; what is dragged follows the hand | all but the status file and the order of a reload's parts; proved as far as `Switching` goes |
| Client daemon (`smkvm-cli/src/client.rs`) | session, timers, blockage | session loop, look at blockage, reconnect, stop | lets go when a session ends; gives up a silent server | all but the delay between attempts |
| Clipboard exchange (`smkvm-core/src/exchange.rs`) | own offer, offer held, cache, reads, fetches, who waits | every input of `handle`, `set_config`, `announce` | a paste gets one whole copy and is always answered; nothing is kept of an offer that is gone | modelled, proved |
| Clipboard sharing in the daemons (`smkvm-cli/src/clipboard.rs`) | tickets, reads on threads, manifests, the pull, a drop that waits | on, peer up/gone/said, apply, advance a pull, reconfigure | outputs applied in order; late reads harmless; no half a file | modelled, proved |
| File transfer (`smkvm-core/src/transfer.rs`, `smkvm-cli/src/transfer.rs`) | relays, pulls, pieces awaited, the files being written, landing names | every input of `handle`; plan, read, write, give up | a file lands whole or not at all, every pull ends, nothing that was there is overwritten | modelled; that files land whole and overwrite nothing, proved |
| Protocol messages (`smkvm-proto/src/msg.rs`) | none | which control messages may be dropped | only positions and wheel may | partly |
| Layout (`smkvm-layout`) | monitors, placements, who is there, reserved places | report, place, forget, cells, resolve, snap | a movement ends on a screen; every screen can be reached; automatic places never overlap | modelled |
| Input on Windows (`smkvm-input/src/platform/windows`) | the swallow flag, the parked pointer | hooks, raw movement, hide, show | what the hand holds is down where the cursor is, and nowhere else | hooks and pointer, proved |
| X11 input, loopback, key maps (`smkvm-input`) | little | calls of the display server, tables | | not modelled: system calls, tables, a test double |
| Clipboard on Windows (`smkvm-clipboard/src/platform/windows*.rs`) | promised formats, a cache, the settling timer, looks taken | notice, settle, render, renew, catch a drag | a paste is of what is offered now; a person's copy is reported as it was left | modelled, proved |
| Clipboard on X11 (`smkvm-clipboard/src/platform/x11.rs`) | ownership with its time, transfers piece by piece | take, reoffer, serve, release, watch, catch a drag | a paste is one offer's and whole; what is ours is answered for | modelled but for reading piece by piece; proved |
| Worker: watching and reach (`smkvm-cli/src/secure/watch.rs`, `reach.rs`, `outbox.rs`) | where a worker is and was wanted, failures, what was refused and since when | saw, started, failed, gone; attached, refused, sent, possible | a worker follows the input; a desktop that cannot be worked on is given up; walls are believed for longer each time | modelled; the worker's orders and the walls, proved |
| Worker: processes, pipes, readers (`smkvm-cli/src/secure/windows`) | the pipe, what it was told, readers and who they read for, promised pastes | attach, detach, hear, mind, look, claim | what the daemon believes is so; a reader is there for whoever stays; a copy is noticed by one of two watches | modelled but for framing; proved but for the readers' liveness |
| Windows service, installation (`service.rs`, `scm.rs`, `store.rs`, `carry.rs`) | what is registered, which processes run, their reports | install, uninstall, start, stop, step by step | never two arrangements, never two daemons of them | modelled but for access lists, tokens and secrets; proved |
| Sessions, pairing, trust (`smkvm-net`) | handshake state, paired keys | pair, confirm, forget, connect | whom either trusts, both people agreed to | modelled, proved; the cryptography is external |
| Codec, key names (`smkvm-proto/src/codec.rs`, `keys.rs`) | partial frame | frame, parse | | not modelled: bytes |
| Configuration, status (`smkvm-config`) | files | read, write, report | | reports only; the rest is file I/O |
| Desk window (`smkvm-gui`) | edited copy of the configuration, peers | pair, edit, snap, save | | its pairing only; the rest draws |
| Command line (`smkvm-cli/src/main.rs`, `hello.rs`, `platform.rs`) | none | start-up | a second daemon is refused | start-up and pairing by command |
| Clipboard formats (`smkvm-clipboard/src/{files,html,image}.rs`) | none | conversions | | not modelled |

`PROJECT.json` lists the components with their files, and under `hazards` what
each is exposed to, at the line where it bites, with the properties aimed at it.
The behaviours that are hardest to get right by testing:

* a prompt takes a client's screen while an `Enter` is on the wire;
* a machine's queue fills, or its link turns out to be closed, in the middle of
  carrying out another event, so that its departure has to be queued and
  handled in the same turn;
* the same machine connects again while its old link is still believed in;
* a machine goes, is suspended, or moves its screens while an edge leading to it
  is being held;
* an injection is refused half way through letting go of everything;
* an answer comes just as the next heartbeat is due, or the client's machine
  sleeps;
* two machines copy at once, a machine restarts and counts from one again, a
  read ends after its offer was replaced, a machine leaves while others wait on
  what was asked of it;
* two machines pull one file through the hub, and links, disks and sources fail
  between two pieces of it;
* a drag is picked up while its machine, or the one it goes to, is being detached;
* one of the threads around a worker dies, or hangs, between two others' steps;
* a clipboard is closed, half made, taken by somebody else or offered again while
  somebody waits for a promised format;
* a command that switches the arrangement fails or is cut off half way, or runs beside
  another that asked what is there before it.

## 2. Modules

    Focus  <----refines----  Server <- Edge  Client         Heartbeat      Exchange
                                \              /                               |
                                 \            /                                |
                                  Switching        Drag                    Clipboard
                                (links, queues)                      (daemons, links, boards)

    Transfer <- Files (daemons, links, disks)      Landing (names, one disk)

    one Windows machine:   Worker   Reach   Capture   Readers   Noticing   Paste   Notice
    one X11 machine:       Selection
    the desk:              Layout      two machines: Pairing      a machine: Installing

    Together: one instance of each machine that stands alone and has a theorem
      (Reach, Capture, Noticing, Paste, Notice, Selection, Landing, Pairing,
      Installing), under names of its own, and what is said of each in one line

    Carrying: Drag, in the same way

    X_proof EXTENDS X, for X one of
      Server, Client (and Carrying), Heartbeat, Switching, Clipboard, Files, Worker, Together
    MC*: instances for TLC

The modules of a row meet in what the one assumes of the other, which is said at
the head of each: `Drag`, `Files` and `Clipboard` are three views of
`smkvm-cli/src/clipboard.rs`, each with the others' part made one step; `Reach`
takes from `Worker` that there is a worker; `Capture` takes from `Switching` that
what is sent arrives in order.

### Focus: what the person is promised

One machine at a time has the cursor, only a connected one is ever given it, it
comes home in the very step in which its machine is lost or says it cannot act,
and local input is swallowed exactly while the cursor is elsewhere.

### Server: `smkvm-core/src/server.rs`

One action per arm of `Server::handle` (`PointerAt`, `PointerBy`, `Tick`, `Key`,
`Wheel`, `ClientUp`, `ClientMonitors`, `ClientDown`, `ClientSuspended`,
`ClientResumed`), and `Reconfigure`.  `out` is the list of actions the call
returned, in order.  `cross_to`, `recall_cursor`, `resettle`, `may_cross`,
`hold_at_edge`, `stop_at_edge` and `position` are operators of those names in
camel case.

Abstractions.  The desktop is a finite set of `Points` with, for each machine,
the subset its screens cover; where a movement ends (`Layout::resolve`) and where
a stranded cursor snaps to is any covered point, so that what is shown holds
whatever the geometry does.  Screens may overlap, as a configuration written by
hand may make them.  Keys and buttons are one set.  An `Instant` is kept as an
age that stops at `MaxAge`, above every window and below no delay, where no comparison
can tell the difference.

`Edge` puts a history variable beside it: `pressed`, the machine beyond the edge
pressed last and for how long, measured from the movements alone.  It is read by no
guard, so what is shown of `EdgeSpec` is shown of the server.

### Client: `smkvm-core/src/client.rs` over `Tracked`

One action per message, plus the client daemon's `look_at_blockage` (`Suspend`,
`Resume`, `Shrug`) and the ways a session ends (`Disconnected`; `Crash` and
`Stop`, which release nothing).  `held` is the record, `down` what the system
has down because of us.  A window of higher privilege *refuses* injected input
(an error, and `Tracked` does not record it); the secure desktop *swallows* it
(no error, and it is recorded).  A repeat goes past the record (`Repress`): what it
presses is down whether it was on record or not.  `release_all` clears the record
whatever the platform answered.  `owes` is the debt of a parked pointer.

### Switching: server, clients, and what is between them

The server's daemon (`Outbound`, `arrived`, `gone`, `heard`, `client_writer`) and
the client's session loop around an instance of `Server` and one of `Client`.
`control` and `motion` are the two queues to a machine, `wire` what was written
and not yet read, `up` what was said and not yet handled.  A turn of the daemon
is atomic except where the code is not: detaching a machine with a full queue
during `Deliver` leaves its departure in `todo`, and `arriving` is the rest of
`arrived`, both finished before the next thing is taken.  The writer's failure
is noticed late (`closed`), so a dead link may swallow messages before it is
believed dead.  Edge delays, the wheel and absolute positions are left to
`Server`.

### Heartbeat

The two ends of one quiet link: the daemon's `heartbeat` and the client's
`select!` loop with its timeout and its look at blockage.  The link may die
without a word and the client's machine may sleep.

### Exchange and Clipboard

`Exchange` is `exchange.rs`, one action per `Input` (`PeerUp`, `PeerGone`,
`LocalChanged`, `OfferArrived`, `RequestArrived`, `ChunkArrived`,
`UnavailableArrived`, `Wanted`, `ReadDone`) and `Configure`; `ExchangeNext` is one
such step on one machine with *any* message, which is what the proofs are about.
`Clipboard` puts one exchange on each machine, connects them in a star, and adds
what `smkvm-cli/src/clipboard.rs` does with the outputs: reads on threads,
tickets, change notices, sessions that come and go, restarts, configuration.

Abstractions.  Contents are a sequence of pieces, one to a chunk, and each
piece carries the number of the copy it is of, so that what a paste was given
says what it was put together from.  A notice of a change carries whether it
came within `ECHO_WINDOW` of an offer being placed (either is possible).
`ClipCancel` is not sent, since every receiver ignores it; the reason of a
failure is left out; `FETCH_PATIENCE` is left out, because an answer that comes
after it changes nothing; files and drags are left to the transfer modules.

### Transfer, Files, Landing

`Transfer` is `smkvm-core/src/transfer.rs`: operators from one machine's record to
the next and the outputs, one for each `Input`.  `Files` puts one on each machine
of a desk, with the queues between (the bulk queue has room for few, and a machine
that fills it is detached), the pull of one copy at a time, the file being written
and what is left on disk when it ends.  `Landing` is one machine's directory:
`plan_landing`, `usable_parts`, `unclaimed` and the files as they are made.  A name is
a stem with the numbers put after it; `Cleaned` says what a stem is made into and
`Known` which stems a disk that ignores case takes for one.

### Drag

`pick_up_drag`, `dragging`, `send_bulk`, `settle_drops` of both daemons, `drag_started`
and `drop_here`, and the catchers of the two platforms.  The cursor crosses, a link is
lost, the button is let go, in every order with the offer and the notice that travel
apart.  `Carrying` holds its instance and says `DragIsCarried` of it.

### Layout

`report_monitors`, `set_placements`, `set_online`, `forget`, automatic placement,
`cells`, `set_reserved`, `resolve` and `snap`, and the server's four events that call
them, on desks a few units wide.  What `Server` takes for granted of a movement, that
it ends on a screen or stays, is what these operators do.

### The Windows machine

`Worker`: `mind_workers`, `start_worker`, `Watch`, the link (`attach`, `detach`, what is
heard from the worker), `Reach` without refusals, and the worker's own loop.  Four
threads run at once; a desktop may be *broken*, so that no worker lives on it.  The pipe,
the reach and the flag of swallowing have a lock each and nobody holds two, so `attach`
is four steps (`Starts`, `Place`, `Claim`, `Attach`), `detach` two (`Detach`, `LetsGo`), and
a `say` that fails two (`Drops`, `TellReach`), with everyone else between them; `telling`
is who is between the two of the last.
`Reach`: refusals and what follows from them, in ticks of the time a refusal takes to
come back.  `Capture`: the hooks, the way to the daemon with or without a worker, the
order to swallow, one key or the left button.  `Readers`: who reads the clipboard for
the person at the screen.  `Noticing`: the two watches inside a reader.  `Paste`: promised
formats, from the application that asks to the service that fetches and back.  `Notice`:
`WM_CLIPBOARDUPDATE`, the settling timer, the looks.

### Selection

The X11 owner thread with the server's time of each ownership, programs that paste whole
or piece by piece, and the watcher that must look away from our own offers.  A program that
copies as we take the selection may get it instead (`HearOffer`), and the window the watcher
looks away from is published a step after the selection is taken (`Publish`).

### Pairing

Both ends of the confirmation, by command or in the window, what each keeps and when it is
read, and sessions between daemons that know what they read when they started.  A key is a
number that goes up when a machine is set up anew.

### Installing

`install`, `uninstall`, `start`, `stop` as the steps `plan.rs` lays out, any of which may
fail or be the last before the command is cut off (`CutOff`, and `Reboot`, which ends all of
them).  Nothing keeps two commands apart: each console has one of its own, which asked
what is there once, when it began (`Begin`).  Besides, what the system starts by itself; the processes, the reports they leave in the
profile or beside the service, and what `ensure_not_running` makes of them.

`PROJECT.json` maps every definition to the lines it stands for.

## 3. What the runs check

| run | instance | what it shows | distinct states |
|---|---|---|---|
| `server` | MCServer: two interchangeable clients, three points, screens of two points or one, one key, delays 0 and 2, windows 0 and 1 | in every order of events: local input is swallowed exactly while the cursor is away; the cursor is on a screen of the machine that has it; a present machine is told before it loses the cursor; and the server implements `Focus` | 75 k |
| `edge` | MCEdge: `Edge` over the same desk, delay 2 | no crossing without one unbroken press that was long enough (`RestsBeforeCrossing`); no hold that waits for ever (`HeldEdgeSettles`) | 101 k |
| `switching` | MCSwitching: two clients, every queue and wire of one, cuts and reconnections | once everything has been said, exactly what the person holds is down where the cursor is and nothing anywhere else; both ends agree on who has the cursor and on who is there (`EveryoneAgrees`); a machine without a session has its pointer | 762 k |
| `switching_prompts` | one client, both kinds of prompt, crashes, stops, cuts | a cursor on a machine that cannot use it comes home; a machine that keeps it comes to know it | 284 k |
| `clipboard` | a hub and two clients, one copy of two pieces and one of one, limit of two pieces, two events, one failure | a paste gets the whole of one copy of the machine it was offered by; a copy made in peace reaches everyone; no late message or read finds anything of the past; whoever waits waits on something under way; every paste is answered | 393 k |
| `files` | MCFiles: a hub and two clients, a file of two pieces, and an empty one beside one of one | a file lands whole or leaves nothing; every pull comes to an end | 267 k |
| `worker` | MCWorker: the ordinary desktop and the secure one, either of which may be broken | the daemon's reach is the worker's desktop and the worker swallows as it was told; a broken ordinary desktop is given up; a worker follows the input | 875 k |
| `client` | MCClient: the client, the machines of Together, the drags of Carrying, and Layout | one or two properties of each, see below | 1948 k |
| `heartbeat` | MCHeartbeat: a beat of 5, a look of 2, three misses, a delay of 2, sleep allowed; and a client, and the readers | a live link is kept by both ends; a silent machine is let go of; a suspended machine comes to notice that its screen is open again; whoever stays at the screen is read for | 34 k |

The properties of `client`:

| machine | property | |
|---|---|---|
| Client | `NothingSlipsTheRecord`, `CornerIsOwedBack` | whatever messages come in whatever order, a key comes to be down and on no record in four ways and no other (a session cut short, a release that goes nowhere, a release of everything that is refused, a repeat of what was never recorded); a parked pointer is owed its way back |
| Drag | `DragIsCarried` | files stay under the hand while the button is held, through whatever machines; the pointer at home is hidden and its input swallowed exactly while the cursor is away |
| Pairing | `PairedByBoth` | whom a machine keeps, or has a session with, is one that both people agreed to |
| Layout | `AutomaticNeverClash`, `EveryMonitorIsReached` | automatic places never overlap, whatever was unplugged, resized or rearranged; from every screen of a desk without overlaps there is a way to every other |
| Installing | `OneArrangement` | task and service are never both registered, nor do their daemons run together, though commands fail, are cut off and run side by side: but where the system did not answer (`unasked`), one command registered the one while another had yet to register the other (`overtaken`), or a daemon was spared by the command that should have stopped it (`spared`) |
| Landing | `WhatWasThereStays` | nothing that was in the directory when a paste began is overwritten or taken away, while there are numbers left to put after names |
| Paste | `PasteKeepsItsWord` | what is pasted is not older than what was on offer; a promise that could not be kept is made again |
| Selection | `SelectionIsServed` | a paste is one offer's and whole; what is ours is answered for |
| Notice | `ReportedAsLeft` | a burst of changes ends in a report of how the clipboard was left |
| Noticing | `CopyIsNoticed` | a person's copy is announced by one of the two watches |
| Capture | `FollowsTheHand` | where the cursor is, what the hand holds is down; elsewhere nothing is |
| Reach | `BacksOff` | running into the same wall again makes the wait longer |

**Machines checked by themselves.**  `MCClient` and `MCHeartbeat` hold several machines
that have nothing to do with one another: `which`, chosen in the initial state, is the
one that moves, and the others stay as they began.  The behaviours of such an instance
are those of each machine alone, one after another; a property of one holds of it at
rest as well, or is guarded by `which`.  Nothing is composed and nothing is gained from
the company but one run.

Three more runs show where the code disagrees with what the repository says of
it (section 6).

### Bounds, and why they are enough

* **Server.** Three points and screens of `{1,2}`, `{3}` or none give a machine a
  spot to be pushed back to, a screen beyond the edge, overlapping screens, and
  a machine with no screen.  Two clients are the smallest number with a third
  party to a handover.  A delay of two needs more than one tick; a window of one
  can be met and missed; `MaxAge` 2 is
  above every window and no delay is above it.  The proofs remove all of
  these bounds for the safety properties.
* **Client.** Two keys tell a partial `sync` from a total one.  Clients do not
  interact, so one is enough.
* **Switching.** Queues of one are full after one message, which is the case the
  code handles apart; larger queues only postpone it.  `WireMax` and `UpMax` of
  one still leave a message in each of the queue, the wire and the far end, which
  is enough for every pair of messages to cross; the race of section 6 needs two
  in the control queue and has its own instance.  The two machines and the places
  beyond the server's two edges are interchangeable together, which makes the
  symmetry sound; `server` uses the symmetry of its two clients.  `UpMax` restrains the client,
  which looks twice a second and says little.  The person presses keys that are
  up and lets go of keys that are down.
* **Prompts** are checked with one client: what a prompt does involves the server
  and the machine it is on.  Two machines with prompts have too many states to be
  explored in minutes.
* **Heartbeat.** 5, 2 and 2 never fall into step, so that every order of a ping, an
  answer, a look and a beat happens.  The proof removes the bound.
* **Clipboard.** Two copies are one that replaces another.  Two pieces are a first
  and a last chunk.  Two events besides copies (pastes, cuts, restarts, changes of
  configuration), of which at most one is a failure, allow a paste that is cut, a
  paste on either side of a restart, and two pastes waiting on one fetch.  One
  format is enough because no operation relates two formats except by forgetting
  both.
* **Files.** A copy of one file of two pieces and one of an empty file and a file of one
  piece; two pastes, so that one is asked for while another is being answered; a limit
  of three pieces; one failure of a disk, a link or a source.
* **Drag.** A hub and two clients, so that a drag can go on to a third machine; queues of
  two; two drags, two times the button goes down, three crossings, one link lost.
* **Layout.** Three machines, of which one has two monitors that come, go and change size,
  and one comes back larger; three configurations; four reports, arrivals, departures
  or configurations.  Movements are tried from every point in every direction.
* **Landing.** Names that clean alike, that fold alike, one that looks like a name put
  aside, a folder, and one that would lead out; three pastes and two troubles.  Two numbers to
put after a name, of the code's 9 998, are used up by three pastes of a file that was there.
* **Pairing.** Two machines; one that is set up anew once; two commands beside the
  pairing.  **Installing.** Two processes at once, whose
  numbers are given again; three commands at two consoles; one failure, question unanswered
  or command cut off; the task registered at first, or nothing: enough to install one way
  while the other way is under way, and to switch once more.
* **Paste**: two copies, two pastes, one renewal, two failures.  **Selection**: one program
  that pastes, contents of two pieces, three offers, one copy of the person's, two pastes.
  **Notice**: three changes, a clipboard looked at twice (`LOOK_AT_MOST`), watching turned off
  and on once each.  **Noticing**: two copies, one offer, one failure.  Each has two of what
  can overtake one another.
* **Capture.** A queue of one, five movements of hand or cursor, one loss.  **Reach.** Six
  refusals in a row pass the ceiling of the wait; two injections in flight.
* **Worker.** Two desktops, either of which may be broken; one failure besides; a pipe with
  room for one message; one thread of the daemon's that says something besides the minder.
  The proof has any number.  **Readers.** Two people, eight readers (one for each change of the screen,
  each failure and the first, so that they never run out), three switches of the screen, three
  failures, two tries.

### Fairness

Weak fairness only, and only of things the code keeps running: the daemon's
20 ms tick and the passing of time (`Server`); the daemons' loops, the writer
task and the client's half-second look (`Client`, `Switching`), and the end of a session
only when its link is really cut; due timers and the passing of time
(`Heartbeat`); one daemon per machine, whichever of its sources it takes next
(`Clipboard`, `Files`); the loops that mind workers and readers, the threads of the
link and the end of a process that was told to end (`Worker`, `Readers`).  Fairness
of a whole daemon is weaker than fairness of each of its actions, and is what
`select!` gives.  Nobody has to move a mouse, paste, connect
or fail.  `EveryPasteEnds` says that time and again no paste waits, of machines in
touch with the hub; a client without a session handles no paste until it has one
again (`smkvm-cli/src/clipboard.rs:43` has a patience for that).

`CursorComesHome` rests on the client's own look: the server is not told of
input that goes nowhere in any other way.

### Deadlock

Checked wherever the system never stops: `server`, `edge`, `switching`,
`switching_prompts`.  The others switch it off.  With copies, pastes, commands, processes
and failures all spent and everything said, a desk is at rest, and those bounds
are the instances' and not the code's; `heartbeat` never rests by itself, but
`MCHeartbeat` holds `Readers`, whose bounds run out.

## 4. What is proved

For any sets of machines, screens, keys, formats and copies, any delays and
sizes, from the named assumptions on the constants alone:

**`Server_proof`.**  `Inv`, the conjunction of the type invariant,
`ModeFollowsCursor`, `HolderIsPresent` and `HeldEdgeIsOpen`, is inductive
(`Invariance`); none of the last three is without the others.  A tick hands the
cursor to the machine that was waited for, which is connected because
`HeldEdgeIsOpen`; a departing machine takes the cursor with it only if it was the
holder, and the mode is then right because `ModeFollowsCursor`.  `CrossKeeps`,
`RecallKeeps` and `ResettleKeeps` are the three ways the cursor changes hands, and
every action comes to one of them or to none.  On top of the invariant:
`MotionUsable`, `CursorUnderHolder` and `LeavingSaid` (action properties), and
`ImplementsFocus`: every step of the server is one step of `Focus` or none.

`RestedBeforeCrossing` is of `Edge`: the cursor crosses only after one unbroken press that
was long enough.  What the server holds (`pending`) is compared with what was really
pressed: the same machine's edge, for no shorter than the server believes
(`HeldIsPressed`).  A movement starts, keeps and ends both together
(`MovementPresses`), time makes both longer (`TimePresses`), and everything else keeps
the hold or forgets it, which is the safe side (`HoldKeptOrForgotten`).

The assumptions: the server is not one of its clients; screens are sets of points
and a machine may have none; ages stop above every window and below no delay.

**`Client_proof`.**  Types; that the record of what is pressed and the machine part
company in the four ways above and no other (`RecordIsTrue`), whatever is in front of the
screen; and that a pointer in the
corner is owed its way back (`CornerOwedBack`).  Neither holds of a step alone.  A
session begins by forgetting the record and the debt, so a machine without one must
have nothing on record and owe nothing (`Rested`: every way a session ends has to
see to both); and a debt that is paid may leave the pointer in the corner only if
it was there already (`CornerDebt`).  Each message comes to one of the injector's
operations on the keys and one on the pointer (`MessageKeeps`).

`DragAlwaysCarried` is of `Drag`, for any machines, drags and queues.  That the pointer at
home is hidden while the cursor is away is nearly inductive (`HomeFollows`).  That files
stay under the hand is not: an offer and the news of a drag come after one another on
queues that drop nothing, but the cursor may have gone on to a third machine meanwhile,
and a machine that hears of a drag has to ask for it.  As long as every link is up
(`Whole`; afterwards the property promises nothing) `DragInv` says:

* a drag of which the hub missed nothing is the only one of which anything is anywhere
  (`Alone`), so neither an offer nor news can be taken for another's;
* `Enter` and `Leave` take turns in every queue and end where the cursor is (`InTurn`), so
  a machine that carries a drag is the one that acts, or has a `Leave` coming;
* while the button is held, no change of it is on its way to a machine the drag is on, or
  behind the news of it (`Held`), so nothing is dropped early;
* and such a drag is under exactly one pointer (`UnderPointer`), or on its way, with the
  offer before the news on every queue they share, or heard already (`OnItsWay`,
  `PassedOn`, `OfferFirst`), so whoever gets the news can fetch what it is of.

It assumes that the hub is none of the clients and that drags are counted.

**`Heartbeat_proof`.**  A link that works is given up by neither end
(`LiveLinkKept`), for every heartbeat at least as long as a look, any number of
misses above one and any delay below half a heartbeat.  `LiveLinkIsKept` is far
from inductive: the invariant (`RoundOnTime`) says that rounds do not overlap.  A
ping is exactly as old as the beat that sent it, and by the next one its answer
has come, so that neither end has waited for more than two heartbeats, and two fit
in what it puts up with.

**`Clipboard_proof`.**  The invariant is of one machine at a time: what it keeps,
reads, fetches or is waited on for is of the offer it makes or holds now (`Kept`);
whoever waits, waits for a read or a fetch that is under way (`UnderWay`); and what
is held or fetched is of a machine with a link (`Reachable`).  Each of the inputs
of an exchange keeps it whatever the message says (`ExchangesSound`), so no order
of messages, and no message a correct peer would not have sent, can break it.
`DeskOfExchanges` shows that every step of a whole desk is a step of one exchange
or of none, and gives the three properties for every desk.

`PastesAlwaysWhatWasCopied` is of the desk as a whole.  What a paste was given can
only be judged by the copies that were ever made under the name it asked for, so its
invariant (`Desk`) speaks of everything that carries pieces: what is cached, what is
being fetched, what is on every link and in every read.  A client that restarts may give a name
again, so the theorem is of names given to one copy only (`Once`).  A copy *suits* a name
if it was made on the machine that gave it and is not older than what was announced under
it (`Suits`), and the invariant says that whatever machines and messages have under such
a name is of one copy that suits it (`OneCopy`), that each answer is the whole of such a
copy (`Right`), and, because pieces read at different times would be of different copies,
that nothing under a name is read twice: what a machine has read of an offer it still
makes, it has at hand (`Unread`).  A step is a `Turn` of one machine, which passes on
what it has or brings, by a read, a copy that suits.

`CopiesAlwaysSpread` says of every desk that what was copied last is on offer everywhere
once all has been said, as long as nothing failed and nobody copied before the copy
before it had arrived (`calm`).  Its invariant (`Peace`) is of the moments between.  Every
machine shares every format (`Ordinary`) and who has a link is known at both its ends
(`Joined`); and either nothing was copied yet and nothing is offered on any link
(`NothingYet`), or all are joined and the last copy is yet to be noticed, with everything
that was said of earlier ones heard (`Announcing`), or it spreads (`Spreading`): every
offer on its way is of that copy, none is on its way back to the machine it was made on,
and whoever does not hold it has it coming, or the hub has and will pass it on
(`Reaches`).  The rest is what each step of an exchange offers to whom, and that requests,
pieces and reads offer nothing (`Mute`).

**`Switching_proof`.**  Six theorems of the server, its clients and the queues
between.  `MapsAlwaysAgree` holds of everything the model has, prompts and kills
included: the server's map of machines and the daemon's are one between two turns, in
spite of departures that are queued inside a turn.  `DeskServed` holds of as much: each
step of a desk is one event of `Server` or none, so what the server does in the middle of
it is a behaviour of `Server` by itself (its safety part: a desk is not obliged to tick,
having no delays).  `TypedAlwaysSomewhere` puts the two together: local input is swallowed
exactly while the cursor is away, and between turns it is away on a machine the daemon
has a link to.  The others rest on one invariant
about the *last* thing of each kind that was said to a machine and has not been heard.
`Queue(c)` is what is written to a machine and what waits to be, in
the order the writer takes it.  The last `Enter` or `Leave` in it decides whether the
machine will act, and the last message that speaks of a key whether the key will be down
(`After`); the invariants (`Maps`, `Agreement`, `Truth`) say that both will be as the
server has it, of every machine that is attached by an open link (`Linked`).  Whatever
a step is, one of four things happens to a machine (`Fate`): nothing, it is told
something (`Addressed`), it reads something (`Reading`), or it joins (`Joining`).  So
a message that is sent, moved along or heard is one small step of the proof, and nothing
is said about how many there are.  `EveryoneAlwaysAgrees` assumes that
no screen refuses input (`Reasons = {}`): with prompts it is false for the moment the
server needs to hear of one, and after it for the reason given in section 6.
`NothingEverSticks` and `PointerAlwaysGivenBack` assume besides that no client is killed
or stopped (`Endings = {}`): one that is lets go of nothing, as `smkvm-cli/src/client.rs:64`
has it.  The runs make the same choice of the two constants.

**`Files_proof`.**  `WholeOrNothingAlways`: for any machines, copies, limits and
faults.  The invariant is `Sharings`, in three parts.  *Naming*: every copy that is
served or pasted was announced under its number.  *Carrying*: every piece on every
link, and every piece a `Transfer` hands on, is of a copy that was announced under the
number it is asked for by (`Good`), whoever asked, through whichever relay, in whatever
order.  *Holding*: what a machine has written of the file it is at is a beginning of
that file (`Portion`), and the files before it are there (`Upto`), if the number stands
for one copy (`OneCopy`); what is not being written is as long as was announced
(`Clean`); and of one paste there is one pull, or one waiting, or none.  `Turn` says
what a machine's turn may do, which is to touch the files of one paste only; each of
`Advance`, `Want`, `Finish`, `Fail`, `PieceArrived` is one or none of these
(`AdvanceTurns`, `PieceTurns`), each of a `Transfer`'s operations gives messages or one
deed (`PeerSaidIs`, `PeerGoneIs`), and `TurnKeeps` is the one place where the
invariant is shown to survive a turn.  The theorem does not assume that two machines never
pull one copy at once (`Shared`): they may wait in vain for one another's pieces, as
section 6 has it, and still write nothing wrong.  `NoneAssumption` says that `None` is no
pull.

**`Worker_proof`.**  `WorkerIsAlwaysAsTold`, for any number of threads that say something.
Neither half follows from what the minder alone does: between any two of its locks another
thread may find the pipe dead, drop it, and tell the reach so at any time later; or be told
something else to swallow.  What carries it is who holds a pipe when (`NoPipe`): there is
none while a worker is being started, and none where the minder holds no worker, so a
worker that replaces another is never written to on the other's account.  While `attach` is
half way, what it read of the daemon's wishes is what is wanted still, unless somebody says
that it was overtaken (`AttachIsCurrent`).  And where the reach and the pipe differ, somebody
is between the two locks, or told the reach of a pipe that was no longer the one there was
(`outrun`, which section 6 reports).

**`Together_proof`.**  Nine machines that stand alone, each with an invariant of its own.

* *Pairing*, `PairedAlwaysByBoth`.  A machine keeps three copies of what it trusts (the
  file, the window's list and what the daemon read), any of which may be the oldest, so the
  invariant is of all of them.  Two ends that have a handshake have the same one
  (`SameHandshake`), an answer that was sent was meant, even if its machine has another key
  by the time it is heard (`Meant`), and what the tools and the daemon have read is as good
  as the file (`ReadWell`, `DaemonsKnow`).
* *Installing*, `OneArrangementAlways`.  A command is a list of steps any of which may fail
  or be the last, and another command may change what it was told meanwhile, so the
  invariant is of the steps that each still has due.  A command that will register one
  arrangement removes the other first (`OtherGoesFirst`), or the other is not there; and
  what makes it appear later is a registration by somebody else, which is what `overtaken`
  records (`LeavesService`, `LeavesTask`).  A daemon that lost its registration is stopped
  next by the command that took it off the list (`StopsNext`), or outlives it with nothing
  registered (`Outlives`), or that command was cut off, or kept from stopping it, first
  (`spared`).  The exceptions are what section 6 reports.
* *Reach*, `WallIsBelievedLonger`.  A run of refusals goes on unless something landed since
  the last, and what was put into the wall could be taken for that.  It is not, because it
  is on its way still, and no time has passed since it was sent (`StillOut`).
* *Notice*, `LastCopyIsReported`.  The last look at a clipboard must not come to nothing.
  Where what was noticed last is there still, each look that came to nothing found the
  clipboard in somebody's hands, so until that has happened `LOOK_AT_MOST` times the timer
  runs or the report is made (`UnderObservation`); and nobody turns the watching off
  unless asked (`NobodyTurnsItOff`).
* *Capture*, `HandIsFollowed`.  Two invariants about the last of what waits: what waits
  for the other machine leaves the key there as the server has it and the cursor wants it
  (`WillHold`), and what waits for the server, in the hooks or behind them, leaves it there
  as the hand has it (`WillHave`).
* *Paste*, `PasteAlwaysKeepsItsWord`.  What is fetched for the paste that waits, and the
  answer to it, is as new as what the window offers, since the question was put when that
  was on offer and a window that waits takes no other (`FetchedForIt`); what was kept is as
  new too (`KeptIsNew`), unless a late answer to a question about an earlier offer was kept
  (`stale`, as section 6 has it).  A clipboard of ours that holds nothing has a message in
  the queue that takes it again or lets it go (`Renewed`), unless it was not to be had
  (`untaken`).
* *Noticing*, `CopyIsAlwaysNoticed`.  Whichever watch claims a copy, the other stays
  quiet about it: so what is claimed is reported, or in the hands of a watch that is about
  to (`ClaimedOrReported`); one about to report something older does not count.  And what
  the person copied last is taken for the service's own beside an offer only
  (`TakenForOurs`).  `spoiled` is the exception of section 6.
* *Selection*, `SelectionIsAlwaysServed`.  Of each program that pastes: its question is the
  last that was heard of it, it is sent one thing at a time, has got of it what was sent,
  and asks for a piece once it took the one before (`Served`).  That what it gets is not
  older than its question needs the order of offers, wherever they wait (`OffersAscend`).
  A program that left a transfer half way (`left`) is excepted, for the reason in section 6.
* *Landing*, `WhatWasThereAlwaysStays`.  What is in a folder is there with it (`Rooted`),
  nothing stood where the plan puts its names (`PlacedAnew`), and what is half written is a
  file and not a folder (`Arriving`).  So a path that is made has a name nothing had, and
  what is taken away when a paste ends is of the paste.  That `unclaimed` finds the first
  free number is the well-foundedness of `<` (`NameIsFree`).

The assumptions: a machine is not its own peer, `Nothing` is none of the things it stands
for the absence of, counts are natural numbers, contents have at least one piece and a
clipboard is looked at at least once; and the manifest of what is copied is a finite list
of paths of one name or two, which is what `Listed` makes and no theorem here can show of
`FlattenSeq`.

### What is only model-checked, and why

* Liveness (`HeldEdgeSettles`, `SuspensionEnds`, `CursorComesHome`, `HolderComesToAct`,
  `SilentMachineIsLetGo`, `EveryPasteEnds`, `PullsEnd`, `ReaderIsThere`, `DefaultIsGivenUp`,
  `FollowsInput`): beyond what this prover does.
* `AutomaticNeverClash` and `EveryMonitorIsReached` of `Layout`: places are found by folding
  over monitors, and reachability is a closure, so both are inductions over data, which
  this prover cannot make.

`HolderIsPresent`, `HeldEdgeIsOpen` and `MotionFindsUsable` of `Server`, `MapsAgree` of
`Switching` and `AskedOfPeers` of `Exchange` are proved, and no run repeats them.

## 5. Mutants

Every property of a passing run has a mutant in `PROJECT.json`: a definition
mapped to the code, changed the way a plausible bug would change it (a guard
dropped, a departure not told, a reset missing, one setting read as another),
under which TLC finds the property violated.  The mutants are marked in the
modules (`\* mutant:`) and nothing uses them.

## 6. Where the code and its documentation differ

Three runs are expected to end in a violation.

* **`landing`, `EachFileArrives`.**  "The file arrives, under a name that is as close as
  can be written" (`smkvm-cli/src/transfer.rs:295`).  `plan_landing` gives each top-level
  name, as cleaned, one place and asks only the disk whether it is taken: `a` put aside to
  `a (2)` and an `a (2)` pasted with it come to one path, as do two names that are cleaned
  alike or differ in case on a disk that ignores it.  The second is written over the first
  and both are reported to have arrived.
* **`switching_race`, `LetGoWhenNotInCharge`.**  "Nothing sticks ... let go of the
  moment a machine stops being in charge ... on a UAC prompt taking the screen"
  (`README.md:24`).  An `Enter` that crosses a `Suspended` on the wire is obeyed
  by the suspended machine (`Enter` and `SyncKeys` press whatever is suspended);
  the server recalls the cursor without a word, so nothing tells that machine to
  let go.  `NothingSticks` is checked without prompts for this reason.
* **`heartbeat_client`, `SilentServerIsGivenUp`.**  The timeout of the client's loop
  is made anew in every turn, and the look at blockage makes a turn every 500 ms,
  so a server that went silent without the link closing is never given up
  (`smkvm-cli/src/client.rs:151`, against the comment at `:23`).  It is when the
  machine slept, since everything is then due at once: the run has no sleep.

Modules also state, under "What the documentation says and the code does not do",
what has no run of its own; TLC refutes each of these when it is added to the
instance named.

* **`TwoStrikesToCross`** (`Server`).  "An edge must be struck twice within
  this window to cross" (`smkvm-core/src/server.rs:127`).  A push is many movements, and
  `may_cross` (`:514`) takes each for a strike: the second movement of one push crosses.
  The tests come away from the edge between the two.
* **`NothingVanishes`** (`Clipboard`).  "A stale offer simply loses to a newer one, which
  avoids the failure where a clipboard update vanishes after a reconnect"
  (`smkvm-proto/src/msg.rs:194`).  `offered` (`exchange.rs:410`) compares nothing: two offers
  that cross replace each other, and then nobody has either copy.
* **`PastedWhole`** (`Clipboard`).  A client that restarts counts its copies from one again, and
  an offer under the name of the one held is taken for the same one: a fetch under
  way is completed with pieces of another copy (`exchange.rs:412`, against `:580`).
  `PastesWhatWasCopied` speaks of names given once for this reason.
* **`AskersAreRemembered`** (`Files`, with `Shared`, three clients and one copy of two pieces: two clients
  paste what the third copied).
  "Requests passed on for another machine, remembered so the chunk that answers each can be
  passed back" (`smkvm-core/src/transfer.rs:72`).  A relay is known by transfer, file and
  offset, and the second asker takes the first one's place (`:154`): one of them gets both
  answers, the other waits until it gives up.
* **`NothingSticksAtHome`** (`Capture`, seven moves).  "Nothing sticks ... on crossing"
  (`README.md:24`) is kept for the machines that are sent input and not for the one with the
  keyboard: a key that went down before the cursor left and up after it stays down in its
  programs.  `LocalAction::ReleaseAll` does nothing (`smkvm-cli/src/server.rs:412`).
* **`WallsHold`** (`Layout`).  "Motion into one of these stops at the edge instead of sliding past"
  (`smkvm-layout/src/model.rs:285`).  Only a movement that ends in a reserved place, or passes
  one that is nearer than every screen, is stopped; a screen that is placed automatically may
  be put in front of the hole, and `resolve` prefers an aligned screen beyond it.
* **`PlacedAtItsSize`** (`Layout`).  "Monitors that are new or whose geometry changed are left
  unplaced" (`model.rs:317`).  A monitor that was unplugged keeps its place, and when it comes
  back at another size it counts as new and the old size is kept for it (`:342`).
* **`NeverTwoDaemons`** (`Installing`).  "Two daemons fighting over one clipboard, which `plan`
  exists to make impossible" (`service.rs:320`), and "it is never both" (`:22`).  `present`
  (`:368`, `:392`) is asked once, when a command begins, and nothing keeps two commands apart:
  two installs that each asked before the other registered leave task and service both, every
  question answered.  And an install of the service that is cut off once the task is
  off the list, or cannot stop its daemon (`:349`), leaves that daemon beside the service of
  the next install, which sees no task to remove.  `OneArrangement` excepts these
  (`overtaken`, `spared`).
* **`SecondIsRefused`** (`Installing`).  "Refuse to start a second daemon beside one that is
  running" (`smkvm-cli/src/main.rs:882`).  A service looks at its own report only, so it starts
  beside a daemon in somebody's profile; `start` looks at the service only
  (`service.rs:643`); and two daemons that are started together have both looked before either
  has written a report.
* **`ForgottenStaysOut`** (`Pairing`).  "It must be paired again to connect" (`main.rs:792`).  The
  daemon trusts whom it read at its start (`smkvm-cli/src/server.rs:290`): a machine that was forgotten
  connects until it is started again.
* **`NothingKeptIsOld`** (`Paste`).  "Whatever was kept from the last one is not what this
  announces" (`serving.rs:449`): `offer` clears what is kept, and an answer to a question asked
  before it is kept after it.  It is served only if the promise is renewed for the new offer
  while it is there; `PastesTheOffer` shows that what is pasted is not older than what is
  offered when it is asked for.
* **`OursIsNotReported`** (`Notice`).  "Announcing it would send the far machine's clipboard
  straight back to it" (`platform/windows.rs:955`): a report that waits to settle looks at the
  clipboard when it has settled, and may then find the offer made meanwhile.
* **`OursIsNotReported`** (`Selection`).  "Do not report a change when the clipboard is taken by this
  window" (`platform/x11.rs:165`): the window is published after it took the selection, and
  taken back before the notice is looked at.
* **`OursStaysQuiet`** (`Noticing`).  The warning of our own change (`clip.rs:191`) excuses one answer to
  one of the two watches, and a worker that is attached anew offers again and warns nobody.
* **`SomebodyWatches`** (`Readers`).  "Without a reader, nothing else is watching at all"
  (`readers.rs:322`): the worker is told to watch when a reader is *let go*; after one that died by
  itself, and two that did not start, nobody watches.
* **`ToldOfLaterWishes`** (`Worker`).  "Remembered so a worker that starts later is told"
  (`link.rs:562`): `attach` reads what is to be swallowed before the pipe is in place (`:135`), and
  what the daemon wants otherwise in between is told to nobody, or before what `attach` read.
* **`NoStaleReach`** (`Worker`).  "A stale reach claiming reach is the whole subject of this
  module" (`scm.rs:727`).  The pipe and the reach are behind locks of their own: a `say` that
  fails between `attach` putting the pipe in place and telling the reach (`:137`, `:144`) leaves a
  reach and no pipe; and one that drops the pipe of a worker that died and tells the reach
  only after the next was attached (`:263`, `:269`) leaves a pipe and no reach until the next
  change of worker.
* **`FailedStartsEnd`** and **`WedgedIsReplaced`** (`Worker`).  "How many failed starts on one
  desktop before the service stops trying" (`watch.rs:33`): on a broken desktop other than the
  ordinary one each start of the ordinary one's worker in between sets the count back.  "The pipe
  is dropped, the reach says no worker, the cursor goes home, and `watch` starts another"
  (`link.rs:33`): the process of a worker that does not read lives on, and `watch` goes by the process.

Seen while modelling, and without a statement of their own:

* `resettle` gives the cursor to whichever machine has the point, usable or not
  (`smkvm-core/src/server.rs:825`): `MotionFindsUsable` is about motion and time.
* A held edge keeps the point it was pressed at; if that machine's screens change
  meanwhile the crossing may go to a point it no longer covers
  (`smkvm-core/src/server.rs:571`): `CursorStaysUnderHolder` excepts that case.
* `release_all` clears the record though the platform refused
  (`smkvm-input/src/lib.rs:252`): what was held then stays down with nobody to
  release it.  `NothingSlipsTheRecord` names it as one of four ways.
* A repeat is typed past the record (`smkvm-core/src/client.rs:180`), because the press before
  it is taken to be on it.  A press that was refused is not, and neither is one before a
  `ReleaseAll`: the repeat that follows once input lands leaves the key down with nobody to
  release it but its own key up.  It is another of the four.
* A client that crashes, or is stopped in the middle of a session
  (`smkvm-cli/src/client.rs:64`), releases nothing, and the server's `ReleaseAll`
  on its return finds an empty record (`smkvm-core/src/server.rs:714`).  `Crash` and
  `Stop` are actions of `Client` and `Switching`, and `CutShort` is excepted where
  a property would speak of them.
* A press overtakes the position it was made at, because the writer takes state
  changes first (`smkvm-cli/src/server.rs:868`).
* Files: transfers are numbered from one again when a client restarts; a source that is edited
  without changing its length is pasted torn; a daemon that is killed leaves its half-written
  file; a pull that nobody answers stays after `FILES_PATIENCE` has told whoever pasted.
* Landing: `unclaimed` gives up after `a (9999)` and gives back the name that is taken
  (`smkvm-cli/src/transfer.rs:423`), so that the file that has it is written over.
  `WhatWasThereStays` excepts just this (`"spent"`).
* Drags: a link lost while one is being picked up recalls the cursor first and hides the pointer after
  it (`smkvm-cli/src/server.rs:396`), which `HiddenWhileAway` excepts; a drag whose cursor is back on its source when the offer comes is dropped
  (`smkvm-cli/src/clipboard.rs:387`), a second one is refused while the first is under way, `settle_drops`
  asks after the left button only, and a catch that fails leaves the button down at the source.
* Pairing: one side can end up paired when the other's answer is lost after it was sent; the
  window's list is written over what a command added meanwhile; `Session::accept` waits without
  a limit.
* Installing: `task_registered` takes a failed question for "no" (`service.rs:301`), and an install that
  believes it leaves both (`unasked`); machines paired after an installation for the whole system are not
  seen by the service; the task is registered whatever became of what was to be carried over.
* Worker: what a replaced worker had still to say may be heard after its successor is attached
  (`late`, excepted in `FollowsInput`), and a worker that is armed again ignores what `Blocked` said.
  Reach: refusals that come back in one burst count as a run, and messages that inject nothing
  count as evidence that the wall is gone.
* Readers: with `DiesEarly`, a reader that dies between its welcome and its being put on record
  (`readers.rs:660`) is never collected, and nobody is started in its place until the session changes.
* Noticing: the window's watch may claim a later sequence with what it found earlier
  (`reader.rs:732`), the poll opens the clipboard twice and the second may fail after the claim
  (`:709`), a full queue ends a watch for good (`:703`, `:759`), and a person's copy beside our own offer is
  taken for ours.  `CopyIsNoticed` excepts exactly these (`spoiled`).
* Selection: a transfer piece by piece that was abandoned mixes into the next one to the same
  window, and `release` with `CURRENT_TIME` can let go of a copy just made on this machine.

## 7. Not modelled

* The encoding of messages (`codec.rs`), names of keys, key maps, logging, wording, pictures,
  HTML and lists of files as bytes: conversions without state.
* X11 input and the loopback backend: calls of the display server one by one, and a test double.
* Access lists, tokens, secrets, the probe, the framing of the worker's pipe: calls of the system.
  The calls `budget.rs` and `reading.rs` bound are steps that may fail.
* The cryptography of sessions and pairing: both ends of a handshake come out with each other's
  key, or neither does.
* Editing in the desk window: drawing, snapping, the configuration file beside a daemon that
  reads it.
* The delay between a client's attempts to connect, `FETCH_PATIENCE` and `FILES_PATIENCE`: a client may connect,
  and an answer may come, at any time.
* Reading an X11 selection piece by piece.

Compositions that are not made: `Files`, `Drag` and `Clipboard` share one machine's exchange in
the code and are three modules here; `Worker`, `Readers` and `Paste` run in one service and are checked
apart.  Their product is out of TLC's reach, and what each takes from the others is one step.

Steps that are one in a module and more in the code:

* Installing: the two questions of `present`; `sc stop` with `sc delete`, the service being
  taken to stop; listing processes and stopping them.  The number of a process that went is
  not given again while a report that is fresh enough to be believed names it, or while a
  property speaks of it.
* Worker: the two locks after the pipe's in `detach`, and the two of `heard`, which nobody can
  tell apart; the flag and the telling in `set_swallow`.  The threads of the link are taken
  to start.
* Selection: taking the selection and the server's answer to who has it.  What is asked
  of a server whose connection is lost is lost with it.
* Noticing begins with a clipboard that counts as announced.  The first look of the two
  watches may fail, and a copy made before they have begun (`reader.rs:510`) is announced by
  neither.

## 8. Plan

1. An abstract clipboard (who owns it, what a paste may give) that `Paste` and `Selection` both
   implement.
2. `Store`: the window's saves beside the daemon's.
