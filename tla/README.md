# cterm in TLA+

This directory is a verification project for cterm: TLA+ modules translated from
the Rust source of the daemon `ctermd` (crate `cterm-headless`) and of the
application logic it drives (crate `cterm-app`), TLC configurations that check them
on small instances, and proofs for TLAPS that hold for every instance.
`PROJECT.json` lists the components, the runs, the fault that each property
detects, the source lines of every definition, the findings, the hazards and the
theorems.

## 1. The system

cterm is a terminal emulator whose sessions live in a daemon.  Native frontends
(GTK, Cocoa, Win32) talk to `ctermd` over gRPC on a Unix socket; the daemon owns
the PTYs, parses their output and lets a session outlive its window and, by exec
in place, its own binary.  A program in a terminal can ask through escape
sequences (Kitty's OSC 5113) to read or write the user's files, which a frontend
has to authorize.

| Component | Code | State it keeps | Operations | Correct means |
|---|---|---|---|---|
| File-transfer authorization | `cterm-app/kitty_file_transfer.rs` | sessions by transfer id with phase, token and listed paths; next token | handle (start, cancel, collect path, approved command), approve, deny, reject | no action before consent, a token is decided once, limits hold |
| File-transfer actor | `cterm-headless/session/tty_transfer.rs` | one worker per terminal session: pending prompts, deadlines, idle transfers; `accepting`, `active`, `queued`, a bounded queue | submit, respond, shutdown, quiesce, resume, has_work, tick, dispatch | work is never invisible to relaunch, every call returns, shutdown drains |
| Daemon session state (partly) | `session/state.rs`, `bridge/reader.rs` | terminal, broadcast channels, prompt registries, attach count, transfer switch and controller, `connecting` | process_output, prompts, attach/detach, SSH connect, start_reader, EOF | prompts reach clients, EOF releases everything |
| Session manager | `session/manager.rs` | session map, `lifecycle_gate`, draining set, had_sessions | create, destroy, restore, clean-up, relaunch guard | no transfer work is lost or forgotten, dead sessions go |
| Exec-in-place relaunch | `relaunch.rs` | state directory, FDs that survive exec | collect, exec, restore | preservable sessions survive, failure changes nothing |
| gRPC service | `service.rs` | stream counter, shutdown notification | RPCs; output, event and screen streams | streams converge, auto-shutdown neither early nor never |
| Daemon server | `server.rs`, `main.rs`, `cli.rs` | socket, PID file, clean-up timer | start, stale socket removal, clean-up every minute, shutdown | one daemon per socket |
| Daemon client | `cterm-client/*`, `daemon_*.rs` | connection, cached tunnels | connect, auto-start with retries, reconnect | one daemon started, no stale tunnel |
| PTY writer | `bridge/writer.rs` | bounded queue, writer thread | send, send_with_backpressure, drop | order kept, backpressure bounded |
| Transfer staging | `kitty_file_transfer_fs.rs`, `kitty_file_transfer_receive.rs` | staged files by transfer id, quotas | handle, pump, commit, abort | nothing half-written is visible, quotas hold |
| Plugins | `plugin_broker.rs`, `plugin_runtime.rs` | grants, budgets | request, reply, revoke | no call without a grant |
| Pane tree | `cterm-ui/pane.rs` | split tree | split, close, resize, focus | ids unique, sizes add up |
| Terminal core, image protocols | `cterm-core/*` | screen, parser state | process | sequential, data-heavy |
| Configuration, git sync, frontends | `config.rs`, `git_sync.rs`, `cterm-gtk`, ... | files, widgets | load, save, draw | I/O |

**How they interact.**  The PTY reader of a session (one task) parses output,
answers it and submits transfer commands to the session's actor (another task)
over a bounded queue.  The actor asks for consent by registering a prompt in the
session state, which every attached frontend sees; frontends answer through an
RPC that sends to the same queue.  `destroy_session`, the reader's EOF, the
clean-up timer and `relaunch_daemon` reach into the same sessions from other
tasks.  They share atomics (`accepting`, `active`, `queued`, `connecting`), the
session map under a read-write lock, the `lifecycle_gate` mutex, and the set of
draining sessions.

**What is hard.**  Atomics that are read one after the other; a switch that is
tested before and after a counter is raised; a session that has left the map but
still has an actor; a one-minute clean-up that looks at sessions while SSH
connects; a relaunch that freezes all sessions, may be refused or fail, and has
to undo the freeze; prompts that several clients answer while the peer cancels
and the deadline passes; a worker that dies in the middle of a list of actions; a
bounded queue that four kinds of task send to.  The hazards in `PROJECT.json` are
listed at the line where they bite.

## 2. Modules

| Module | What it is |
|---|---|
| `TtyTransferManager` | the authorization state machine; every method of `TtyTransferManager` is an operator over its state and the list of actions it returns |
| `TtyTransferActor` | the worker, its queue and atomics, and all that runs beside it; EXTENDS the manager |
| `TransferConsent` | the abstract promise to the user: asked at most once, granted in time, used only when granted |
| `TransferOutline` | the actor as the session map takes it to be: a switch, work that enters at one place, a worker that may return |
| `TtyTransferProperties` | properties of the actor, its fairness and the refinement mappings to `TransferConsent` and `TransferOutline` |
| `TtyTransferProofs` | type correctness of manager and actor, shutdown, the queue counter and the relaunch gate |
| `TtyTransferConsentProofs` | the inductive invariants of consent, staging and bookkeeping, and the refinements of `TransferConsent` and `TransferOutline` |
| `SessionLifecycle` | the session map: creation, SSH connection, destruction, clean-up and relaunch, with the readers, queues, counters and workers they look at |
| `SessionLifecycleProperties` | its properties, inductive invariant and fairness |
| `SessionLifecycleProofs` | its proofs |
| `TransferStaging` | the filesystem side of transfers towards this machine: staging, budgets, directories, commit, abort |
| `TransferPublication` | the abstract promise to the rest of the machine: whole items, one at a time, after the finish |
| `TransferStagingProperties`, `TransferStagingProofs` | budget, bookkeeping, directory tree, the refinement; their proofs |
| `DaemonServer` | daemon processes around one socket path, clients that find, start, use, relaunch and stop them |
| `DaemonServerProperties`, `DaemonServerProofs` | its properties and proofs |
| `PtyBridge`, `PtyBridgeProofs` | reader task, actor's worker, writer thread and child: a circle of bounded queues |
| `ScreenStream`, `ScreenStreamProofs` | incremental screen updates, synchronized updates and their watchdog |
| `PromptStream` | consent prompts in the event stream: snapshot and broadcast |
| `SessionIO`, `SessionIOProofs` | the three ways a session talks to the outside, side by side; the proofs about prompts, and that what is proved of each part is true of the session |
| `MCTtyTransfer`, `MCSessionLifecycle`, `MCTransferStaging`, `MCDaemonServer`, `MCSessionIO` | instances for TLC |

### TtyTransferManager and TtyTransferActor

`sessions` is the manager's map (an absent id is the record `Absent`),
`nextRequestId` the next consent token, `actions` the list the last call
returned and the worker is dispatching.  Payloads, metadata and wording are
gone; a command keeps its kind, transfer id, file id, path, announced size and
quietness, because the control flow depends on them.

The worker is the program counter `worker` with the message or tick it handles
in `job`.  It receives (`RecvProtocol`, `RecvApproval`, `RecvLateApproval`,
`RecvStaleApproval`, `RecvShutdown`, `Tick`), dispatches the actions one at a time
(`DispatchWrite`, `DispatchRequest`, `DispatchExecute`, `DispatchAbort`,
`DispatchFails`), does its bookkeeping (`Finish...`), and when it ends drops its
state, resets the two counters and closes its queue in three steps.  The other
tasks are `reader` (submit, one step per atomic access), `client` (respond),
`closer` (the two callers of shutdown) and `gate` (the relaunch gate with the two
loads of has_work).  `registry` is what clients see; `shown`, `consented`,
`decided` and `executed` are history.

Choices worth knowing:

- The switch in the session and the one in its controller are one variable
  here.  `SessionLifecycle` has both.
- A worker whose weak reference to its session fails to upgrade ends; while the
  worker lives somebody holds the session, so that path cannot be taken.
- `reject_all` works lazily here, one session per round of dispatch, which only
  delays what the code returns as one list.
- The two filesystem maps (sending, receiving) are one map `fs` from transfer id
  to owning token; `send_only()` is not used by the daemon.
- The end of a message merges the decrement of `queued` with a store of `active`
  that cannot change it at that point.
- Deadlines are the sets `late` and `stale`: a deadline passes, then a tick or an
  answer finds it passed.
- `DispatchFails` stands for a PTY write that stays blocked and for a blocking
  task that panics: the two ways the worker ends early.

### SessionLifecycle

A session has its `place` (not yet created, in the map, removed), its connection
task `ssh`, its `pty`, its `reader`, its switch `flag`, its controller `ctl`, its
`worker` with the queue `chan`, and the two variables `active` and `queued`.
`closer` has the two calls of `shutdown()`, by the reader at EOF and by
`destroy_session`.  `gate` is the holder of `lifecycle_gate`: which operation, which
sessions it has yet to visit, what it found.  `CreateLocal`, `CreateSsh` and
`Destroy` are one step under the gate; clean-up and relaunch visit the sessions one
after the other, and everything that does not take the gate runs between their
steps: `StartReader` and `PublishController` are the two halves of
`OnceLock::get_or_init` in `start_reader`, `DrainActor` and `Undrain` the task that
`destroy_session` spawns.

`has_work()` is two loads here as in the code, both for the clean-up (`JudgeActive`,
`JudgeQueued`) and for the relaunch guard (`CheckActive`, `CheckQueued`), and
`submit()` is one step per atomic access (`ReadCommand`, `CountQueued`, `Recheck`,
`UncountQueued`, `SendCommand`, `SendCommandFails`).  The worker takes a command,
stores `active`, finishes and decrements `queued`; when it returns it resets the two
counters one after the other and only then drops its queue (`ResetActive`,
`ResetQueued`, `CloseReceiver`), so that a command may be sent to a worker that has
already reset the count, and the plain `fetch_sub` of `submit` may wrap it.  What the
worker does with a command is only whether a transfer is left in `active`;
`TtyTransferActor` has the rest.  `ReadCommand` merges the looks at the session's
switch and at its controller's, which every writer sets together; the later look
(`Recheck`) is the one that counts.

What the two modules suppose of each other is `TransferOutline`: the actor implements
it (`KeepsOutline`, with a command past the second test of submit and all that may
come of it as its work), and each actor of the session map moves as it allows until
an exec replaces it (`ActorsKeepOutline`).  The shutdown RPC, the streams with their
auto-shutdown and the socket are in `DaemonServer`.  `HasHome` is FALSE where the
daemon finds no home directory and gives sessions no controller.

What the model shows besides its properties: the clean-up asks the same `has_work()`
as the relaunch guard (`manager.rs:501`), and may remove a dead session whose worker has
just taken up its last command, with a transfer that has begun; no command is lost on
the way (`NoCommandLeft`), and the transfer ends with the reader's EOF.  An exiting
worker resets `queued` (`tty_transfer.rs:175`) before its queue is dropped: a command
sent in between stays counted, and no clean-up pass removes the session, although the
comment at `manager.rs:504` promises it to the next one.  A refused or failed relaunch
resumes every session of the map (`manager.rs:464`), also the dead one that a clean-up
pass had closed, which by the same comment "stay quiesced"; nothing else does, but for
the restore after an exec: neither the session's own reader nor its connection task
brings back what was closed (`UnsealedByResume`).

### TransferStaging

`open` is the map of send sessions, `entry` what each file id of a transfer stands
for (a staged file, a link, a directory, a rejected or an unused id), `reserved`
and `consumed` its two totals, `dirs` and `visible` the part of the disk it shares
with everybody.  A FILE command is `StageFile`, DATA and END_DATA are the `...Data`
actions, cancel, refusal and drop are `Abort`.  FINISH begins with one of
`FinishIncomplete`, `FinishUnresolved` and `BeginCommit`; the commit then renames
its files, hard links, symbolic links and sets the metadata of its directories in
the order of `commit_session`, and each of these steps may fail
(`Publish...Fails`).  A name is a place in a tree (`Below`), a file its length.  The
decoders may let any part of a command through before they report an error.

`spent` and `stray` are history: `spent` is what was written and charged, `stray`
what the temporary file of an rsync delta took although `write_file_data` counted
it no more: `set_limit` does not reach the writer inside a delta, so that the last
piece of a broken one is on disk uncounted, against the comment at
`kitty_file_transfer_fs.rs:519`.  It is bounded by the limit the file started with.

What the model shows besides its properties: a failed commit removes its
directories before its temporary entries, so directories that hold them stay
behind (`LeftByFailedCommit` is that exception); a transfer that aborts may remove
an empty directory which another one staged as existing and later reports as
published; the parents that were made for an entry that is then rejected stay.

### DaemonServer

`socket` is whose listener the path names, `pc` how far a daemon is:
`Probe`, `Unlink`, `Bind`, `Listen` are the system calls of a start, `Drain`,
`CloseListener` and `RemoveSocket` the steps of a stop, `Relaunch`, `Exec` and
`ExecFails` those of a relaunch.  Clients dial, shake hands, start a daemon (`Spawn`)
and try again as `connect_path` does.  A daemon keeps its identity across exec,
because the process does.  A connection to a socket that is bound but does not listen
is refused, and so is one to the listener of a process that is gone (`Stale`).

A decision to stop is made in steps.  `Reap` and `CloseStream` leave a reading of the
session count behind in `checks`, which `ReadCount` makes later; `Shutdown` is the
reading of the RPC.  Whoever reads zero is then in `deciding`, and notifies in a step
of its own (`Notify`) without a second look; the daemon leaves its accept loop later
still (`StopServing`); once it has been notified no reading changes anything, so that
none is kept.  Sessions are created in between at any point.  A forced
shutdown destroys the sessions it has listed in one step and is remembered in `forced`.

A relaunch needs a session that can be kept: those in `SshSessions` have no file
descriptor that survives exec and are dropped, as `collect_and_write_relaunch_state`
does; `Exec` then keeps any part of the others, because a restore may fail, and all of
them are lost when the state cannot be read.  Steps of other tasks during
`perform_relaunch`, which blocks its thread but not the runtime, touch neither file;
they are taken before it or after it has failed.

A draining daemon still accepts connections at the level of the socket: tonic 0.12.3
keeps its listener until the connections have ended, so that `Listening` includes it
and a starter that probes the path finds it alive.  A client that dials it gets an
error at once or no answer (`Hello` has both).

Choices: the PID file is left out, since nothing reads it (a second daemon that is
refused overwrites and then removes the PID file of the first); `exists()` and
`connect()` of the stale-socket test are one step, because a path that vanishes or
appears between them gives the outcome of one of the two orders; each client connects
once; a daemon that serves without a path after `ExecFails` is kept, as in the code.
`overrun` is history: an exec failed after the path was given up, a starter that had
made its test earlier removed the path of a daemon that runs, or an exiting daemon
removed its successor's (the exit removes the path whoever's socket it names by then).
What the model shows besides its properties: a relaunched daemon that finds another
one at the path ends and takes its sessions with it (`RelaunchKeepsSessions` says that
it takes a rival for this to happen), and a session that is destroyed after its stream
has ended leaves an empty daemon that nobody stops.

### PtyBridge, ScreenStream, PromptStream

`PtyBridge` has the reader task (`Read`, `Submit`, `EndOfOutput`, `Close`, which
waits until the commands queued before it have been handled), the
worker of the actor (`Answer`, `BeginStream`, `HandOver`, `GiveUp`, `EndStream`), the
writer thread (`WriterTakes`, `WriterFails`) and the child.  Each waits for the next
one: the child for the reader when its output is full, the reader for the actor's
channel, the actor for room in the writer's queue, the writer for the child.  Only
the deadline in `send_with_backpressure` opens that circle.

`ScreenStream` has the screen under its lock, the state of a synchronized update
(`sync`, `expired`, `watched`, `pending`), who still has to announce a change
(`owed`), and for each viewer its channel, what the daemon believes it has (`cache`)
and what it has (`replica`).  Cursor, modes, images and extra cursors are one more
row each, which the baseline reads under separate locks, so that it takes one row per
step (`Baseline`, `cached`); the number of rows is fixed.  `missed` is history: the rows that changed
between the snapshot a client attached with and the baseline the daemon takes when
the stream begins; they stay wrong until they change again.  After a lag or a
resize the copy catches up at the next change only (`NewsComing`).

`PromptStream` has the registry of prompts and, for each client, the snapshot it
replays and the channel it reads, taken under one lock.

`SessionIO` is their sum and not their product: a behaviour follows one of the
three (`way`), because they share no variable and hold no lock together.

## 3. Runs

| Run | Instance | States | Shows |
|---|---|---|---|
| `consent` | two transfer ids, two clients, queue of 1, two tokens; no RPC besides prompts | 1.9 M | the safety of consent, bookkeeping and staging, the inductive invariant of consent (types included), work stays visible, a shutdown at EOF drains, also when the worker dies while another prompt is open; the actor implements `TransferConsent` |
| `shutdown` | one receive of two paths, one client, destroy and relaunch, fair | 39 k | the counter is exact, a confirmed gate admits nothing, what is opened was on the prompt, the actor implements `TransferOutline`; every call returns, every prompt is resolved |
| `lifecycle` | a local session and an SSH session that sends commands, queue of 1, relaunches without limit | 1.5 M | no command is left behind, settled guard, sealed removal, local sessions always resume |
| `lifecycle_liveness` | one SSH session that sends commands, fair | 13 k | draining ends, dead sessions go |
| `staging` | two transfers that share a tree of two directories; declared and undeclared files, a delta, links | 676 k | budget, totals, directory tree and sweep; staging implements `TransferPublication` |
| `daemon` | two daemons, two clients, a session, one retry, fair | 296 k | whose path it is and who may take it, which sessions a relaunch keeps; a reaped daemon stops |
| `session_io` | queue of 2, three packets; two rows, one viewer, channel of 2; three prompts, two clients, channel of 1 | 146 k | streams have no holes and return, screens follow, synchronized updates end, every prompt is seen |
| `gate_race`, `counter_wrap`, `ssh_reap`, `lost_resume`, `late_session` | as above | | counterexamples, see section 6 |

**Bounds.**  Two transfer ids are what interference needs: one transfer executes
while another waits, ids are closed and reused.  `RequestBound` bounds how many
consent tokens a behaviour uses (the reader starts no further transfer, the code's
64-bit counter has no such limit); two tokens let an id be used twice.
`Capacity = 1` makes every send meet a full queue.  `CounterSize = 8` is far above
what can be queued, so the wrap in `counter_wrap` is an underflow and not a small
modulus.  The run `shutdown` has one transfer, because its liveness properties cost
more than its states: its two paths arrive one at a time and in either order, in
front of destroy, relaunch and failing dispatches.  `MaxActiveSessions` and `MaxReceivePaths` are met by the number of ids
and of announced paths.  `Surroundings` says which RPCs a run includes, so that
the run with all protocol paths need not also have all shutdown races.  In
`lifecycle` the two sessions are one of each kind, since a session shares nothing
with another but the gate, the map and the draining set; only the SSH session sends
commands (`Talkers`), because its reader starts latest and it has every step the local
one has, besides its own; the local one is there to be created, resumed, killed and
restored next to it.  `CounterSize = 4` is the least the assumption allows with a queue
of one: two senders of `shutdown()` and one command never come near it, so that a wrap
is an underflow.  Relaunches and clean-ups are not bounded.  In `staging` a transfer
may have two entries of the three ids, so that `MaxFiles` is met, and the session
limit of two bytes equals the limit of one file, so that one file can use it up,
two compete for it and a command of two bytes (`ChunkBound`) can exceed it; the one
destination outside the tree exists before, which a delta needs.  One transfer
stages the directories, the other puts a file below them: sharing needs no more.
In `daemon` two processes are what it takes for one to get in the other's way at
any of its system calls, and one session tells a daemon with sessions from an empty
one: it is lost or kept by a relaunch, exits, is cleaned up and created again (that
SSH sessions are dropped is in the model and in the proofs; this instance has none).
`Retries = 1` lets every branch of `connect_path` happen (20 in the code).
In `session_io` the queue is shorter than the file that is streamed, and
every channel is short enough to overflow: 256 events, 1024 writes in the code.
The proofs remove the bounds for what they cover.

**Fairness.**  In the actor: tasks are scheduled (weak fairness of their steps);
sends are strongly fair because tokio's bounded channel hands out permits in
order; `RecvNext` and `Tick` are strongly fair because `select!` picks at random
among its ready branches; time passes (`PromptAges`).  Nothing is assumed of
clients, of what the peer sends, or of failures.  In the life
cycle: `submit` and the worker go on (weak fairness of a task that is scheduled: its
queue has room again once the worker takes from it), transfers end (prompts and idle
transfers expire), both callers of `shutdown()` and the spawned drain task go on, the
holder of the gate gets on, and `BeginCleanup` is strongly fair, for the mutex is free
again and again and the timer comes round every minute; relaunches are asked for now and
then and not for ever (`RelaunchesEnd`).  Nothing is assumed of child processes,
readers, SSH connections or clients.  In `daemon`: a clean-up that has
removed something goes on to read the session count, who read zero goes on to notify,
and a daemon that was notified leaves its accept loop (weak fairness of one task each); nothing is assumed of
clients, other processes, or the end of streams, and nothing runs in a daemon that
hangs or is killed.  In `session_io`: the reader task, the worker and the writer
thread go on when they can, the deadline of a stream and that of a synchronized
update pass, and the watchdog ticks and announces what it released; nothing is
assumed of child and clients.  `SyncReleased` has the exception that the code has:
a child that renews its request for ever is never interrupted.

Deadlock is checked in the runs of the actor and the life cycle, where `Terminated`
and `Idle` say when everything may be over.  It is not in the runs of the daemons (all of them may
be gone and all clients have given up) and `session_io` (the child has exited and
everything is read); that the circle of `PtyBridge` opens is the liveness property
`StreamedResponseReturns`.

**Properties.**  For the actor: `ConsentBeforeEffect`, `DecidedOnce`,
`ListingWasShown` (what is opened was in the prompt), `StagingBelongsToSession`
(an id that is reused inherits nothing), `StagingGoneBeforeEnd`,
`BookkeepingAgrees`, `WorkIsVisible`, `QueuedIsExact`, `ShutdownDrains`,
`GateStopsAdmission`, `KeepsConsent` and `KeepsOutline` (refinements) and the four
liveness properties.  For the life cycle: `NoCommandLeftBehind`, `HeldMeansSettled`,
`RemovedStaysShut`, `LocalsResume`, `DrainingEnds`, `DeadReaped`.  For staging: `BudgetKept`,
`AccountingExact`, `TreeConsistent`, `CreatedDirsSwept`, `PublishesWhole`
(refinement).  For the daemons: `PathNamesTheDaemon`, `LiveSocketKept`,
`RelaunchKeepsSessions`, `ReapedIdleStops`.  For what a session exchanges:
`StreamHasNoGap`, `StreamedResponseReturns`, `ReplicaMatches`, `SyncReleased`,
`ApprovalSeen`.  What the guard and the clean-up guarantee about work is worded with
care: a command on its way (past the second test of `submit`, in the queue, in the
worker's hands) is never left behind, but a transfer that is in `active` may be, as
`gate_race` shows.  `DeadReaped` has one exception, a count that a worker
left behind (`Haunted`), which is what becomes of the wrap in `counter_wrap`.  Each is stated in words above
its definition, and each is violated when the fault that `PROJECT.json` names is
put into the code's definition (those definitions are marked `Fault` or stand
before the definition they replace).

## 4. What is proved

All theorems hold for every set of transfers, files, paths, clients, commands and
sessions, daemons, rows and viewers, for every capacity and bound that satisfies the
named assumptions: `BoundsAssumption` and `OptionAssumption` (the two limits are naturals,
the markers of an absent file, path or size are no members of the sets),
`ActorAssumption` (commands are well formed, the
queue has room for one message, the counter holds at least two values) and
`LifecycleAssumption` (local and SSH ids are distinct, the counter is larger than the
queue by more than two), `StagingAssumption` (directories form a tree, headers are well formed, a
file may not be larger than a session), `DaemonAssumption` (the markers are no
daemons, there is a retry), `BridgeAssumption`, `ScreenAssumption` and
`PromptAssumption` (capacities are positive, rows are finite and there are some).

- `TypeCorrect`: `Spec => []TypeOK`.  The type is inductive as it stands; the
  lemmas below it say what every helper of the manager returns.
- `ConsentIsInvariant`, and from it `ConsentCorrect` (`ConsentBeforeEffect`) and
  `DecidedOnceCorrect`.  The safety property alone is not inductive: a step
  executes the head of a list that an earlier step computed from a session that an
  answer approved.  `ConsentInv` therefore follows the token along that way: an
  answer in a queue or in a client's hands was given by a user (`AnswersSound`), a
  prompt that can still be answered carries a token that has not been decided
  (`PromptsSound`), a session in phase Approved has a granted token, tokens of
  different live sessions differ, and a waiting session's token is undecided
  (`SessionsSound`), an action in the list carries a granted token
  (`ActionsSound`), and history only grows consistently (`HistorySound`).
- `ShutdownDrainsCorrect`: a worker that has left its loop holds nothing
  (`NothingHeld`), and a caller is let go only by such a worker.
- `QueuedIsExactCorrect` and `GateStopsAdmissionCorrect`, for a queue with
  `Capacity + 2 < CounterSize` (512 and 2^64 in the code).  `CountInv` adds that the
  queue never holds more than its capacity, so that no increment of the counter
  wraps while the worker lives: what it counts is the queue, one command in the
  worker's hands and one in `submit`.  Because a closed gate keeps `accepting` off
  (`gate # "free" => ~accepting`), a command that `submit` counts after the gate's
  second load is taken back.  The run `counter_wrap` shows what happens once the
  worker is dead, where the theorem says nothing; `TakenBackWhileAlive` says that
  before that `submit` subtracts only from a counter that holds its command.
- `StagingBelongsCorrect`, `StagingGoneCorrect` and `ListingShownCorrect`.
  `StagingInv` says the same of every state on the way: what the executor holds
  under an id belongs to the session with that id, or the action that shuts it is
  still on the list (`EntrySound`); an action on the list is right for its session,
  and the end of a session is announced last (`ItemSound`); an open prompt shows
  exactly the paths its session asks for (`PromptsExact`).
- `BookkeepingCorrect` and, with the counter's assumption, `WorkIsVisibleCorrect`.
  `BookInv` follows the worker through a message: a prompt may be left without its
  session only until `ClearDismissed` (`PromptsMatched`), a session may wait without
  a prompt only while its request is on the list (`SessionsAsked`), the deadlines
  may differ from the approved sessions only for the transfer being served
  (`DeadlinesAgree`), and an inactive worker without a command has nothing
  (`InactiveIsIdle`).
- `ConsentImplemented`: the actor refines `TransferConsent`.  Open requests of the
  promise are the pending ones of the worker (`OpenIsPending`), a request is put to
  the user once because a list asks alone and for a number that was never shown
  (`RequestsFresh`), and a command dismisses one prompt at most because an id has
  one.  `WithdrawnStays` follows from the promise alone: a request that was refused,
  dismissed or has expired is never open or granted again.
- `OutlineImplemented`: the actor refines `TransferOutline`.  Nothing but the second
  test of `submit` makes work out of none (`OutlineReader`); what callers do leaves it
  as it is or takes from it (`OutlineCallers`), and what the worker makes was work
  before: a command in the queue, a live session or a list of actions
  (`OutlineReceives`, `OutlineWorks`).  From the outline alone follows `QuiesceHolds`:
  while the switch is off, an idle actor stays idle.  `CommittedIsBusy` (with
  `Capacity + 2 < CounterSize`) says that has_work() shows all of it in one look at
  both of its parts.
- `LifecycleSound`, and from it `LifecycleTyped`, `NoCommandLeft`, `HeldSettled` and
  `RemovedShut`.  Two ideas carry it.  `Sealed(s)`: the session's switch is off, or its
  reader is past EOF, and a reader that has passed the first test of `submit` already
  will fail the second.  Only `ResumeOne` unseals a session, and only one in the map,
  and only when the holder of the gate has given up its claim.  And `CountExact`: for as
  long as a worker lives, `queued` is what is in the queue, in the worker's hands and in
  `submit`.  A sealed session whose count is zero at the second load of has_work()
  therefore is settled, and stays so, whatever `active` was at the first.  The
  invariant says which sessions are sealed and settled at which point of which
  operation (`RemovedSound`, `CleanupSound`, `RelaunchSound`), and what reader, controller,
  worker and callers of `shutdown()` suppose of each other (`ActorSound`).
- Next to the findings `ssh_reap` and `lost_resume`, what does hold: `ConnectingSafe`,
  `UnsealedByResume` and `LocalsAlwaysResume` (see sections 2 and 6).  The last one needs
  to know where a session stands between its turn in a quiesce and its turn in the
  resume (`Spared`, `LocalSound`): outside of that stretch it takes commands unless
  its child or its worker is gone.
- `ActorsOutlined`: every step of the session map is, for each actor, one of
  `TransferOutline` or an exec.  It needs that a session has no controller before its
  reader has started (`ControllerLater`).

- `StagingTyped`, `BudgetHolds`, `AccountingHolds`, `TreeHolds`, `SweptBehind` and
  `PublicationImplemented`.  The budget needs that what was written was charged
  before (`ChargedFirst`): every write is cut to what is left of the charge, while
  charges for links come on top.  The refinement needs that a file that is done has
  its declared length (`WholeWhenDone`) and that a commit was complete when it
  began and its links lead to files (`CommitReady`); then the commit seals whole
  items and each rename publishes one of them.  The tree is consistent because a
  sweep never leaves a directory whose parent it removes: what is in a directory is
  in all that are above it, so its parent goes only if it goes itself.  Steps that
  receive data change one entry (`PutStep`, `DataStep`), steps that end a transfer
  forget it (`ForgetStep`, `SweepTree`); with those, an action costs a few lines.
- `DaemonSound`, and from it `DaemonTyped`, `OneDaemonAtPath`, `ListenerKeepsPath` and
  `RelaunchKeeps`.  `OneDaemonAtPath` needs that the path also names the daemon that is
  bound and does not listen yet (`PathNamed`), so that a second one cannot bind.
  `AheadSound` follows the daemons between their test and their unlink: whoever is
  there while another listens at the path had passed before it listened.  `PathFree`
  says where the path stands while a daemon with sessions is away and undisturbed,
  and `PathGivenUp` that a daemon about to exec does not own the path.
- `BridgeTyped` and `StreamGapless`: the queue and what the writer has in hand are
  one queue, which holds the packets from the last one read to the last one sent, in
  order (`Gapless`); a send adds at its end or nothing.  `StreamReadInOrder` is what
  the child sees of it: each packet that reaches it is the next one.
- `ScreenTyped` and `ReplicaFollows`: the cache stands between screen and copy; the
  copy is the cache but for `missed`, the cache is the screen unless news is coming
  (`Follows`).  An announcement that the channel drops leaves a lag behind, which
  forces a full update.
- `PromptTyped` and `ApprovalShown`.

The theorems about `PtyBridge`, `ScreenStream` and `PromptStream` are about each
module's own specification.  `SessionRunsParts` says that every behaviour of
`SessionIO` is one of each of the three, and carries them over (`SessionTyped`,
`SessionStreamsGapless`, `SessionReadsInOrder`, `SessionReplicasFollow`,
`SessionApprovalsShown`).

**Only model-checked**: liveness and everything about fairness (out of this
prover's reach, as is ENABLED): `RespondReturns`, `ShutdownReturns`, `SubmitReturns`,
`PromptResolves`, `DrainingEnds`, `DeadReaped`, `ReapedIdleStops`,
`StreamedResponseReturns` and `SyncReleased`.  Every other property of a passing run
has its theorem.  That the abstract specifications promise what they should is for
the reader to judge: they are short for that reason.

## 5. Not modelled

- Terminal emulation, image decoding, the arithmetic of rsync deltas, configuration,
  git sync and upgrade: sequential code over data, or I/O, with unit tests of its own.
- The native frontends and their copies of the daemon's dialogs, about half of the
  repository: toolkit code in one thread each.  Some of what they do is worth
  knowing: their mirror of raw output takes a snapshot apart from subscribing, so
  that it can lose or repeat a chunk, and reconnecting is theirs.
- Plugins (a sandboxed runtime behind one broker thread in a frontend) and the pane
  tree (a sequential structure): neither meets the daemon.
- Receiving: the listing and the pump that reads files for the remote appear only as
  ownership, closing and, in `PtyBridge`, as a worker that streams.
- SSH: authentication prompts are broadcast without being replayed to clients that
  come later, and the connecting thread waits for an answer without limit; the life
  cycle has only that a connection ends or does not.  Tunnels and their cache.
- TCP and Windows pipes, versions, authentication, the PID file; attach counts,
  titles and other read-only state.  Named sessions have no caller outside tests.

For these reasons the map covers a small share of the repository's lines, most of
which are toolkit, parser and decoder code.

## 6. Findings

Each of them is a counterexample, and next to each stands what is proved: how far it
reaches.

1. `gate_race`: `has_work()` loads `active` before `queued`
   (`tty_transfer.rs:146`).  A command that moves from the queue to the worker
   between the loads is seen by neither, and relaunch obtains its guard with a
   session at work.  One look at both parts would tell of everything
   (`CommittedIsBusy`), what has no work behind a closed gate gets none
   (`QuiesceHolds`), and what the guard overlooks is in `active`, never a command on its
   way (`HeldSettled`): it is the moment between the two loads and nothing else.  The clean-up
   asks the same question (`manager.rs:501`) and removes a session in that moment.
2. `counter_wrap`: `submit` takes its count back with a plain `fetch_sub`
   (`tty_transfer.rs:85`); after the exiting worker's reset to zero it wraps.  While
   the worker lives it does not (`TakenBackWhileAlive`).  The count is then never zero
   again and no clean-up pass removes the session; dead sessions without such a count
   do go (`DeadReaped`).
3. `ssh_reap`: `connecting` is cleared (`state.rs:279`) before the PTY is attached,
   and a clean-up pass in between removes a session that has just connected.  A
   session that still has the mark is safe (`ConnectingSafe`), although a pass judges
   it and removes it in different steps.
4. `lost_resume`: `start_reader` reads the session's switch (`state.rs:559`)
   before others can see the controller; a relaunch that fails in between leaves
   that session closed to transfers.  Only a session that SSH connects can be left
   so: a running local session takes commands whenever the gate is free
   (`LocalsAlwaysResume`).
5. `late_session`: `shutdown()` without force counts the sessions (`service.rs:1155`)
   and notifies (line 1183) without holding anything; a session that is created in
   between is killed.  The end of the last stream and the clean-up task do the same.
   Once the daemon serves no more, nothing is created in it.

## 7. Plan

Done: authorization and actor, the session map, the daemons around their socket,
what a session exchanges with its child and its viewers, and staging.  Left:

1. Receiving: the pump with its limits, resuming and the listing, implementing the
   `fs` of `TtyTransferActor`.
2. SSH prompts and the connecting thread, with the tunnel cache of the client.
3. The raw output mirror of the frontends and their reconnection.
4. Output and event streams of several sessions in one frontend.

Proofs to add: none for the safety properties stated so far.  With receiving modelled,
that its pump stays within the limits the listing showed, and that it implements the
`fs` of the actor.
