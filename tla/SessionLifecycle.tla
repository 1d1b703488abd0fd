---------------------------- MODULE SessionLifecycle ----------------------------
(***************************************************************************)
(* The daemon's session map and everything that adds to it, takes from it  *)
(* or freezes it: creating local and SSH sessions, destroying them, the    *)
(* periodic clean-up of dead ones, and relaunch by exec in place.  They    *)
(* are serialized by `lifecycle_gate'; the PTY readers, the SSH connection *)
(* tasks and the transfer workers of the sessions run beside them.         *)
(*                                                                         *)
(* Of a transfer actor this module has what the map can see or trip over:  *)
(* the queue, the two variables that has_work() loads one after the other, *)
(* submit() and the end of the worker, all step by step.  What the worker  *)
(* does with a command (module TtyTransferActor) is whether a transfer is  *)
(* left in `active' when it is done.                                       *)
(***************************************************************************)
EXTENDS Naturals, Sequences, FiniteSets

CONSTANTS
    LocalSessions, SshSessions,   \* ids, each used once (UUIDs)
    HasHome,                      \* the daemon's user has a home directory
    Capacity,                     \* COMMAND_QUEUE_CAPACITY
    CounterSize,                  \* values of the `queued' counter, 2^64 in the code
    Talkers                       \* model bound: sessions that send transfer commands

Sessions == LocalSessions \cup SshSessions

ASSUME LifecycleAssumption ==
    /\ LocalSessions \cap SshSessions = {}
    /\ HasHome \in BOOLEAN
    /\ Capacity \in Nat \ {0}
    /\ CounterSize \in Nat /\ CounterSize > Capacity + 2
    /\ Talkers \subseteq Sessions

VARIABLES
    place,        \* is the session in the map
    ssh,          \* its connection task
    pty,          \* the PTY of its terminal
    reader,       \* its PTY reader
    flag,         \* tty_transfer_accepting of the session
    ctl,          \* its controller's `accepting', if the controller exists
    worker,       \* its run_worker
    chan,         \* the worker's queue
    active, queued,   \* what has_work() loads
    closer,       \* the two calls of shutdown()
    draining,     \* draining_tty_transfers
    gate          \* who holds lifecycle_gate, and how far it is

controlVars == <<ctl, worker, chan, active, queued, closer>>
actorVars == <<reader, flag, controlVars>>
mapVars   == <<place, draining, gate>>
vars == <<place, ssh, pty, reader, flag, ctl, worker, chan, active, queued, closer,
          draining, gate>>

Closers == {"eof", "destroy"}

Mapped == {s \in Sessions : place[s] = "mapped"}

Connecting(s) == ssh[s] = "connecting"

IsRunning(s) == Connecting(s) \/ pty[s] = "up"

(* The worker has not begun to return.                                     *)
Alive(s) == worker[s] \in {"recv", "work"}

HasRoom(s) == Len(chan[s]) < Capacity

NextIs(s, kinds) == chan[s] # <<>> /\ Head(chan[s]) \in kinds

Free == [pc |-> "free", todo |-> {}, quiet |-> {}, seen |-> {}, dead |-> {},
         busy |-> FALSE]

At(pc) == gate.pc = pc

Init ==
    /\ place = [s \in Sessions |-> "new"]
    /\ ssh = [s \in Sessions |-> "over"]
    /\ pty = [s \in Sessions |-> "none"]
    /\ reader = [s \in Sessions |-> "none"]
    /\ flag = [s \in Sessions |-> TRUE]
    /\ ctl = [s \in Sessions |-> "none"]
    /\ worker = [s \in Sessions |-> "none"]
    /\ chan = [s \in Sessions |-> <<>>]
    /\ active = [s \in Sessions |-> FALSE]
    /\ queued = [s \in Sessions |-> 0]
    /\ closer = [s \in Sessions |-> [k \in Closers |-> "no"]]
    /\ draining = {}
    /\ gate = Free

------------------------------------------------------------------------------
(* Without a home directory a session has no transfer controller.          *)
Controller(accepting) ==
    IF HasHome THEN (IF accepting THEN "open" ELSE "closed") ELSE "none"

Worker == IF HasHome THEN "recv" ELSE "none"

(* Both switches of a session: its own and its controller's, if it exists. *)

Switched(s, on) == IF ctl[s] = "none" THEN "none" ELSE IF on THEN "open" ELSE "closed"

(* Fault: the controller is forgotten.                                     *)
SetSessionOnly(s, on) ==
    /\ flag' = [flag EXCEPT ![s] = on]
    /\ UNCHANGED ctl

SetAccepting(s, on) ==
    /\ flag' = [flag EXCEPT ![s] = on]
    /\ ctl' = [ctl EXCEPT ![s] = Switched(s, on)]

------------------------------------------------------------------------------
(* Creation and the SSH connection task.                                   *)

(* A local session is in the map when its reader already runs.             *)
CreateLocal(s) ==
    /\ At("free")
    /\ s \in LocalSessions /\ place[s] = "new"
    /\ place' = [place EXCEPT ![s] = "mapped"]
    /\ pty' = [pty EXCEPT ![s] = "up"]
    /\ reader' = [reader EXCEPT ![s] = "idle"]
    /\ ctl' = [ctl EXCEPT ![s] = Controller(TRUE)]
    /\ worker' = [worker EXCEPT ![s] = Worker]
    /\ UNCHANGED <<ssh, flag, chan, active, queued, closer, draining, gate>>

(* An SSH session is in the map before it has a PTY.                       *)
CreateSsh(s) ==
    /\ At("free")
    /\ s \in SshSessions /\ place[s] = "new"
    /\ place' = [place EXCEPT ![s] = "mapped"]
    /\ ssh' = [ssh EXCEPT ![s] = "connecting"]
    /\ UNCHANGED <<pty, actorVars, draining, gate>>

(* The connection is up or has failed: `connecting' is cleared first.      *)
SshReturns(s) ==
    /\ Connecting(s)
    /\ \E outcome \in {"linked", "over"} : ssh' = [ssh EXCEPT ![s] = outcome]
    /\ UNCHANGED <<pty, actorVars, mapVars>>

SshAttach(s) ==
    /\ ssh[s] = "linked"
    /\ ssh' = [ssh EXCEPT ![s] = "attached"]
    /\ pty' = [pty EXCEPT ![s] = "up"]
    /\ UNCHANGED <<actorVars, mapVars>>

(* start_reader: the closure of get_or_init reads the session's switch ... *)
StartReader(s) ==
    /\ ssh[s] = "attached"
    /\ ssh' = [ssh EXCEPT ![s] = "over"]
    /\ reader' = [reader EXCEPT ![s] = IF flag[s] THEN "startOpen" ELSE "startClosed"]
    /\ UNCHANGED <<pty, flag, controlVars, mapVars>>

(* ... and only when it returns can others see the controller.             *)
PublishController(s) ==
    /\ reader[s] \in {"startOpen", "startClosed"}
    /\ ctl' = [ctl EXCEPT ![s] = Controller(reader[s] = "startOpen")]
    /\ worker' = [worker EXCEPT ![s] = Worker]
    /\ reader' = [reader EXCEPT ![s] = "idle"]
    /\ UNCHANGED <<ssh, pty, flag, chan, active, queued, closer, mapVars>>

ChildExits(s) ==
    /\ pty[s] = "up"
    /\ pty' = [pty EXCEPT ![s] = "exited"]
    /\ UNCHANGED <<ssh, actorVars, mapVars>>

------------------------------------------------------------------------------
(* The PTY reader: process_output, submit() and the end of the output.     *)

(* The session's switch, then the controller's: SetAccepting sets both, so *)
(* nothing can happen between the two looks that matters.                  *)
ReadCommand(s) ==
    /\ s \in Talkers
    /\ reader[s] = "idle"
    /\ flag[s] /\ ctl[s] = "open"
    /\ reader' = [reader EXCEPT ![s] = "count"]
    /\ UNCHANGED <<ssh, pty, flag, controlVars, mapVars>>

CountQueued(s) ==
    /\ reader[s] = "count"
    /\ queued' = [queued EXCEPT ![s] = (@ + 1) % CounterSize]
    /\ reader' = [reader EXCEPT ![s] = "recheck"]
    /\ UNCHANGED <<ssh, pty, flag, ctl, worker, chan, active, closer, mapVars>>

(* Fault: submit() trusts its first test.                                  *)
AfterRecheckUnchecked(s) == "send"

AfterRecheck(s) == IF ctl[s] = "open" THEN "send" ELSE "uncount"

Recheck(s) ==
    /\ reader[s] = "recheck"
    /\ reader' = [reader EXCEPT ![s] = AfterRecheck(s)]
    /\ UNCHANGED <<ssh, pty, flag, controlVars, mapVars>>

(* A plain fetch_sub, unlike every other decrement of the counter.         *)
UncountQueued(s) ==
    /\ reader[s] = "uncount"
    /\ queued' = [queued EXCEPT ![s] = (@ - 1) % CounterSize]
    /\ reader' = [reader EXCEPT ![s] = "idle"]
    /\ UNCHANGED <<ssh, pty, flag, ctl, worker, chan, active, closer, mapVars>>

SendCommand(s) ==
    /\ reader[s] = "send"
    /\ worker[s] # "gone" /\ HasRoom(s)
    /\ chan' = [chan EXCEPT ![s] = Append(@, "command")]
    /\ reader' = [reader EXCEPT ![s] = "idle"]
    /\ UNCHANGED <<ssh, pty, flag, ctl, worker, active, queued, closer, mapVars>>

Decremented(n) == IF n = 0 THEN 0 ELSE n - 1

SendCommandFails(s) ==
    /\ reader[s] = "send"
    /\ worker[s] = "gone"
    /\ queued' = [queued EXCEPT ![s] = Decremented(@)]
    /\ reader' = [reader EXCEPT ![s] = "idle"]
    /\ UNCHANGED <<ssh, pty, flag, ctl, worker, chan, active, closer, mapVars>>

(* EOF needs no exit of the child, nor the other way round.                *)
ReaderEof(s) ==
    /\ reader[s] = "idle"
    /\ reader' = [reader EXCEPT ![s] = "eof"]
    /\ ctl' = [ctl EXCEPT ![s] = Switched(s, FALSE)]
    /\ closer' = [closer EXCEPT ![s]["eof"] = IF ctl[s] = "none" THEN "done"
                                             ELSE "sending"]
    /\ UNCHANGED <<ssh, pty, flag, worker, chan, active, queued, mapVars>>

------------------------------------------------------------------------------
(* The transfer worker of a session.                                       *)

(* `active' is stored before anything of the command can be seen.          *)
RecvCommand(s) ==
    /\ worker[s] = "recv"
    /\ NextIs(s, {"command"})
    /\ chan' = [chan EXCEPT ![s] = Tail(@)]
    /\ \E now \in BOOLEAN : active' = [active EXCEPT ![s] = now]
    /\ worker' = [worker EXCEPT ![s] = "work"]
    /\ UNCHANGED <<ssh, pty, reader, flag, ctl, queued, closer, mapVars>>

FinishCommand(s) ==
    /\ worker[s] = "work"
    /\ queued' = [queued EXCEPT ![s] = Decremented(@)]
    /\ worker' = [worker EXCEPT ![s] = "recv"]
    /\ UNCHANGED <<ssh, pty, reader, flag, ctl, chan, active, closer, mapVars>>

(* The last transfer is refused or out of time.                            *)
EndTransfers(s) ==
    /\ worker[s] = "recv"
    /\ active[s]
    /\ active' = [active EXCEPT ![s] = FALSE]
    /\ UNCHANGED <<ssh, pty, reader, flag, ctl, worker, chan, queued, closer, mapVars>>

(* PTY backpressure ran into its deadline, or a blocking task panicked.    *)
WorkerFails(s) ==
    /\ Alive(s)
    /\ worker[s] = "work" \/ active[s]
    /\ worker' = [worker EXCEPT ![s] = "exitActive"]
    /\ UNCHANGED <<ssh, pty, reader, flag, ctl, chan, active, queued, closer, mapVars>>

(* What it has is rejected, and the caller told.                           *)
RecvShutdown(s) ==
    /\ worker[s] = "recv"
    /\ NextIs(s, Closers)
    /\ chan' = [chan EXCEPT ![s] = Tail(@)]
    /\ closer' = [closer EXCEPT ![s][Head(chan[s])] = "done"]
    /\ worker' = [worker EXCEPT ![s] = "exitActive"]
    /\ UNCHANGED <<ssh, pty, reader, flag, ctl, active, queued, mapVars>>

(* Fault: the worker returns without resetting `active'.                  *)
ResetActiveNever(s) ==
    /\ worker[s] = "exitActive"
    /\ worker' = [worker EXCEPT ![s] = "exitQueued"]
    /\ UNCHANGED <<ssh, pty, reader, flag, ctl, chan, active, queued, closer, mapVars>>

(* ActivityReset is dropped before the receiver, a parameter.              *)
ResetActive(s) ==
    /\ worker[s] = "exitActive"
    /\ active' = [active EXCEPT ![s] = FALSE]
    /\ worker' = [worker EXCEPT ![s] = "exitQueued"]
    /\ UNCHANGED <<ssh, pty, reader, flag, ctl, chan, queued, closer, mapVars>>

ResetQueued(s) ==
    /\ worker[s] = "exitQueued"
    /\ queued' = [queued EXCEPT ![s] = 0]
    /\ worker' = [worker EXCEPT ![s] = "exitRx"]
    /\ UNCHANGED <<ssh, pty, reader, flag, ctl, chan, active, closer, mapVars>>

(* Whoever waits for an answer is told by the drop of the queue.           *)
CloseReceiver(s) ==
    /\ worker[s] = "exitRx"
    /\ chan' = [chan EXCEPT ![s] = <<>>]
    /\ closer' = [closer EXCEPT ![s] = [k \in Closers |->
                     IF closer[s][k] = "waiting" THEN "done" ELSE closer[s][k]]]
    /\ worker' = [worker EXCEPT ![s] = "gone"]
    /\ UNCHANGED <<ssh, pty, reader, flag, ctl, active, queued, mapVars>>

------------------------------------------------------------------------------
(* shutdown(), by the reader at EOF and by destroy_session.                *)

SendShutdown(s, k) ==
    /\ closer[s][k] = "sending"
    /\ worker[s] # "gone" /\ HasRoom(s)
    /\ chan' = [chan EXCEPT ![s] = Append(@, k)]
    /\ closer' = [closer EXCEPT ![s][k] = "waiting"]
    /\ UNCHANGED <<ssh, pty, reader, flag, ctl, worker, active, queued, mapVars>>

SendShutdownFails(s, k) ==
    /\ closer[s][k] = "sending"
    /\ worker[s] = "gone"
    /\ closer' = [closer EXCEPT ![s][k] = "done"]
    /\ UNCHANGED <<ssh, pty, reader, flag, ctl, worker, chan, active, queued, mapVars>>

(* Fault: the gate is not taken.                                           *)
DestroyUngated(s) ==
    /\ s \in Mapped
    /\ place' = [place EXCEPT ![s] = "removed"]
    /\ SetAccepting(s, FALSE)
    /\ draining' = draining \cup {s}
    /\ closer' = [closer EXCEPT ![s]["destroy"] = "called"]
    /\ UNCHANGED <<ssh, pty, reader, worker, chan, active, queued, gate>>

Destroy(s) ==
    /\ At("free")
    /\ s \in Mapped
    /\ place' = [place EXCEPT ![s] = "removed"]
    /\ SetAccepting(s, FALSE)
    /\ draining' = draining \cup {s}
    /\ closer' = [closer EXCEPT ![s]["destroy"] = "called"]
    /\ UNCHANGED <<ssh, pty, reader, worker, chan, active, queued, gate>>

(* A spawned task goes on, even if the caller of the RPC has left.         *)
DrainActor(s) ==
    /\ closer[s]["destroy"] = "called"
    /\ ctl' = [ctl EXCEPT ![s] = Switched(s, FALSE)]
    /\ closer' = [closer EXCEPT ![s]["destroy"] = IF ctl[s] = "none" THEN "done"
                                                 ELSE "sending"]
    /\ UNCHANGED <<ssh, pty, reader, flag, worker, chan, active, queued, mapVars>>

(* Fault: the marker is never taken away.                                  *)
UndrainNever(s) ==
    /\ s \in draining
    /\ UNCHANGED vars

Undrain(s) ==
    /\ s \in draining
    /\ closer[s]["destroy"] = "done"
    /\ draining' = draining \ {s}
    /\ UNCHANGED <<ssh, pty, actorVars, place, gate>>

------------------------------------------------------------------------------
(* cleanup_dead_sessions, under the gate: one session after the other,     *)
(* and for each the two loads of has_work().                               *)

BetweenSessions == gate.quiet \cup gate.seen = {}

BeginCleanup ==
    /\ At("free")
    /\ Mapped # {}
    /\ gate' = [Free EXCEPT !.pc = "cleanup", !.todo = Mapped]
    /\ UNCHANGED <<ssh, pty, actorVars, place, draining>>

SkipRunning(s) ==
    /\ At("cleanup") /\ BetweenSessions
    /\ s \in gate.todo /\ IsRunning(s)
    /\ gate' = [gate EXCEPT !.todo = @ \ {s}]
    /\ UNCHANGED <<ssh, pty, actorVars, place, draining>>

QuiesceDead(s) ==
    /\ At("cleanup") /\ BetweenSessions
    /\ s \in gate.todo /\ ~IsRunning(s)
    /\ SetAccepting(s, FALSE)
    /\ gate' = [gate EXCEPT !.todo = @ \ {s}, !.quiet = {s}]
    /\ UNCHANGED <<ssh, pty, reader, worker, chan, active, queued, closer, place,
                   draining>>

JudgeActive(s) ==
    /\ At("cleanup")
    /\ s \in gate.quiet
    /\ gate' = [gate EXCEPT !.quiet = {}, !.seen = IF active[s] THEN {} ELSE {s}]
    /\ UNCHANGED <<ssh, pty, actorVars, place, draining>>

(* Fault: the second load is left out.                                     *)
ReapableAlways(s) == TRUE

Reapable(s) == queued[s] = 0

JudgeQueued(s) ==
    /\ At("cleanup")
    /\ s \in gate.seen
    /\ gate' = [gate EXCEPT !.seen = {},
                            !.dead = IF Reapable(s) THEN @ \cup {s} ELSE @]
    /\ UNCHANGED <<ssh, pty, actorVars, place, draining>>

Reap ==
    /\ At("cleanup") /\ BetweenSessions
    /\ gate.todo = {}
    /\ place' = [s \in Sessions |-> IF s \in gate.dead THEN "removed" ELSE place[s]]
    /\ gate' = Free
    /\ UNCHANGED <<ssh, pty, actorVars, draining>>

------------------------------------------------------------------------------
(* relaunch_daemon: begin_relaunch_transfer_quiesce, perform_relaunch and  *)
(* the drop of the guard, all under the gate.                              *)

BeginRelaunch ==
    /\ At("free")
    /\ gate' = [Free EXCEPT !.pc = "quiesce", !.todo = Mapped]
    /\ UNCHANGED <<ssh, pty, actorVars, place, draining>>

QuiesceOne(s) ==
    /\ At("quiesce")
    /\ s \in gate.todo
    /\ SetAccepting(s, FALSE)
    /\ gate' = [gate EXCEPT !.todo = @ \ {s}]
    /\ UNCHANGED <<ssh, pty, reader, worker, chan, active, queued, closer, place,
                   draining>>

ReadDraining ==
    /\ At("quiesce")
    /\ gate.todo = {}
    /\ gate' = [Free EXCEPT !.pc = "check", !.todo = Mapped, !.busy = (draining # {})]
    /\ UNCHANGED <<ssh, pty, actorVars, place, draining>>

CheckActive(s) ==
    /\ At("check") /\ gate.seen = {}
    /\ s \in gate.todo
    /\ gate' = [gate EXCEPT !.todo = IF active[s] THEN @ \ {s} ELSE @,
                            !.seen = IF active[s] THEN {} ELSE {s},
                            !.busy = @ \/ active[s]]
    /\ UNCHANGED <<ssh, pty, actorVars, place, draining>>

CheckQueued(s) ==
    /\ At("check")
    /\ s \in gate.seen
    /\ gate' = [gate EXCEPT !.todo = @ \ {s}, !.seen = {}, !.busy = @ \/ queued[s] # 0]
    /\ UNCHANGED <<ssh, pty, actorVars, place, draining>>

(* Fault: the guard is given up and nobody is resumed.                     *)
ResumingNone == [Free EXCEPT !.pc = "resume"]

Resuming == [Free EXCEPT !.pc = "resume", !.todo = Mapped]

Decide ==
    /\ At("check")
    /\ gate.todo = {}
    /\ gate' = IF gate.busy THEN Resuming ELSE [Free EXCEPT !.pc = "held"]
    /\ UNCHANGED <<ssh, pty, actorVars, place, draining>>

(* Collecting state, clearing FD flags or exec failed; the guard is        *)
(* dropped, which resumes every session of the map.                        *)
RelaunchFails ==
    /\ At("held")
    /\ gate' = Resuming
    /\ UNCHANGED <<ssh, pty, actorVars, place, draining>>

ResumeOne(s) ==
    /\ At("resume")
    /\ s \in gate.todo
    /\ SetAccepting(s, TRUE)
    /\ gate' = [gate EXCEPT !.todo = @ \ {s}]
    /\ UNCHANGED <<ssh, pty, reader, worker, chan, active, queued, closer, place,
                   draining>>

ReleaseGate ==
    /\ At("resume")
    /\ gate.todo = {}
    /\ gate' = Free
    /\ UNCHANGED <<ssh, pty, actorVars, place, draining>>

Preservable == Mapped \cap LocalSessions

(* The new process restores the sessions with a PTY of their own; it skips *)
(* those it cannot take over, all of them if it cannot read the state.     *)
Restore(restored) ==
    /\ place' = [s \in Sessions |-> IF place[s] = "new" THEN "new"
                                    ELSE IF s \in restored THEN "mapped"
                                    ELSE "removed"]
    /\ reader' = [s \in Sessions |-> IF place[s] = "new" THEN "none"
                                     ELSE IF s \in restored THEN "idle"
                                     ELSE "eof"]
    /\ pty' = [s \in Sessions |-> IF place[s] = "new" \/ s \in restored THEN pty[s]
                                  ELSE "exited"]
    /\ ctl' = [s \in Sessions |-> IF s \in restored THEN Controller(TRUE) ELSE "none"]
    /\ worker' = [s \in Sessions |-> IF s \in restored THEN Worker ELSE "none"]

(* Nothing of the old process's actors, tasks and marks is left.           *)
Exec ==
    /\ At("held")
    /\ Preservable # {}
    /\ \E restored \in SUBSET Preservable : Restore(restored)
    /\ ssh' = [s \in Sessions |-> "over"]
    /\ flag' = [s \in Sessions |-> TRUE]
    /\ chan' = [s \in Sessions |-> <<>>]
    /\ active' = [s \in Sessions |-> FALSE]
    /\ queued' = [s \in Sessions |-> 0]
    /\ closer' = [s \in Sessions |-> [k \in Closers |-> "no"]]
    /\ draining' = {}
    /\ gate' = Free

------------------------------------------------------------------------------

SshTask(s) ==
    \/ SshReturns(s)
    \/ SshAttach(s)
    \/ StartReader(s)
    \/ PublishController(s)
    \/ ChildExits(s)

(* What submit() does once its first test has passed.                      *)
Submitting(s) ==
    \/ CountQueued(s)
    \/ Recheck(s)
    \/ UncountQueued(s)
    \/ SendCommand(s)
    \/ SendCommandFails(s)

WorkerTask(s) ==
    \/ RecvCommand(s)
    \/ FinishCommand(s)
    \/ RecvShutdown(s)
    \/ ResetActive(s)
    \/ ResetQueued(s)
    \/ CloseReceiver(s)

ShutdownTask(s) ==
    \/ \E k \in Closers : SendShutdown(s, k) \/ SendShutdownFails(s, k)
    \/ DrainActor(s)
    \/ Undrain(s)

SessionTask(s) ==
    \/ SshTask(s)
    \/ ReadCommand(s)
    \/ Submitting(s)
    \/ ReaderEof(s)
    \/ WorkerTask(s)
    \/ EndTransfers(s)
    \/ WorkerFails(s)
    \/ ShutdownTask(s)

Cleanup ==
    \/ \E s \in Sessions : SkipRunning(s) \/ QuiesceDead(s)
                           \/ JudgeActive(s) \/ JudgeQueued(s)
    \/ Reap

Relaunch ==
    \/ \E s \in Sessions : QuiesceOne(s) \/ CheckActive(s) \/ CheckQueued(s)
                           \/ ResumeOne(s)
    \/ ReadDraining
    \/ Decide
    \/ RelaunchFails
    \/ ReleaseGate
    \/ Exec

Idle == place = [s \in Sessions |-> "removed"] /\ UNCHANGED vars

Next ==
    \/ \E s \in Sessions : CreateLocal(s) \/ CreateSsh(s) \/ Destroy(s)
    \/ \E s \in Sessions : SessionTask(s)
    \/ BeginCleanup
    \/ Cleanup
    \/ BeginRelaunch
    \/ Relaunch
    \/ Idle

Spec == Init /\ [][Next]_vars

=============================================================================
