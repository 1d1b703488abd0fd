--------------------------- MODULE TtyTransferActor ---------------------------
(***************************************************************************)
(* One session's file-transfer actor in the daemon (ctermd) and everything *)
(* that runs concurrently with it:                                         *)
(*                                                                         *)
(*   - the worker task (run_worker), which owns the authorization state    *)
(*     machine (TtyTransferManager), the pending prompts, the deadlines    *)
(*     and the filesystem staging, and serves one bounded queue;           *)
(*   - the PTY reader, which submits decoded commands and ends at EOF;     *)
(*   - native clients, which answer consent prompts;                       *)
(*   - the two callers of shutdown: EOF and destroy_session;               *)
(*   - the relaunch gate, which quiesces the session and asks has_work().  *)
(*                                                                         *)
(* A step of the model contains at most one access that another task can   *)
(* observe half-way: every load and store of the shared atomics is a step  *)
(* of its own wherever another task's step in between makes a difference.  *)
(***************************************************************************)
EXTENDS TtyTransferManager

CONSTANTS
    Commands,         \* protocol commands the process in the terminal may send
    Clients,          \* native frontends that can answer prompts
    Capacity,         \* COMMAND_QUEUE_CAPACITY
    CounterSize,      \* values of the `queued' counter, 2^64 in the code
    RequestBound,     \* model bound on the consent tokens of one behaviour
    Surroundings      \* model bound: which RPCs besides prompts reach the session

ASSUME ActorAssumption ==
    /\ Commands \subseteq Command
    /\ Capacity \in Nat \ {0}
    /\ CounterSize \in Nat \ {0, 1}
    /\ RequestBound \in Nat
    /\ Surroundings \subseteq {"destroy", "relaunch"}

VARIABLES
    worker,           \* where run_worker is
    job,              \* the message or tick it is working on
    pending,          \* prompts it waits for: request and transfer id
    late,             \* pending requests whose deadline has passed
    idle,             \* approved_idle: transfers with an idle deadline
    stale,            \* those whose idle deadline has passed
    fs,               \* filesystem executor: id -> owner request (0 = none)
    accepting, active, queued, chan,          \* the controller
    reader, readerCmd,                        \* the PTY reader and its command
    client,                                   \* respond() calls
    closer,                                   \* shutdown() calls
    gate,                                     \* begin_relaunch_transfer_quiesce
    registry,                                 \* prompts clients can see
    shown, consented, decided, executed       \* history

workerVars  == <<worker, job, pending, late, idle, stale, fs>>
controlVars == <<accepting, active, queued, chan>>
callerVars  == <<reader, readerCmd, client, closer, gate>>
historyVars == <<shown, consented, decided, executed>>
vars == <<managerVars, workerVars, controlVars, callerVars, registry, historyVars>>

Closers == {"eof", "destroy"}

Message ==
    [kind : {"Protocol"}, cmd : Commands]
    \cup [kind : {"Approval"}, by : Clients, req : Nat, approve : BOOLEAN]
    \cup [kind : {"Shutdown"}, by : Closers]

Job ==
    [kind : {"None"}]
    \cup [kind : {"Protocol"}, id : TransferIds, refresh : BOOLEAN]
    \cup [kind : {"Approval"}, approved : SUBSET TransferIds]
    \cup [kind : {"Shutdown"}, by : Closers]
    \cup [kind : {"Tick"}, due : SUBSET Nat, dueIdle : SUBSET TransferIds]

NoJob == [kind |-> "None"]

NoCommand == [op |-> "None"]

Caller == [pc : {"idle", "sending", "waiting"}, req : Nat, approve : BOOLEAN]

IdleCaller == [pc |-> "idle", req |-> 0, approve |-> FALSE]

Closed == [owner |-> 0, complete |-> FALSE]

WorkerStates == {"recv", "clear", "dispatch",
                 "exitActive", "exitQueued", "exitRx", "gone"}

Alive == worker \in {"recv", "clear", "dispatch"}

PendingRequests == {p.req : p \in pending}

(* Faults: tokens that are never taken off the list; a deadline that only  *)
(* the tick looks at.                                                      *)
PendingForEver(reqs) == pending
AlwaysInTime(req) == TRUE

PendingWithout(reqs) == {p \in pending : p.req \notin reqs}

InTime(req) == req \notin late

HasRoom == Len(chan) < Capacity

Busy == active \/ queued # 0

Init ==
    /\ ManagerInit
    /\ worker = "recv" /\ job = NoJob
    /\ pending = {} /\ late = {} /\ idle = {} /\ stale = {}
    /\ fs = [id \in TransferIds |-> Closed]
    /\ accepting = TRUE /\ active = FALSE /\ queued = 0 /\ chan = <<>>
    /\ reader = "run" /\ readerCmd = NoCommand
    /\ client = [c \in Clients |-> IdleCaller]
    /\ closer = [k \in Closers |-> "idle"]
    /\ gate = "free"
    /\ registry = {}
    /\ shown = {} /\ consented = {} /\ decided = {} /\ executed = {}

------------------------------------------------------------------------------
(* The PTY reader: process_output and controller.submit.                   *)

IsStart(cmd) == cmd.op \in Directions

StartsQueued == Cardinality({i \in DOMAIN chan :
                    chan[i].kind = "Protocol" /\ IsStart(chan[i].cmd)})

(* The first `accepting' test.  A refused command is answered EBUSY or EIO *)
(* and changes nothing.                                                    *)
ReadCommand(cmd) ==
    /\ reader = "run"
    /\ accepting
    /\ IsStart(cmd) => nextRequestId + StartsQueued <= RequestBound
    /\ readerCmd' = cmd
    /\ reader' = "count"
    /\ UNCHANGED <<managerVars, workerVars, controlVars, client, closer, gate,
                   registry, historyVars>>

CountQueued ==
    /\ reader = "count"
    /\ queued' = (queued + 1) % CounterSize
    /\ reader' = "recheck"
    /\ UNCHANGED <<managerVars, workerVars, accepting, active, chan, readerCmd,
                   client, closer, gate, registry, historyVars>>

(* Faults: no second test; a refused command that stays counted.           *)
AfterRecheckUnchecked == "send"
AfterRecheckUncounted == IF accepting THEN "send" ELSE "run"

AfterRecheck == IF accepting THEN "send" ELSE "uncount"

RecheckAccepting ==
    /\ reader = "recheck"
    /\ reader' = AfterRecheck
    /\ UNCHANGED <<managerVars, workerVars, controlVars, readerCmd, client,
                   closer, gate, registry, historyVars>>

(* A plain fetch_sub, unlike every other decrement of the counter.         *)
UncountQueued ==
    /\ reader = "uncount"
    /\ queued' = (queued - 1) % CounterSize
    /\ reader' = "run" /\ readerCmd' = NoCommand
    /\ UNCHANGED <<managerVars, workerVars, accepting, active, chan,
                   client, closer, gate, registry, historyVars>>

SendCommand ==
    /\ reader = "send"
    /\ worker # "gone" /\ HasRoom
    /\ chan' = Append(chan, [kind |-> "Protocol", cmd |-> readerCmd])
    /\ reader' = "run" /\ readerCmd' = NoCommand
    /\ UNCHANGED <<managerVars, workerVars, accepting, active, queued,
                   client, closer, gate, registry, historyVars>>

DecrementQueued == IF queued = 0 THEN 0 ELSE queued - 1

(* Fault: submit() keeps trying a queue nobody reads.                      *)
SendCommandRetries ==
    /\ reader = "send"
    /\ worker = "gone"
    /\ UNCHANGED vars

SendCommandFails ==
    /\ reader = "send"
    /\ worker = "gone"
    /\ queued' = DecrementQueued
    /\ reader' = "run" /\ readerCmd' = NoCommand
    /\ UNCHANGED <<managerVars, workerVars, accepting, active, chan,
                   client, closer, gate, registry, historyVars>>

------------------------------------------------------------------------------
(* Clients: respond_tty_transfer_approval and controller.respond.          *)

(* A token that is not in the registry is refused on the spot.             *)
Respond(c, req, approve) ==
    /\ client[c].pc = "idle"
    /\ req \in registry
    /\ client' = [client EXCEPT ![c] = [pc |-> "sending", req |-> req,
                                        approve |-> approve]]
    /\ consented' = IF approve THEN consented \cup {req} ELSE consented
    /\ UNCHANGED <<managerVars, workerVars, controlVars, reader, readerCmd, closer,
                   gate, registry, shown, decided, executed>>

SendApproval(c) ==
    /\ client[c].pc = "sending"
    /\ worker # "gone" /\ HasRoom
    /\ chan' = Append(chan, [kind |-> "Approval", by |-> c, req |-> client[c].req,
                             approve |-> client[c].approve])
    /\ client' = [client EXCEPT ![c].pc = "waiting"]
    /\ UNCHANGED <<managerVars, workerVars, accepting, active, queued, reader,
                   readerCmd, closer, gate, registry, historyVars>>

SendApprovalFails(c) ==
    /\ client[c].pc = "sending"
    /\ worker = "gone"
    /\ client' = [client EXCEPT ![c] = IdleCaller]
    /\ UNCHANGED <<managerVars, workerVars, controlVars, reader, readerCmd, closer,
                   gate, registry, historyVars>>

------------------------------------------------------------------------------
(* Shutdown callers and the relaunch gate.                                 *)

(* Reader EOF: PtyReader::run leaves its loop and calls shutdown.          *)
ReaderEof ==
    /\ reader = "run"
    /\ reader' = "closed"
    /\ accepting' = FALSE
    /\ closer' = [closer EXCEPT !["eof"] = "sending"]
    /\ UNCHANGED <<managerVars, workerVars, active, queued, chan, readerCmd, client,
                   gate, registry, historyVars>>

(* destroy_session quiesces under the lifecycle gate, then shuts down.     *)
Destroy ==
    /\ "destroy" \in Surroundings
    /\ gate = "free"
    /\ closer["destroy"] = "idle"
    /\ accepting' = FALSE
    /\ closer' = [closer EXCEPT !["destroy"] = "sending"]
    /\ UNCHANGED <<managerVars, workerVars, active, queued, chan, reader, readerCmd,
                   client, gate, registry, historyVars>>

SendShutdown(k) ==
    /\ closer[k] = "sending"
    /\ worker # "gone" /\ HasRoom
    /\ chan' = Append(chan, [kind |-> "Shutdown", by |-> k])
    /\ closer' = [closer EXCEPT ![k] = "waiting"]
    /\ UNCHANGED <<managerVars, workerVars, accepting, active, queued, reader,
                   readerCmd, client, gate, registry, historyVars>>

SendShutdownFails(k) ==
    /\ closer[k] = "sending"
    /\ worker = "gone"
    /\ closer' = [closer EXCEPT ![k] = "clearing"]
    /\ UNCHANGED <<managerVars, workerVars, controlVars, reader, readerCmd, client,
                   gate, registry, historyVars>>

(* Fault: shutdown_tty_transfers leaves the prompts of a dead worker.      *)
ClearNoPrompts(k) ==
    /\ closer[k] = "clearing"
    /\ closer' = [closer EXCEPT ![k] = "done"]
    /\ UNCHANGED <<managerVars, workerVars, controlVars, reader, readerCmd, client,
                   gate, registry, historyVars>>

ClearRegistry(k) ==
    /\ closer[k] = "clearing"
    /\ registry' = {}
    /\ closer' = [closer EXCEPT ![k] = "done"]
    /\ UNCHANGED <<managerVars, workerVars, controlVars, reader, readerCmd, client,
                   gate, historyVars>>

(* A destroyed session is not in the map, so the gate does not see it.     *)
Quiesce ==
    /\ "relaunch" \in Surroundings
    /\ gate = "free"
    /\ closer["destroy"] = "idle"
    /\ accepting' = FALSE
    /\ gate' = "quiesced"
    /\ UNCHANGED <<managerVars, workerVars, active, queued, chan, reader, readerCmd,
                   client, closer, registry, historyVars>>

(* has_work() loads `active' first and `queued' second.                    *)
LoadActive ==
    /\ gate = "quiesced"
    /\ gate' = IF active THEN "busy" ELSE "sawInactive"
    /\ UNCHANGED <<managerVars, workerVars, controlVars, reader, readerCmd, client,
                   closer, registry, historyVars>>

LoadQueued ==
    /\ gate = "sawInactive"
    /\ gate' = IF queued # 0 THEN "busy" ELSE "held"
    /\ UNCHANGED <<managerVars, workerVars, controlVars, reader, readerCmd, client,
                   closer, registry, historyVars>>

(* Relaunch refused, or the guard dropped after a failed exec.             *)
Resume ==
    /\ gate \in {"busy", "held"}
    /\ accepting' = TRUE
    /\ gate' = "free"
    /\ UNCHANGED <<managerVars, workerVars, active, queued, chan, reader, readerCmd,
                   client, closer, registry, historyVars>>

------------------------------------------------------------------------------
(* The worker: receiving.                                                  *)

(* Fault: a command stops counting as soon as it is taken off the queue.   *)
RecvProtocolCountsEarly ==
    /\ worker = "recv"
    /\ chan # <<>> /\ Head(chan).kind = "Protocol"
    /\ Handle(Head(chan).cmd)
    /\ job' = [kind |-> "Protocol", id |-> Head(chan).cmd.id, refresh |-> FALSE]
    /\ active' = (\E id \in TransferIds : sessions'[id].phase # "Absent")
    /\ queued' = DecrementQueued
    /\ chan' = Tail(chan)
    /\ worker' = "clear"
    /\ UNCHANGED <<pending, late, idle, stale, fs, accepting, callerVars, registry,
                   historyVars>>

(* `active' is published before any prompt of this command can be seen.    *)
RecvProtocol ==
    /\ worker = "recv"
    /\ chan # <<>> /\ Head(chan).kind = "Protocol"
    /\ LET cmd == Head(chan).cmd
       IN /\ Handle(cmd)
          /\ job' = [kind |-> "Protocol", id |-> cmd.id,
                     refresh |-> \E i \in DOMAIN actions' : actions'[i].type = "Execute"]
    /\ active' = (\E id \in TransferIds : sessions'[id].phase # "Absent")
    /\ chan' = Tail(chan)
    /\ worker' = "clear"
    /\ UNCHANGED <<pending, late, idle, stale, fs, accepting, queued, callerVars,
                   registry, historyVars>>

(* Take down the prompt of a transfer whose request this command ended.    *)
ClearDismissed ==
    /\ worker = "clear"
    /\ LET reqs == {r \in PendingRequests :
                       ~IsApprovalPending(r) /\ [req |-> r, id |-> job.id] \in pending}
       IN /\ pending' = PendingWithout(reqs)
          /\ late' = late \ reqs
          /\ registry' = registry \ reqs
    /\ worker' = "dispatch"
    /\ UNCHANGED <<managerVars, job, idle, stale, fs, controlVars, callerVars,
                   historyVars>>

(* An answer for a token that is no longer pending.                        *)
RecvStaleApproval ==
    /\ worker = "recv"
    /\ chan # <<>> /\ Head(chan).kind = "Approval"
    /\ Head(chan).req \notin PendingRequests
    /\ client' = [client EXCEPT ![Head(chan).by] = IdleCaller]
    /\ chan' = Tail(chan)
    /\ UNCHANGED <<managerVars, workerVars, accepting, active, queued, reader,
                   readerCmd, closer, gate, registry, historyVars>>

(* An answer that came after the deadline but before the tick saw it.      *)
RecvLateApproval ==
    /\ worker = "recv"
    /\ chan # <<>> /\ Head(chan).kind = "Approval"
    /\ \E p \in pending :
         /\ p.req = Head(chan).req
         /\ ~InTime(p.req)
         /\ pending' = PendingWithout({p.req})
         /\ late' = late \ {p.req}
         /\ registry' = registry \ {p.req}
         /\ Reject(p.req)
    /\ client' = [client EXCEPT ![Head(chan).by] = IdleCaller]
    /\ job' = [kind |-> "Approval", approved |-> {}]
    /\ chan' = Tail(chan)
    /\ worker' = "dispatch"
    /\ UNCHANGED <<idle, stale, fs, accepting, active, queued, reader, readerCmd,
                   closer, gate, historyVars>>

RecvApproval ==
    /\ worker = "recv"
    /\ chan # <<>> /\ Head(chan).kind = "Approval"
    /\ LET approve == Head(chan).approve
       IN \E p \in pending :
            /\ p.req = Head(chan).req
            /\ InTime(p.req)
            /\ pending' = PendingWithout({p.req})
            /\ registry' = registry \ {p.req}
            /\ IF approve THEN Approve(p.req) ELSE Reject(p.req)
            /\ decided' = decided \cup {[req |-> p.req, approve |-> approve]}
            /\ job' = [kind |-> "Approval", approved |-> IF approve THEN {p.id} ELSE {}]
    /\ client' = [client EXCEPT ![Head(chan).by] = IdleCaller]
    /\ chan' = Tail(chan)
    /\ worker' = "dispatch"
    /\ UNCHANGED <<late, idle, stale, fs, accepting, active, queued, reader,
                   readerCmd, closer, gate, shown, consented, executed>>

(* Its sessions are then rejected one by one: see FinishShutdown.          *)
RecvShutdown ==
    /\ worker = "recv"
    /\ chan # <<>> /\ Head(chan).kind = "Shutdown"
    /\ registry' = registry \ PendingRequests
    /\ pending' = {} /\ late' = {} /\ idle' = {} /\ stale' = {}
    /\ job' = [kind |-> "Shutdown", by |-> Head(chan).by]
    /\ chan' = Tail(chan)
    /\ worker' = "dispatch"
    /\ UNCHANGED <<managerVars, fs, accepting, active, queued, callerVars, historyVars>>

------------------------------------------------------------------------------
(* The worker: dispatching the actions the state machine returned.         *)

Dispatching(type) ==
    /\ worker = "dispatch"
    /\ actions # <<>> /\ Head(actions).type = type
    /\ actions' = Tail(actions)

(* Best effort: a full PTY queue drops the response.                       *)
DispatchWrite ==
    /\ Dispatching("Write")
    /\ UNCHANGED <<sessions, nextRequestId, workerVars, controlVars, callerVars,
                   registry, historyVars>>

DispatchRequest ==
    /\ Dispatching("RequestApproval")
    /\ LET a == Head(actions)
       IN /\ pending' = pending \cup {[req |-> a.req, id |-> a.id]}
          /\ registry' = registry \cup {a.req}
          /\ shown' = shown \cup {[req |-> a.req, paths |-> a.paths]}
    /\ UNCHANGED <<sessions, nextRequestId, worker, job, late, idle, stale, fs,
                   controlVars, callerVars, consented, decided, executed>>

(* The filesystem executor opens an entry for a transfer on its first File *)
(* and keeps it until the closing command or an Abort.                     *)
EntryAfter(a) ==
    LET entry  == fs[a.id]
        opened == IF entry.owner = 0 THEN [entry EXCEPT !.owner = a.req] ELSE entry
    IN CASE a.type = "Complete"                           -> [opened EXCEPT !.complete = TRUE]
         [] a.type = "Execute" /\ Closes(a.dir, a.op)     -> Closed
         [] a.type = "Execute" /\ a.op = "File"           -> opened
         [] OTHER                                         -> entry

DispatchExecute ==
    /\ Dispatching("Execute") \/ Dispatching("Complete")
    /\ LET a == Head(actions)
       IN /\ fs' = [fs EXCEPT ![a.id] = EntryAfter(a)]
          /\ executed' = executed \cup {a.req}
    /\ UNCHANGED <<sessions, nextRequestId, worker, job, pending, late, idle, stale,
                   controlVars, callerVars, registry, shown, consented, decided>>

DispatchAbort ==
    /\ Dispatching("Abort")
    /\ fs' = [fs EXCEPT ![Head(actions).id] = Closed]
    /\ UNCHANGED <<sessions, nextRequestId, worker, job, pending, late, idle, stale,
                   controlVars, callerVars, registry, historyVars>>

(* run_worker returns: its local state, staging included, is dropped.      *)
DropWorkerState ==
    /\ sessions' = [id \in TransferIds |-> Absent]
    /\ actions' = <<>>
    /\ pending' = {} /\ late' = {} /\ idle' = {} /\ stale' = {}
    /\ fs' = [id \in TransferIds |-> Closed]
    /\ job' = NoJob
    /\ worker' = "exitActive"
    /\ UNCHANGED nextRequestId

(* PTY backpressure ran into its deadline, or the blocking task panicked.  *)
(* Only a shutdown in progress still reports that it is done.              *)
DispatchFails ==
    /\ worker = "dispatch"
    /\ actions # <<>> /\ Head(actions).type \in {"Execute", "Complete", "Abort"}
    /\ closer' = IF job.kind = "Shutdown"
                 THEN [closer EXCEPT ![job.by] = "clearing"] ELSE closer
    /\ executed' = IF Head(actions).type = "Abort"
                   THEN executed ELSE executed \cup {Head(actions).req}
    /\ DropWorkerState
    /\ UNCHANGED <<controlVars, reader, readerCmd, client, gate, registry, shown,
                   consented, decided>>

------------------------------------------------------------------------------
(* The worker: after the last action of a message or tick.                 *)

Drained(kind) ==
    /\ worker = "dispatch"
    /\ actions = <<>>
    /\ job.kind = kind

(* Idle bookkeeping, then the counter, then `active' (unchanged by now).   *)
FinishProtocol ==
    /\ Drained("Protocol")
    /\ idle' = IF Live(job.id) THEN idle ELSE idle \ {job.id}
    /\ stale' = IF ~Live(job.id) \/ job.refresh THEN stale \ {job.id} ELSE stale
    /\ queued' = DecrementQueued
    /\ active' = (LiveSessions # {})
    /\ job' = NoJob
    /\ worker' = "recv"
    /\ UNCHANGED <<managerVars, pending, late, fs, accepting, chan, callerVars,
                   registry, historyVars>>

FinishApproval ==
    /\ Drained("Approval")
    /\ idle' = idle \cup job.approved
    /\ stale' = stale \ job.approved
    /\ active' = (LiveSessions # {})
    /\ job' = NoJob
    /\ worker' = "recv"
    /\ UNCHANGED <<managerVars, pending, late, fs, accepting, queued, chan, callerVars,
                   registry, historyVars>>

(* reject_all: the sessions of the map in any order.                       *)
RejectNext ==
    /\ Drained("Shutdown")
    /\ \E id \in LiveSessions : RejectSession(id)
    /\ UNCHANGED <<workerVars, controlVars, callerVars, registry, historyVars>>

FinishShutdown ==
    /\ Drained("Shutdown")
    /\ LiveSessions = {}
    /\ closer' = [closer EXCEPT ![job.by] = "clearing"]
    /\ DropWorkerState
    /\ UNCHANGED <<controlVars, reader, readerCmd, client, gate, registry, historyVars>>

------------------------------------------------------------------------------
(* The worker: time, the expiry tick and the way out.                      *)

PromptAges(req) ==
    /\ req \in PendingRequests \ late
    /\ late' = late \cup {req}
    /\ UNCHANGED <<managerVars, worker, job, pending, idle, stale, fs, controlVars,
                   callerVars, registry, historyVars>>

TransferAges(id) ==
    /\ id \in idle \ stale
    /\ stale' = stale \cup {id}
    /\ UNCHANGED <<managerVars, worker, job, pending, late, idle, fs, controlVars,
                   callerVars, registry, historyVars>>

(* Fault: the tick looks at the approved transfers only.                   *)
TickJobForIdle == [kind |-> "Tick", due |-> {}, dueIdle |-> stale]

TickJob == [kind |-> "Tick", due |-> late, dueIdle |-> stale]

(* A tick that finds nothing due changes nothing.                          *)
Tick ==
    /\ worker = "recv"
    /\ late # {} \/ stale # {}
    /\ job' = TickJob
    /\ worker' = "dispatch"
    /\ UNCHANGED <<managerVars, pending, late, idle, stale, fs, controlVars, callerVars,
                   registry, historyVars>>

ExpirePrompt(req) ==
    /\ Drained("Tick")
    /\ req \in job.due
    /\ pending' = PendingWithout({req})
    /\ late' = late \ {req}
    /\ registry' = registry \ {req}
    /\ Reject(req)
    /\ job' = [job EXCEPT !.due = @ \ {req}]
    /\ UNCHANGED <<worker, idle, stale, fs, controlVars, callerVars, historyVars>>

ExpireTransfer(id) ==
    /\ Drained("Tick")
    /\ job.due = {}
    /\ id \in job.dueIdle
    /\ idle' = idle \ {id}
    /\ stale' = stale \ {id}
    /\ RejectSession(id)
    /\ job' = [job EXCEPT !.dueIdle = @ \ {id}]
    /\ UNCHANGED <<worker, pending, late, fs, controlVars, callerVars, registry,
                   historyVars>>

FinishTick ==
    /\ Drained("Tick")
    /\ job.due = {} /\ job.dueIdle = {}
    /\ active' = (LiveSessions # {})
    /\ job' = NoJob
    /\ worker' = "recv"
    /\ UNCHANGED <<managerVars, pending, late, idle, stale, fs, accepting, queued, chan,
                   callerVars, registry, historyVars>>

(* ActivityReset is dropped before the receiver, a parameter.              *)
ResetActive ==
    /\ worker = "exitActive"
    /\ active' = FALSE
    /\ worker' = "exitQueued"
    /\ UNCHANGED <<managerVars, job, pending, late, idle, stale, fs, accepting, queued,
                   chan, callerVars, registry, historyVars>>

ResetQueued ==
    /\ worker = "exitQueued"
    /\ queued' = 0
    /\ worker' = "exitRx"
    /\ UNCHANGED <<managerVars, job, pending, late, idle, stale, fs, accepting, active,
                   chan, callerVars, registry, historyVars>>

(* Fault: callers with a message in the queue are not told.                *)
CloseReceiverSilently ==
    /\ worker = "exitRx"
    /\ worker' = "gone"
    /\ chan' = <<>>
    /\ UNCHANGED <<managerVars, job, pending, late, idle, stale, fs, accepting, active,
                   queued, callerVars, registry, historyVars>>

(* Dropping the queue drops the reply channels of the messages in it.      *)
CloseReceiver ==
    /\ worker = "exitRx"
    /\ worker' = "gone"
    /\ chan' = <<>>
    /\ client' = [c \in Clients |-> IF client[c].pc = "waiting"
                                    THEN IdleCaller ELSE client[c]]
    /\ closer' = [k \in Closers |-> IF closer[k] = "waiting"
                                    THEN "clearing" ELSE closer[k]]
    /\ UNCHANGED <<managerVars, job, pending, late, idle, stale, fs, accepting, active,
                   queued, reader, readerCmd, gate, registry, historyVars>>

------------------------------------------------------------------------------

ReaderNext ==
    \/ \E cmd \in Commands : ReadCommand(cmd)
    \/ CountQueued
    \/ RecheckAccepting
    \/ UncountQueued
    \/ SendCommand
    \/ SendCommandFails
    \/ ReaderEof

ClientNext(c) ==
    \/ \E req \in registry, approve \in BOOLEAN : Respond(c, req, approve)
    \/ SendApproval(c)
    \/ SendApprovalFails(c)

CloserNext(k) ==
    \/ SendShutdown(k)
    \/ SendShutdownFails(k)
    \/ ClearRegistry(k)

GateNext ==
    \/ Quiesce
    \/ LoadActive
    \/ LoadQueued
    \/ Resume

RecvNext ==
    \/ RecvProtocol
    \/ RecvStaleApproval
    \/ RecvLateApproval
    \/ RecvApproval
    \/ RecvShutdown

(* What the worker does on its own once it has taken a message or tick.    *)
WorkNext ==
    \/ ClearDismissed
    \/ DispatchWrite
    \/ DispatchRequest
    \/ DispatchExecute
    \/ DispatchAbort
    \/ DispatchFails
    \/ FinishProtocol
    \/ FinishApproval
    \/ RejectNext
    \/ FinishShutdown
    \/ \E req \in PendingRequests : ExpirePrompt(req)
    \/ \E id \in TransferIds : ExpireTransfer(id)
    \/ FinishTick
    \/ ResetActive
    \/ ResetQueued
    \/ CloseReceiver

TimePasses ==
    \/ \E req \in PendingRequests : PromptAges(req)
    \/ \E id \in TransferIds : TransferAges(id)

(* A session whose terminal has closed may stay as it is.                  *)
Terminated ==
    /\ closer["eof"] = "done"
    /\ closer["destroy"] \in {"idle", "done"}
    /\ \A c \in Clients : client[c].pc = "idle"
    /\ UNCHANGED vars

Next ==
    \/ ReaderNext
    \/ \E c \in Clients : ClientNext(c)
    \/ Destroy
    \/ \E k \in Closers : CloserNext(k)
    \/ GateNext
    \/ RecvNext
    \/ WorkNext
    \/ TimePasses
    \/ Tick
    \/ Terminated

Spec == Init /\ [][Next]_vars
=============================================================================
