------------------------- MODULE TtyTransferProperties -------------------------
(***************************************************************************)
(* What the transfer actor must guarantee.  The runs check these           *)
(* properties on small instances.  For every value of the constants        *)
(* TtyTransferProofs proves TypeOK, ShutdownDrains, QueuedIsExact and      *)
(* GateStopsAdmission, and TtyTransferConsentProofs ConsentInv,            *)
(* ConsentBeforeEffect, DecidedOnce, StagingBelongsToSession,              *)
(* StagingGoneBeforeEnd, ListingWasShown, BookkeepingAgrees,               *)
(* WorkIsVisible, WithdrawnForGood and the refinements KeepsConsent and    *)
(* KeepsOutline.                                                           *)
(***************************************************************************)
EXTENDS TtyTransferActor

WorkerTypeOK ==
    /\ worker \in WorkerStates
    /\ job \in Job
    /\ pending \in SUBSET [req : Nat, id : TransferIds]
    /\ late \in SUBSET Nat
    /\ idle \in SUBSET TransferIds
    /\ stale \in SUBSET TransferIds
    /\ fs \in [TransferIds -> [owner : Nat, complete : BOOLEAN]]

ControlTypeOK ==
    /\ accepting \in BOOLEAN
    /\ active \in BOOLEAN
    /\ queued \in 0..(CounterSize - 1)
    /\ chan \in Seq(Message)

CallerTypeOK ==
    /\ reader \in {"run", "count", "recheck", "uncount", "send", "closed"}
    /\ readerCmd \in IF reader \in {"run", "closed"} THEN {NoCommand} ELSE Commands
    /\ client \in [Clients -> Caller]
    /\ closer \in [Closers -> {"idle", "sending", "waiting", "clearing", "done"}]
    /\ gate \in {"free", "quiesced", "sawInactive", "busy", "held"}

PromptTypeOK ==
    /\ registry \in SUBSET Nat
    /\ shown \in SUBSET [req : Nat, paths : Seq(Paths)]
    /\ consented \in SUBSET Nat
    /\ decided \in SUBSET [req : Nat, approve : BOOLEAN]
    /\ executed \in SUBSET Nat

(* Every variable has its type; in particular the reader holds a command   *)
(* exactly while submit() runs.                                            *)
TypeOK ==
    /\ ManagerTypeOK
    /\ WorkerTypeOK
    /\ ControlTypeOK
    /\ CallerTypeOK
    /\ PromptTypeOK

------------------------------------------------------------------------------
(* Safety.                                                                 *)

Asked   == {s.req : s \in shown}
Granted == {d.req : d \in {e \in decided : e.approve}}
Refused == {d.req : d \in {e \in decided : ~e.approve}}

(* The filesystem executor runs a command only for a consent token that    *)
(* some user approved and whose approval the worker accepted; a token that *)
(* was refused never runs (approve, authorized_command, dispatch_actions). *)
ConsentBeforeEffect ==
    /\ executed \subseteq Granted \cap consented
    /\ executed \cap Refused = {}

Waiting(id) == sessions[id].phase \in {"CollectReceivePaths", "AwaitApproval"}

Collecting(id) == sessions[id].phase = "CollectReceivePaths"

Consented == Granted \cap consented

Decided == Granted \cup Refused

(* A request that may be put to the user, or be answered.                  *)
Answerable(req) ==
    /\ req < nextRequestId
    /\ req \notin Decided
    /\ \A id \in TransferIds : Collecting(id) => sessions[id].req # req

SoundAction ==
    {a \in Action : /\ a.type \in {"Execute", "Complete"} => a.req \in Consented
                    /\ a.type = "RequestApproval" => Answerable(a.req)}

SoundSession(id) ==
    /\ sessions[id].phase = "Approved" => sessions[id].req \in Consented
    /\ Waiting(id) => sessions[id].req \notin Decided
    /\ Live(id) => sessions[id].req < nextRequestId

SessionsSound ==
    /\ \A id \in TransferIds : SoundSession(id)
    /\ \A id, other \in TransferIds :
         Live(id) /\ Live(other) /\ sessions[id].req = sessions[other].req => id = other

ActionsSound == actions \in Seq(SoundAction)

PromptsSound == \A p \in pending : Answerable(p.req)

SoundMessage ==
    {m \in Message : m.kind = "Approval" /\ m.approve => m.req \in consented}

AnswersSound ==
    /\ chan \in Seq(SoundMessage)
    /\ \A c \in Clients :
         client[c].pc = "sending" /\ client[c].approve => client[c].req \in consented

HistorySound ==
    /\ executed \subseteq Consented
    /\ Granted \cap Refused = {}
    /\ \A req \in Decided : req < nextRequestId

ListTakenUp == worker = "recv" => actions = <<>>

(* The same promise in every state on the way, strong enough to be kept by *)
(* every single step: queued actions carry only granted commands, answers  *)
(* in flight come from a user, and what may still be shown or answered has *)
(* not been decided (start, approve, reject_session, run_worker).          *)
ConsentInv ==
    /\ TypeOK
    /\ SessionsSound
    /\ ActionsSound
    /\ PromptsSound
    /\ AnswersSound
    /\ HistorySound
    /\ ListTakenUp

(* While a receive session is being listed, which is when local paths are  *)
(* opened, every path comes from the prompt that was shown for exactly     *)
(* this token (collect_receive_path, approve, handle_authorized).          *)
ListingWasShown ==
    worker = "dispatch" /\ actions # <<>> =>
        LET a == Head(actions)
        IN a.type = "Execute" /\ a.dir = "Receive" /\ a.op = "File" /\ ~fs[a.id].complete
           => \E s \in shown : /\ s.req = a.req
                               /\ \E i \in DOMAIN s.paths : s.paths[i] = a.path

(* Between two messages the prompts the worker waits for, the prompts      *)
(* clients can see and the sessions awaiting consent are the same, and the *)
(* transfers with an idle deadline are the approved ones: no session is    *)
(* left without a deadline, no prompt without a session (run_worker).      *)
BookkeepingAgrees ==
    worker = "recv" =>
        /\ pending = {[req |-> sessions[id].req, id |-> id] :
                        id \in {i \in TransferIds : sessions[i].phase = "AwaitApproval"}}
        /\ registry = PendingRequests
        /\ idle = {id \in TransferIds : sessions[id].phase = "Approved"}

(* As long as the worker lives, whoever asks has_work() while a prompt is  *)
(* visible, a session open, a command queued, an action undispatched or a  *)
(* file staged sees a busy actor in every state (run_worker's comment on   *)
(* publishing `active' before the approval event).                         *)
WorkIsVisible ==
    Alive /\ (\/ registry # {} \/ LiveSessions # {} \/ actions # <<>>
              \/ \E i \in DOMAIN chan : chan[i].kind = "Protocol"
              \/ \E id \in TransferIds : fs[id].owner # 0)
    => Busy

(* Files staged under a transfer id belong to the session that holds the   *)
(* id: a peer that ends a session and reuses its id never inherits the     *)
(* staging of an earlier consent (cancel, reject_session,                  *)
(* authorized_command, TtyTransferFilesystem::handle_executable).          *)
StagingBelongsToSession ==
    worker = "recv" =>
        \A id \in TransferIds : fs[id].owner # 0 =>
            /\ sessions[id].phase = "Approved"
            /\ sessions[id].req = fs[id].owner

(* When the peer is told that a session is over, nothing of it is staged   *)
(* any more, so it can retry at once (reject_session's comment).           *)
StagingGoneBeforeEnd ==
    worker = "dispatch" /\ actions # <<>> =>
        LET a == Head(actions)
        IN a.type = "Write" /\ a.ends => fs[a.id] = Closed

(* Of all the answers to one prompt, from all clients, the worker accepts  *)
(* at most one (transfer_prompt_is_replayed_and_exactly_one_decision...).  *)
DecidedOnce ==
    [][RecvApproval => Head(chan).req \notin Granted \cup Refused]_vars

(* When shutdown() returns to destroy_session or to the reader's EOF path, *)
(* staging and sessions are gone for good, and no prompt is left           *)
(* (shutdown_tty_transfers).                                               *)
ShutdownDrains ==
    \A k \in Closers :
        /\ closer[k] \in {"clearing", "done"} =>
              ~Alive /\ LiveSessions = {} /\ \A id \in TransferIds : fs[id] = Closed
        /\ closer[k] = "done" => registry = {}

QueuedCommands == {i \in DOMAIN chan : chan[i].kind = "Protocol"}

(* While the worker lives `queued' is exactly the commands in the queue,   *)
(* in the worker's hands and in a submit() past its increment, although    *)
(* four places in two tasks change it.                                     *)
QueuedIsExact ==
    Alive =>
        queued = Cardinality(QueuedCommands)
                 + (IF job.kind = "Protocol" THEN 1 ELSE 0)
                 + (IF reader \in {"recheck", "uncount", "send"} THEN 1 ELSE 0)

(* Once the gate has seen no work, no command is on its way to the worker  *)
(* and none gets through until it resumes the session                      *)
(* (begin_relaunch_transfer_quiesce, submit's second test).                *)
GateStopsAdmission ==
    gate = "held" /\ Alive =>
        QueuedCommands = {} /\ reader # "send" /\ job.kind # "Protocol"

(* The actor implements the promise made to the user.                      *)
Consent == INSTANCE TransferConsent WITH
    asked     <- Asked,
    overdue   <- late,
    granted   <- Granted,
    withdrawn <- Asked \ (Granted \cup PendingRequests),
    used      <- executed

KeepsConsent == Consent!Spec

(* A request that was refused, dismissed or left to expire never waits for *)
(* an answer again and is never granted, however late an answer to it      *)
(* comes and whoever held its token (respond of the actor, reject).        *)
WithdrawnForGood ==
    [][Asked \ (Granted \cup PendingRequests)
         \subseteq (Asked \ (Granted \cup PendingRequests))']_vars

(* What a relaunch would destroy: a command past the second test of        *)
(* submit() and all that may come of it.                                   *)
Committed ==
    /\ Alive
    /\ \/ reader = "send" \/ QueuedCommands # {} \/ job.kind = "Protocol"
       \/ registry # {} \/ LiveSessions # {} \/ actions # <<>>
       \/ \E id \in TransferIds : fs[id].owner # 0

(* The actor is what the session map takes it to be: work begins only      *)
(* where submit() looks at the switch a second time, never behind a        *)
(* quiesce, by an answer, a timeout or a shutdown, nor in a worker that    *)
(* has returned (submit, quiesce, run_worker).                             *)
Outline == INSTANCE TransferOutline WITH
    open <- accepting,
    work <- Committed,
    gone <- ~Alive

KeepsOutline == Outline!Spec

------------------------------------------------------------------------------
(* What the code says and does not keep.                                   *)

(* begin_relaunch_transfer_quiesce claims to "prove that no actor queue,   *)
(* approval, or approved filesystem session remains" once it holds the     *)
(* guard.                                                                  *)
GuardMeansIdle ==
    gate = "held" /\ Alive => LiveSessions = {} /\ registry = {}

(* The test queued_work_counter_never_wraps_during_worker_shutdown names   *)
(* the promise: taking a command back never makes the counter grow.        *)
CounterNeverWraps ==
    [][UncountQueued => queued' < queued]_vars

------------------------------------------------------------------------------
(* Liveness.  Tasks are scheduled, queue slots are handed out in order,    *)
(* select! picks among its ready branches at random, and time passes.      *)

Fairness ==
    /\ WF_vars(CountQueued) /\ WF_vars(RecheckAccepting) /\ WF_vars(UncountQueued)
    /\ SF_vars(SendCommand) /\ WF_vars(SendCommandFails)
    /\ \A c \in Clients : SF_vars(SendApproval(c)) /\ WF_vars(SendApprovalFails(c))
    /\ \A k \in Closers : /\ SF_vars(SendShutdown(k)) /\ WF_vars(SendShutdownFails(k))
                          /\ WF_vars(ClearRegistry(k))
    /\ SF_vars(RecvNext) /\ SF_vars(Tick)
    /\ WF_vars(WorkNext)
    /\ \A req \in 1..RequestBound : WF_vars(PromptAges(req))

FairSpec == Spec /\ Fairness

(* respond() always returns: every answer a client sends is accepted or    *)
(* refused, even when the worker dies with the answer in its queue.        *)
RespondReturns == \A c \in Clients : client[c].pc # "idle" ~> client[c].pc = "idle"

(* shutdown() always returns, however many shut down, whatever fails.      *)
ShutdownReturns == \A k \in Closers : closer[k] = "sending" ~> closer[k] = "done"

(* submit() never leaves the PTY reader hanging on a full or dead queue.   *)
SubmitReturns == reader = "count" ~> reader \in {"run", "closed"}

(* No consent prompt stays open for ever, whoever looks away.              *)
PromptResolves ==
    \A req \in 1..RequestBound : req \in PendingRequests ~> req \notin PendingRequests
=============================================================================
