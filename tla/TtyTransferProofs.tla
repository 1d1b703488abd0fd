--------------------------- MODULE TtyTransferProofs ---------------------------
(***************************************************************************)
(* Type correctness of the transfer actor, what is left when shutdown      *)
(* returns, and the exactness of the queue counter, for every number of    *)
(* transfers, clients, queue slots and commands.                           *)
(***************************************************************************)
EXTENDS TtyTransferProperties, SequenceTheorems, FiniteSetTheorems, TLAPS

USE BoundsAssumption, OptionAssumption, ActorAssumption

------------------------------------------------------------------------------
(* Type correctness of the authorization state machine.                    *)

(* A function on 1..n is a sequence.                                       *)
LEMMA FunctionIsSeq ==
    ASSUME NEW S, NEW n \in Nat, NEW f \in [1..n -> S]
    PROVE  f \in Seq(S)
BY SeqDef

(* Commands that reach the state machine are decoded protocol commands.    *)
LEMMA CommandTyped ==
    ASSUME NEW cmd \in Commands
    PROVE  /\ cmd.op \in Operations
           /\ cmd.id \in TransferIds
           /\ cmd.file \in FileIds \cup {NoFile}
           /\ cmd.path \in Paths \cup {NoPath}
           /\ cmd.size \in Nat \cup {NoSize}
           /\ cmd.quiet \in 0..2
BY DEF Command

(* Every session record has its type.                                      *)
LEMMA SessionTyped ==
    ASSUME ManagerTypeOK, NEW id \in TransferIds
    PROVE  /\ sessions[id] \in Session
           /\ sessions[id].phase \in Phases
           /\ sessions[id].dir \in Directions
           /\ sessions[id].quiet \in 0..2
           /\ sessions[id].req \in Nat
           /\ sessions[id].expected \in Nat
           /\ sessions[id].wanted \in Seq(Wanted)
BY DEF ManagerTypeOK, Session

(* A free slot is a session record too.                                    *)
LEMMA AbsentTyped == Absent \in Session
BY DEF Absent, Session, Phases, Directions

(* The four kinds of reply are actions, and so is any concatenation.       *)
LEMMA WriteTyped ==
    ASSUME NEW id \in TransferIds, NEW ends \in BOOLEAN
    PROVE  [type |-> "Write", id |-> id, ends |-> ends] \in Action
BY DEF Action

(* An authorized command is an action.                                     *)
LEMMA ExecuteTyped ==
    ASSUME NEW id \in TransferIds, NEW req \in Nat, NEW dir \in Directions,
           NEW op \in Operations, NEW path \in Paths \cup {NoPath}
    PROVE  [type |-> "Execute", id |-> id, req |-> req, dir |-> dir,
            op |-> op, path |-> path] \in Action
BY DEF Action

(* A status reply is empty or one write.                                   *)
LEMMA StatusTyped ==
    ASSUME NEW id \in TransferIds, NEW quiet, NEW isError, NEW ends \in BOOLEAN
    PROVE  StatusResponse(id, quiet, isError, ends) \in Seq(Action)
BY WriteTyped DEF StatusResponse

(* So is the reply that ends a session.                                    *)
LEMMA FarewellTyped ==
    ASSUME NEW id \in TransferIds, NEW isError
    PROVE  Farewell(id, isError) \in Seq(Action)
<1>1. [type |-> "Abort", id |-> id] \in Action
  BY DEF Action
<1>2. (IF sessions[id].phase = "Approved" THEN AbortOf(id) ELSE <<>>) \in Seq(Action)
  BY <1>1 DEF AbortOf
<1>3. StatusResponse(id, sessions[id].quiet, isError, TRUE) \in Seq(Action)
  BY StatusTyped
<1> QED
  BY <1>2, <1>3, ConcatProperties DEF Farewell

(* A path a session asks for is a path.                                    *)
LEMMA WantedTyped ==
    ASSUME NEW wanted \in Seq(Wanted), NEW i \in DOMAIN wanted
    PROVE  wanted[i].file \in FileIds /\ wanted[i].path \in Paths
<1>1. wanted[i] \in Wanted
  BY LenProperties, ElementOfSeq
<1> QED
  BY <1>1 DEF Wanted

(* A consent request names only paths.                                     *)
LEMMA RequestTyped ==
    ASSUME NEW id \in TransferIds, NEW session \in Session
    PROVE  Request(id, session) \in Action
<1>1. session.wanted \in Seq(Wanted) /\ session.req \in Nat
  BY DEF Session
<1>2. [i \in DOMAIN session.wanted |-> session.wanted[i].path] \in Seq(Paths)
  <2>1. Len(session.wanted) \in Nat /\ DOMAIN session.wanted = 1..Len(session.wanted)
    BY <1>1, LenProperties
  <2>2. \A i \in DOMAIN session.wanted : session.wanted[i].path \in Paths
    BY <1>1, WantedTyped
  <2>3. [i \in DOMAIN session.wanted |-> session.wanted[i].path]
        \in [1..Len(session.wanted) -> Paths]
    BY <2>1, <2>2
  <2> QED
    BY <2>1, <2>3, FunctionIsSeq, Zenon
<1> QED
  BY <1>1, <1>2 DEF Request, Action

(* The listing of an approved receive session is a list of actions.        *)
LEMMA ListingTyped ==
    ASSUME NEW id \in TransferIds, NEW session \in Session
    PROVE  ListingOf(id, session) \in Seq(Action)
<1> DEFINE reads == [i \in DOMAIN session.wanted |->
               AuthorizedCommand(id, session, "File", session.wanted[i].path)]
<1>1. session.wanted \in Seq(Wanted) /\ session.req \in Nat /\ session.dir \in Directions
  BY DEF Session
<1>2. \A i \in DOMAIN session.wanted : session.wanted[i].path \in Paths
  BY <1>1, WantedTyped
<1>3. \A i \in DOMAIN session.wanted :
         AuthorizedCommand(id, session, "File", session.wanted[i].path) \in Action
  BY <1>1, <1>2, ExecuteTyped DEF AuthorizedCommand, Operations
<1>4. reads \in Seq(Action)
  <2>1. Len(session.wanted) \in Nat /\ DOMAIN session.wanted = 1..Len(session.wanted)
    BY <1>1, LenProperties
  <2>2. reads \in [1..Len(session.wanted) -> Action]
    BY <1>3, <2>1
  <2> QED
    BY <2>1, <2>2, FunctionIsSeq, Zenon
<1>5. [type |-> "Complete", id |-> id, req |-> session.req] \in Action
  BY <1>1 DEF Action
<1> QED
  BY <1>4, <1>5, ConcatProperties DEF ListingOf

(* Returning actions without touching the sessions keeps the types.        *)
LEMMA AnswerTyped ==
    ASSUME ManagerTypeOK, NEW reply \in Seq(Action), Answer(reply)
    PROVE  ManagerTypeOK'
BY DEF Answer, ManagerTypeOK

(* Ending a session keeps the types.                                       *)
LEMMA EndTyped ==
    ASSUME ManagerTypeOK, NEW id \in TransferIds, NEW reply \in Seq(Action),
           EndSession(id, reply)
    PROVE  ManagerTypeOK'
BY AbsentTyped DEF EndSession, ManagerTypeOK

(* So does returning nothing.                                              *)
LEMMA NothingTyped ==
    ASSUME ManagerTypeOK, Answer(<<>>)
    PROVE  ManagerTypeOK'
BY DEF Answer, ManagerTypeOK

(* Opening a session keeps the types.                                      *)
LEMMA StartTyped ==
    ASSUME ManagerTypeOK, NEW cmd \in Commands, Start(cmd, cmd.op), cmd.op \in Directions
    PROVE  ManagerTypeOK'
<1> USE CommandTyped
<1>1. CASE StartRefused(cmd, cmd.op) /\ Answer(ErrorResponse(cmd))
  BY <1>1, AnswerTyped, StatusTyped DEF ErrorResponse
<1>2. CASE ~StartRefused(cmd, cmd.op)
  <2> DEFINE session == NewSession(cmd, cmd.op)
  <2>1. session \in Session
    BY <1>2 DEF StartRefused, NewSession, ManagerTypeOK, Session, Phases
  <2>2. Request(cmd.id, session) \in Action
    BY <2>1, RequestTyped
  <2> HIDE DEF session
  <2>3. CASE ~StartRefused(cmd, cmd.op)
             /\ sessions' = [sessions EXCEPT ![cmd.id] = session]
             /\ actions' = (IF session.phase = "AwaitApproval"
                            THEN <<Request(cmd.id, session)>> ELSE <<>>)
             /\ nextRequestId' = nextRequestId + 1
    BY <2>1, <2>2, <2>3 DEF ManagerTypeOK
  <2> QED
    BY <1>2, <2>3 DEF Start, session
<1> QED
  BY <1>1, <1>2 DEF Start

(* Collecting a path keeps the types.                                      *)
LEMMA CollectTyped ==
    ASSUME ManagerTypeOK, NEW cmd \in Commands, CollectReceivePath(cmd)
    PROVE  ManagerTypeOK'
<1> USE CommandTyped
<1> DEFINE session == sessions[cmd.id]
           grown == [session EXCEPT !.wanted = Append(@, [file |-> cmd.file, path |-> cmd.path])]
           final == [grown EXCEPT !.phase = "AwaitApproval"]
           isValid == cmd.op = "File" /\ cmd.file # NoFile /\ cmd.path # NoPath
<1>1. CASE EndSession(cmd.id, Farewell(cmd.id, TRUE))
  BY <1>1, EndTyped, FarewellTyped
<1>2. CASE isValid /\ ~EndSession(cmd.id, Farewell(cmd.id, TRUE))
  <2>1. session \in Session /\ session.wanted \in Seq(Wanted)
    BY SessionTyped
  <2>2. [file |-> cmd.file, path |-> cmd.path] \in Wanted
    BY <1>2 DEF Wanted
  <2>3. Append(session.wanted, [file |-> cmd.file, path |-> cmd.path]) \in Seq(Wanted)
    BY <2>1, <2>2, AppendProperties
  <2>4. grown \in Session
    BY <2>1, <2>3 DEF Session
  <2>5. final \in Session
    BY <2>4 DEF Session, Phases
  <2>6. Request(cmd.id, grown) \in Action
    BY <2>4, RequestTyped
  <2> HIDE DEF grown, final
  <2>7. \/ /\ sessions' = [sessions EXCEPT ![cmd.id] = grown]
           /\ actions' = <<>>
           /\ UNCHANGED nextRequestId
        \/ /\ sessions' = [sessions EXCEPT ![cmd.id] = final]
           /\ actions' = <<Request(cmd.id, grown)>>
           /\ UNCHANGED nextRequestId
    BY <1>2 DEF CollectReceivePath, grown, final
  <2>8. <<>> \in Seq(Action) /\ <<Request(cmd.id, grown)>> \in Seq(Action)
    BY <2>6
  <2>9. actions' \in Seq(Action)
    BY <2>7, <2>8, Zenon
  <2>10. sessions' \in [TransferIds -> Session]
    BY <2>4, <2>5, <2>7 DEF ManagerTypeOK
  <2> QED
    BY <2>7, <2>9, <2>10 DEF ManagerTypeOK
<1> QED
  BY <1>1, <1>2 DEF CollectReceivePath

(* A command of an approved session keeps the types.                       *)
LEMMA ApprovedCommandTyped ==
    ASSUME ManagerTypeOK, NEW cmd \in Commands, CommandOfApproved(cmd)
    PROVE  ManagerTypeOK'
<1> USE CommandTyped
<1> DEFINE execute == <<AuthorizedCommand(cmd.id, sessions[cmd.id], cmd.op, cmd.path)>>
<1>1. execute \in Seq(Action)
  BY SessionTyped, ExecuteTyped DEF AuthorizedCommand
<1>2. \/ EndSession(cmd.id, Farewell(cmd.id, TRUE))
      \/ EndSession(cmd.id, execute)
      \/ Answer(execute)
  BY DEF CommandOfApproved
<1> QED
  BY <1>1, <1>2, EndTyped, AnswerTyped, FarewellTyped

(* Handling one command keeps the types.                                   *)
LEMMA HandleTyped ==
    ASSUME ManagerTypeOK, NEW cmd \in Commands, Handle(cmd)
    PROVE  ManagerTypeOK'
<1> USE CommandTyped
<1>1. ErrorResponse(cmd) \in Seq(Action)
  BY StatusTyped DEF ErrorResponse
<1>2. CASE cmd.op \in Directions /\ Start(cmd, cmd.op)
  BY <1>2, StartTyped
<1>3. CASE Cancel(cmd)
  BY <1>1, <1>3, AnswerTyped, EndTyped, FarewellTyped DEF Cancel
<1>4. CASE ContinueSession(cmd)
  <2>1. \/ Answer(ErrorResponse(cmd))
        \/ CollectReceivePath(cmd)
        \/ EndSession(cmd.id, Farewell(cmd.id, TRUE))
        \/ CommandOfApproved(cmd)
    BY <1>4 DEF ContinueSession
  <2>2. CASE Answer(ErrorResponse(cmd))
    BY <1>1, <2>2, AnswerTyped
  <2>3. CASE CollectReceivePath(cmd)
    BY <2>3, CollectTyped
  <2>4. CASE EndSession(cmd.id, Farewell(cmd.id, TRUE))
    BY <2>4, EndTyped, FarewellTyped
  <2>5. CASE CommandOfApproved(cmd)
    BY <2>5, ApprovedCommandTyped
  <2> QED
    BY <2>1, <2>2, <2>3, <2>4, <2>5
<1> QED
  BY <1>2, <1>3, <1>4 DEF Handle

(* Approving keeps the types.                                              *)
LEMMA ApproveTyped ==
    ASSUME ManagerTypeOK, NEW req \in Nat, Approve(req)
    PROVE  ManagerTypeOK'
<1>1. CASE Answer(<<>>)
  BY <1>1, NothingTyped
<1>2. CASE ~Answer(<<>>)
  <2>1. PICK id \in TransferIds :
           /\ sessions' = [sessions EXCEPT ![id].phase = "Approved", ![id].wanted = <<>>]
           /\ actions' = StatusResponse(id, sessions[id].quiet, FALSE, FALSE)
                         \o IF sessions[id].dir = "Receive"
                            THEN ListingOf(id, sessions[id]) ELSE <<>>
           /\ UNCHANGED nextRequestId
    BY <1>2 DEF Approve, SessionForRequest
  <2> DEFINE listing == IF sessions[id].dir = "Receive"
                        THEN ListingOf(id, sessions[id]) ELSE <<>>
  <2>2. StatusResponse(id, sessions[id].quiet, FALSE, FALSE) \in Seq(Action)
    BY StatusTyped
  <2>3. listing \in Seq(Action)
    BY SessionTyped, ListingTyped
  <2>4. actions' \in Seq(Action)
    BY <2>1, <2>2, <2>3, ConcatProperties
  <2>5. [sessions[id] EXCEPT !.phase = "Approved", !.wanted = <<>>] \in Session
    <3>1. sessions[id] \in Session
      BY SessionTyped
    <3>2. <<>> \in Seq(Wanted) /\ "Approved" \in Phases
      BY DEF Phases
    <3> QED
      BY <3>1, <3>2 DEF Session
  <2>6. sessions' = [sessions EXCEPT
                       ![id] = [sessions[id] EXCEPT !.phase = "Approved", !.wanted = <<>>]]
    BY <2>1 DEF ManagerTypeOK
  <2>7. sessions' \in [TransferIds -> Session]
    BY <2>5, <2>6 DEF ManagerTypeOK
  <2> QED
    BY <2>1, <2>4, <2>7 DEF ManagerTypeOK
<1> QED
  BY <1>1, <1>2

(* Rejecting keeps the types.                                              *)
LEMMA RejectSessionTyped ==
    ASSUME ManagerTypeOK, NEW id \in TransferIds, RejectSession(id)
    PROVE  ManagerTypeOK'
<1>1. CASE Answer(<<>>)
  BY <1>1, NothingTyped
<1>2. CASE EndSession(id, Farewell(id, TRUE))
  BY <1>2, EndTyped, FarewellTyped
<1> QED
  BY <1>1, <1>2 DEF RejectSession

(* Rejecting by token keeps the types.                                     *)
LEMMA RejectTyped ==
    ASSUME ManagerTypeOK, NEW req, Reject(req)
    PROVE  ManagerTypeOK'
<1>1. CASE Answer(<<>>)
  BY <1>1, NothingTyped
<1>2. CASE \E id \in SessionForRequest(req) : RejectSession(id)
  BY <1>2, RejectSessionTyped DEF SessionForRequest
<1> QED
  BY <1>1, <1>2 DEF Reject

------------------------------------------------------------------------------
(* Type correctness of the actor.                                          *)

(* What the worker takes off its queue and off its list of actions.        *)
LEMMA HeadMessageTyped ==
    ASSUME ControlTypeOK, chan # <<>>
    PROVE  /\ Head(chan) \in Message
           /\ Tail(chan) \in Seq(Message)
           /\ Head(chan).kind = "Protocol" => Head(chan).cmd \in Commands
           /\ Head(chan).kind = "Approval" =>
                 /\ Head(chan).by \in Clients
                 /\ Head(chan).req \in Nat
                 /\ Head(chan).approve \in BOOLEAN
           /\ Head(chan).kind = "Shutdown" => Head(chan).by \in Closers
<1>1. Head(chan) \in Message /\ Tail(chan) \in Seq(Message)
  BY HeadTailProperties DEF ControlTypeOK
<1> QED
  BY <1>1 DEF Message

(* The first action of a list is an action, the rest is a list.            *)
LEMMA HeadActionTyped ==
    ASSUME ManagerTypeOK, actions # <<>>
    PROVE  /\ Head(actions) \in Action
           /\ Tail(actions) \in Seq(Action)
           /\ Head(actions).id \in TransferIds
           /\ Head(actions).type \in {"RequestApproval", "Execute", "Complete"} =>
                 Head(actions).req \in Nat
           /\ Head(actions).type = "RequestApproval" => Head(actions).paths \in Seq(Paths)
<1>1. Head(actions) \in Action /\ Tail(actions) \in Seq(Action)
  BY HeadTailProperties DEF ManagerTypeOK
<1> QED
  BY <1>1 DEF Action

(* The counter wraps, so it never leaves its range.                        *)
LEMMA CounterTyped ==
    ASSUME ControlTypeOK
    PROVE  /\ (queued + 1) % CounterSize \in 0..(CounterSize - 1)
           /\ (queued - 1) % CounterSize \in 0..(CounterSize - 1)
           /\ DecrementQueued \in 0..(CounterSize - 1)
BY DEF ControlTypeOK, DecrementQueued

(* The initial states are well typed.                                      *)
LEMMA TypeInit == Init => TypeOK
<1> SUFFICES ASSUME Init PROVE TypeOK
  OBVIOUS
<1>1. ManagerTypeOK
  BY AbsentTyped DEF Init, ManagerInit, ManagerTypeOK
<1>2. WorkerTypeOK
  BY DEF Init, WorkerTypeOK, WorkerStates, Job, NoJob, Closed
<1>3. ControlTypeOK
  <2>1. chan \in Seq(Message)
    BY DEF Init
  <2>2. 0 \in 0..(CounterSize - 1)
    OBVIOUS
  <2> QED
    BY <2>1, <2>2 DEF Init, ControlTypeOK
<1>4. CallerTypeOK
  BY DEF Init, CallerTypeOK, Caller, IdleCaller
<1>5. PromptTypeOK
  BY DEF Init, PromptTypeOK
<1> QED
  BY <1>1, <1>2, <1>3, <1>4, <1>5 DEF TypeOK

(* The steps of the PTY reader.                                            *)
LEMMA ReaderTyped == TypeOK /\ ReaderNext => TypeOK'
<1> SUFFICES ASSUME TypeOK, ReaderNext PROVE TypeOK'
  OBVIOUS
<1> USE DEF TypeOK, ManagerTypeOK, WorkerTypeOK, ControlTypeOK, CallerTypeOK, PromptTypeOK,
        managerVars, workerVars, controlVars, historyVars
<1>1. ASSUME NEW cmd \in Commands, ReadCommand(cmd) PROVE TypeOK'
  BY <1>1 DEF ReadCommand
<1>2. CASE CountQueued
  BY <1>2, CounterTyped DEF CountQueued
<1>3. CASE RecheckAccepting
  BY <1>3 DEF RecheckAccepting, AfterRecheck
<1>4. CASE UncountQueued
  BY <1>4, CounterTyped DEF UncountQueued
<1>5. CASE SendCommand
  BY <1>5 DEF SendCommand, Message
<1>6. CASE SendCommandFails
  BY <1>6, CounterTyped DEF SendCommandFails
<1>7. CASE ReaderEof
  BY <1>7 DEF ReaderEof, Closers
<1> QED
  BY <1>1, <1>2, <1>3, <1>4, <1>5, <1>6, <1>7 DEF ReaderNext

(* The steps of a client.                                                  *)
LEMMA ClientTyped ==
    ASSUME TypeOK, NEW c \in Clients, ClientNext(c)
    PROVE  TypeOK'
<1> USE DEF TypeOK, ManagerTypeOK, WorkerTypeOK, ControlTypeOK, CallerTypeOK, PromptTypeOK,
        managerVars, workerVars, controlVars, historyVars
<1>1. ASSUME NEW req \in registry, NEW approve \in BOOLEAN, Respond(c, req, approve)
      PROVE  TypeOK'
  BY <1>1 DEF Respond, Caller
<1>2. CASE SendApproval(c)
  <2>1. client[c] \in Caller
    OBVIOUS
  <2>2. [kind |-> "Approval", by |-> c, req |-> client[c].req,
         approve |-> client[c].approve] \in Message
    BY <2>1 DEF Message, Caller
  <2>3. ControlTypeOK'
    BY <1>2, <2>2 DEF SendApproval
  <2>4. CallerTypeOK'
    BY <1>2, <2>1 DEF SendApproval, Caller
  <2> QED
    BY <1>2, <2>3, <2>4 DEF SendApproval
<1>3. CASE SendApprovalFails(c)
  BY <1>3 DEF SendApprovalFails, Caller, IdleCaller
<1> QED
  BY <1>1, <1>2, <1>3 DEF ClientNext

(* The steps of the callers of shutdown and of the relaunch gate.          *)
LEMMA ControlTyped ==
    ASSUME TypeOK, Destroy \/ (\E k \in Closers : CloserNext(k)) \/ GateNext
    PROVE  TypeOK'
<1> USE DEF TypeOK, ManagerTypeOK, WorkerTypeOK, ControlTypeOK, CallerTypeOK, PromptTypeOK,
        managerVars, workerVars, controlVars, historyVars
<1>1. CASE Destroy
  BY <1>1 DEF Destroy
<1>2. ASSUME NEW k \in Closers, SendShutdown(k) PROVE TypeOK'
  BY <1>2 DEF SendShutdown, Message
<1>3. ASSUME NEW k \in Closers, SendShutdownFails(k) PROVE TypeOK'
  BY <1>3 DEF SendShutdownFails
<1>4. ASSUME NEW k \in Closers, ClearRegistry(k) PROVE TypeOK'
  BY <1>4 DEF ClearRegistry
<1>5. CASE GateNext
  BY <1>5 DEF GateNext, Quiesce, LoadActive, LoadQueued, Resume
<1> QED
  BY <1>1, <1>2, <1>3, <1>4, <1>5 DEF CloserNext

(* Taking a message off the queue.                                         *)
LEMMA RecvTyped == TypeOK /\ RecvNext => TypeOK'
<1> SUFFICES ASSUME TypeOK, RecvNext PROVE TypeOK'
  OBVIOUS
<1> USE HeadMessageTyped
<1> USE DEF TypeOK, WorkerTypeOK, ControlTypeOK, CallerTypeOK, PromptTypeOK,
        managerVars, workerVars, controlVars, callerVars, historyVars, WorkerStates
<1>1. CASE RecvProtocol
  <2>1. ManagerTypeOK'
    BY <1>1, HandleTyped DEF RecvProtocol
  <2>2. Head(chan).cmd \in Commands
    BY <1>1 DEF RecvProtocol
  <2>3. Head(chan).cmd.id \in TransferIds
    BY <2>2, CommandTyped
  <2>4. job' \in Job
    BY <1>1, <2>3 DEF RecvProtocol, Job
  <2> QED
    BY <1>1, <2>1, <2>4 DEF RecvProtocol
<1>2. CASE RecvStaleApproval
  BY <1>2 DEF RecvStaleApproval, ManagerTypeOK, Caller, IdleCaller
<1>3. CASE RecvLateApproval
  <2>1. ManagerTypeOK'
    BY <1>3, RejectTyped DEF RecvLateApproval
  <2>2. job' \in Job
    BY <1>3 DEF RecvLateApproval, Job
  <2> QED
    BY <1>3, <2>1, <2>2 DEF RecvLateApproval, PendingWithout, Caller, IdleCaller
<1>4. CASE RecvApproval
  <2>1. PICK p \in pending :
          /\ p.req = Head(chan).req
          /\ pending' = PendingWithout({p.req})
          /\ registry' = registry \ {p.req}
          /\ IF Head(chan).approve THEN Approve(p.req) ELSE Reject(p.req)
          /\ decided' = decided \cup {[req |-> p.req, approve |-> Head(chan).approve]}
          /\ job' = [kind |-> "Approval",
                     approved |-> IF Head(chan).approve THEN {p.id} ELSE {}]
    BY <1>4 DEF RecvApproval
  <2>2. p.req \in Nat /\ p.id \in TransferIds
    OBVIOUS
  <2>3. ManagerTypeOK'
    BY <2>1, <2>2, ApproveTyped, RejectTyped
  <2>4. job' \in Job
    BY <2>1, <2>2 DEF Job
  <2>5. WorkerTypeOK'
    BY <1>4, <2>1, <2>4 DEF RecvApproval, PendingWithout
  <2>6. client' \in [Clients -> Caller]
    BY <1>4 DEF RecvApproval, Caller, IdleCaller
  <2>7. registry' \in SUBSET Nat
    BY <2>1
  <2>8. decided' \in SUBSET [req : Nat, approve : BOOLEAN]
    BY <1>4, <2>1, <2>2 DEF RecvApproval
  <2> QED
    BY <1>4, <2>3, <2>5, <2>6, <2>7, <2>8 DEF RecvApproval
<1>5. CASE RecvShutdown
  <2>1. job' \in Job
    BY <1>5 DEF RecvShutdown, Job
  <2> QED
    BY <1>5, <2>1 DEF RecvShutdown, ManagerTypeOK
<1> QED
  BY <1>1, <1>2, <1>3, <1>4, <1>5 DEF RecvNext

(* What the worker leaves behind when it returns is well typed.            *)
LEMMA DropTyped ==
    ASSUME TypeOK, DropWorkerState
    PROVE  ManagerTypeOK' /\ WorkerTypeOK'
<1>1. ManagerTypeOK'
  BY AbsentTyped DEF TypeOK, DropWorkerState, ManagerTypeOK
<1>2. job' \in Job
  BY DEF DropWorkerState, Job, NoJob
<1> QED
  BY <1>1, <1>2 DEF DropWorkerState, WorkerTypeOK, WorkerStates, Closed

(* Dispatching one action of the state machine.                            *)
LEMMA DispatchTyped ==
    ASSUME TypeOK, DispatchWrite \/ DispatchRequest \/ DispatchExecute
                   \/ DispatchAbort \/ DispatchFails
    PROVE  TypeOK'
<1> USE HeadActionTyped
<1> USE DEF TypeOK, WorkerTypeOK, ControlTypeOK, CallerTypeOK, PromptTypeOK,
        managerVars, workerVars, controlVars, callerVars, historyVars
<1>1. ASSUME NEW type, Dispatching(type), UNCHANGED <<sessions, nextRequestId>>
      PROVE  ManagerTypeOK' /\ Head(actions).id \in TransferIds
  BY <1>1 DEF Dispatching, ManagerTypeOK
<1>2. CASE DispatchWrite
  BY <1>1, <1>2 DEF DispatchWrite
<1>3. CASE DispatchRequest
  <2>1. /\ Head(actions).req \in Nat
        /\ Head(actions).paths \in Seq(Paths)
    BY <1>3 DEF DispatchRequest, Dispatching
  <2>2. ManagerTypeOK' /\ Head(actions).id \in TransferIds
    BY <1>1, <1>3 DEF DispatchRequest
  <2>3. pending' \in SUBSET [req : Nat, id : TransferIds] /\ registry' \in SUBSET Nat
    <3>1. [req |-> Head(actions).req, id |-> Head(actions).id] \in [req : Nat, id : TransferIds]
      BY <2>1, <2>2
    <3>2. /\ pending' = pending \cup {[req |-> Head(actions).req, id |-> Head(actions).id]}
          /\ registry' = registry \cup {Head(actions).req}
      BY <1>3 DEF DispatchRequest
    <3> QED
      BY <2>1, <3>1, <3>2
  <2>4. [req |-> Head(actions).req, paths |-> Head(actions).paths]
           \in [req : Nat, paths : Seq(Paths)]
    BY <2>1
  <2>5. shown' \in SUBSET [req : Nat, paths : Seq(Paths)]
    BY <1>3, <2>4 DEF DispatchRequest
  <2> QED
    BY <1>3, <2>2, <2>3, <2>5 DEF DispatchRequest
<1>4. CASE DispatchExecute
  <2>1. Head(actions).req \in Nat
    BY <1>4 DEF DispatchExecute, Dispatching
  <2>2. ManagerTypeOK' /\ Head(actions).id \in TransferIds
    BY <1>1, <1>4 DEF DispatchExecute
  <2>3. EntryAfter(Head(actions)) \in [owner : Nat, complete : BOOLEAN]
    <3> DEFINE entry == fs[Head(actions).id]
    <3>1. entry \in [owner : Nat, complete : BOOLEAN]
      BY <2>2
    <3>2. [entry EXCEPT !.owner = Head(actions).req] \in [owner : Nat, complete : BOOLEAN]
      BY <2>1, <3>1
    <3>3. [[entry EXCEPT !.owner = Head(actions).req] EXCEPT !.complete = TRUE]
             \in [owner : Nat, complete : BOOLEAN]
      BY <3>2
    <3>4. [entry EXCEPT !.complete = TRUE] \in [owner : Nat, complete : BOOLEAN]
      BY <3>1
    <3>5. Closed \in [owner : Nat, complete : BOOLEAN]
      BY DEF Closed
    <3> QED
      BY <3>1, <3>2, <3>3, <3>4, <3>5 DEF EntryAfter
  <2> QED
    BY <1>4, <2>1, <2>2, <2>3 DEF DispatchExecute
<1>5. CASE DispatchAbort
  BY <1>1, <1>5 DEF DispatchAbort, Closed
<1>6. CASE DispatchFails
  <2>1. ManagerTypeOK' /\ WorkerTypeOK'
    BY <1>6, DropTyped DEF DispatchFails
  <2>2. executed' \in SUBSET Nat
    BY <1>6 DEF DispatchFails
  <2>3. closer' \in [Closers -> {"idle", "sending", "waiting", "clearing", "done"}]
    BY <1>6 DEF DispatchFails
  <2> QED
    BY <1>6, <2>1, <2>2, <2>3 DEF DispatchFails
<1> QED
  BY <1>2, <1>3, <1>4, <1>5, <1>6

(* The other steps of the worker.                                          *)
LEMMA WorkTyped == TypeOK /\ WorkNext => TypeOK'
<1> SUFFICES ASSUME TypeOK, WorkNext PROVE TypeOK'
  OBVIOUS
<1> USE DEF TypeOK, WorkerTypeOK, ControlTypeOK, CallerTypeOK, PromptTypeOK,
        managerVars, workerVars, controlVars, callerVars, historyVars
<1>1. CASE ClearDismissed
  BY <1>1 DEF ClearDismissed, PendingWithout, WorkerStates, ManagerTypeOK
<1>2. CASE FinishProtocol
  BY <1>2, CounterTyped DEF FinishProtocol, WorkerStates, ManagerTypeOK, Job, NoJob
<1>3. CASE FinishApproval
  BY <1>3 DEF FinishApproval, Drained, WorkerStates, ManagerTypeOK, Job, NoJob
<1>4. CASE RejectNext
  BY <1>4, RejectSessionTyped DEF RejectNext, LiveSessions
<1>5. CASE FinishShutdown
  <2>1. ManagerTypeOK' /\ WorkerTypeOK'
    BY <1>5, DropTyped DEF FinishShutdown
  <2> QED
    BY <1>5, <2>1 DEF FinishShutdown
<1>6. ASSUME NEW req \in PendingRequests, ExpirePrompt(req) PROVE TypeOK'
  <2>1. ManagerTypeOK'
    BY <1>6, RejectTyped DEF ExpirePrompt
  <2>2. job' \in Job
    BY <1>6 DEF ExpirePrompt, Drained, Job
  <2> QED
    BY <1>6, <2>1, <2>2 DEF ExpirePrompt, PendingWithout
<1>7. ASSUME NEW id \in TransferIds, ExpireTransfer(id) PROVE TypeOK'
  <2>1. ManagerTypeOK'
    BY <1>7, RejectSessionTyped DEF ExpireTransfer
  <2>2. job' \in Job
    BY <1>7 DEF ExpireTransfer, Drained, Job
  <2> QED
    BY <1>7, <2>1, <2>2 DEF ExpireTransfer
<1>8. CASE FinishTick
  BY <1>8 DEF FinishTick, WorkerStates, ManagerTypeOK, Job, NoJob
<1>9. CASE ResetActive
  BY <1>9 DEF ResetActive, WorkerStates, ManagerTypeOK
<1>10. CASE ResetQueued
  BY <1>10 DEF ResetQueued, WorkerStates, ManagerTypeOK
<1>11. CASE CloseReceiver
  <2>1. chan' \in Seq(Message)
    BY <1>11 DEF CloseReceiver
  <2> QED
    BY <1>11, <2>1 DEF CloseReceiver, WorkerStates, ManagerTypeOK, Caller, IdleCaller
<1>12. CASE DispatchWrite \/ DispatchRequest \/ DispatchExecute
            \/ DispatchAbort \/ DispatchFails
  BY <1>12, DispatchTyped
<1> QED
  BY <1>1, <1>2, <1>3, <1>4, <1>5, <1>6, <1>7, <1>8, <1>9, <1>10, <1>11, <1>12
  DEF WorkNext

(* Time and the tick.                                                      *)
LEMMA TimeTyped == TypeOK /\ (TimePasses \/ Tick) => TypeOK'
<1> SUFFICES ASSUME TypeOK, TimePasses \/ Tick PROVE TypeOK'
  OBVIOUS
<1> USE DEF TypeOK, ManagerTypeOK, WorkerTypeOK, ControlTypeOK, CallerTypeOK, PromptTypeOK,
        managerVars, controlVars, callerVars, historyVars
<1>1. ASSUME NEW req \in PendingRequests, PromptAges(req) PROVE TypeOK'
  BY <1>1 DEF PromptAges, PendingRequests
<1>2. ASSUME NEW id \in TransferIds, TransferAges(id) PROVE TypeOK'
  BY <1>2 DEF TransferAges
<1>3. CASE Tick
  <2>1. job' \in Job
    BY <1>3 DEF Tick, TickJob, Job
  <2> QED
    BY <1>3, <2>1 DEF Tick, WorkerStates
<1> QED
  BY <1>1, <1>2, <1>3 DEF TimePasses

(* No step leaves the types.                                               *)
LEMMA TypeStep == TypeOK /\ [Next]_vars => TypeOK'
<1> SUFFICES ASSUME TypeOK, [Next]_vars PROVE TypeOK'
  OBVIOUS
<1>1. CASE UNCHANGED vars
  BY <1>1 DEF vars, managerVars, workerVars, controlVars, callerVars, historyVars,
     TypeOK, ManagerTypeOK, WorkerTypeOK, ControlTypeOK, CallerTypeOK, PromptTypeOK
<1> QED
  BY <1>1, ReaderTyped, ClientTyped, ControlTyped, RecvTyped, WorkTyped, TimeTyped
  DEF Next, Terminated

(* Whatever the commands, clients and bounds, every reachable state of the *)
(* actor is well typed: the counter stays in range, the queue holds only   *)
(* messages, the reader holds a command exactly while submit() runs.       *)
THEOREM TypeCorrect == Spec => []TypeOK
<1>1. Init => TypeOK
  BY TypeInit
<1>2. TypeOK /\ [Next]_vars => TypeOK'
  BY TypeStep
<1> QED
  BY <1>1, <1>2, PTL DEF Spec
------------------------------------------------------------------------------
(* What is left when shutdown returns.                                     *)

(* A worker that has left its loop holds no session and no staging.        *)
NothingHeld ==
    ~Alive => LiveSessions = {} /\ \A id \in TransferIds : fs[id] = Closed

(* ShutdownDrains alone is not kept by the steps that let a caller go: it  *)
(* is needed that a dead worker holds nothing, whoever waits for it.       *)
DrainInv == TypeOK /\ NothingHeld /\ ShutdownDrains

(* The initial worker lives and nobody has asked it to stop.               *)
LEMMA DrainInit == Init => DrainInv
<1> SUFFICES ASSUME Init PROVE DrainInv
  OBVIOUS
<1>1. TypeOK
  BY TypeInit
<1>2. NothingHeld /\ ShutdownDrains
  BY DEF Init, NothingHeld, ShutdownDrains, Alive
<1> QED
  BY <1>1, <1>2 DEF DrainInv

(* While the worker lives before and after a step, no caller of shutdown   *)
(* may be let go by it, and that is all there is to show.                  *)
LEMMA DrainAlive ==
    ASSUME DrainInv, Alive, Alive', UNCHANGED closer
    PROVE  NothingHeld' /\ ShutdownDrains'
BY DEF DrainInv, NothingHeld, ShutdownDrains, Closers

(* A step that touches neither what the worker holds nor a caller that has *)
(* been let go.                                                            *)
LEMMA DrainFrame ==
    ASSUME DrainInv, UNCHANGED <<worker, sessions, fs, registry>>,
           \A k \in Closers : closer'[k] \in {"clearing", "done"} => closer'[k] = closer[k]
    PROVE  NothingHeld' /\ ShutdownDrains'
<1>1. Alive' = Alive /\ LiveSessions' = LiveSessions
  BY DEF Alive, LiveSessions, Live
<1> QED
  BY <1>1 DEF DrainInv, NothingHeld, ShutdownDrains

(* A worker that returns drops all it holds and lets go at most the caller *)
(* whose message it was serving.                                           *)
LEMMA DrainStop ==
    ASSUME DrainInv, DispatchFails \/ FinishShutdown
    PROVE  NothingHeld' /\ ShutdownDrains'
<1>1. DropWorkerState /\ Alive /\ ~Alive'
  BY DEF DispatchFails, FinishShutdown, Drained, DropWorkerState, Alive
<1>2. LiveSessions' = {} /\ \A id \in TransferIds : fs'[id] = Closed
  BY <1>1 DEF DropWorkerState, LiveSessions, Live, Absent
<1>3. \A k \in Closers : closer[k] # "done"
  BY <1>1 DEF DrainInv, ShutdownDrains
<1>4. closer \in [Closers -> {"idle", "sending", "waiting", "clearing", "done"}]
  BY DEF DrainInv, TypeOK, CallerTypeOK
<1>5. \A k \in Closers : closer'[k] # "done"
  BY <1>3, <1>4 DEF DispatchFails, FinishShutdown
<1> QED
  BY <1>1, <1>2, <1>5 DEF NothingHeld, ShutdownDrains

(* The steps of a caller of shutdown.                                      *)
LEMMA DrainCloser ==
    ASSUME DrainInv, NEW k \in Closers, CloserNext(k)
    PROVE  NothingHeld' /\ ShutdownDrains'
<1>1. closer \in [Closers -> {"idle", "sending", "waiting", "clearing", "done"}]
  BY DEF DrainInv, TypeOK, CallerTypeOK
<1>2. CASE SendShutdown(k)
  BY <1>1, <1>2, DrainFrame DEF SendShutdown, managerVars, workerVars
<1>3. CASE SendShutdownFails(k) \/ ClearRegistry(k)
  <2>1. UNCHANGED <<worker, sessions, fs>>
    BY <1>3 DEF SendShutdownFails, ClearRegistry, managerVars, workerVars
  <2>2. ~Alive
    BY <1>3 DEF SendShutdownFails, ClearRegistry, DrainInv, ShutdownDrains, Alive
  <2>3. ~Alive' /\ LiveSessions' = {} /\ \A id \in TransferIds : fs'[id] = Closed
    BY <2>1, <2>2 DEF DrainInv, NothingHeld, Alive, LiveSessions, Live
  <2>4. \A other \in Closers : closer'[other] = "done" => registry' = {}
    BY <1>1, <1>3 DEF SendShutdownFails, ClearRegistry, DrainInv, ShutdownDrains
  <2> QED
    BY <2>3, <2>4 DEF NothingHeld, ShutdownDrains
<1> QED
  BY <1>2, <1>3 DEF CloserNext

(* The worker's way out: it holds nothing any more.                        *)
LEMMA DrainExit ==
    ASSUME DrainInv, ResetActive \/ ResetQueued \/ CloseReceiver
    PROVE  NothingHeld' /\ ShutdownDrains'
<1>1. /\ ~Alive /\ ~Alive'
      /\ UNCHANGED <<sessions, fs, registry>>
  BY DEF ResetActive, ResetQueued, CloseReceiver, Alive, managerVars
<1>2. LiveSessions' = {} /\ \A id \in TransferIds : fs'[id] = Closed
  BY <1>1 DEF DrainInv, NothingHeld, LiveSessions, Live
<1>3. \A k \in Closers : closer'[k] = "done" => closer[k] = "done"
  BY DEF ResetActive, ResetQueued, CloseReceiver, callerVars, Closers
<1> QED
  BY <1>1, <1>2, <1>3 DEF DrainInv, NothingHeld, ShutdownDrains

(* The invariant is inductive.                                             *)
LEMMA DrainStep == DrainInv /\ [Next]_vars => DrainInv'
<1> SUFFICES ASSUME DrainInv, [Next]_vars PROVE DrainInv'
  OBVIOUS
<1>1. TypeOK'
  BY TypeStep DEF DrainInv
<1>2. CASE UNCHANGED vars
  <2>1. UNCHANGED <<worker, sessions, fs, registry, closer>>
    BY <1>2 DEF vars, managerVars, workerVars, callerVars
  <2> QED
    BY <1>1, <2>1, DrainFrame DEF DrainInv
<1>3. CASE ReaderNext \/ (\E c \in Clients : ClientNext(c)) \/ Destroy \/ GateNext \/ TimePasses
  <2>1. UNCHANGED <<worker, sessions, fs, registry>>
    BY <1>3 DEF ReaderNext, ClientNext, Destroy, GateNext, TimePasses, ReadCommand,
       CountQueued, RecheckAccepting, UncountQueued, SendCommand, SendCommandFails,
       ReaderEof, Respond, SendApproval, SendApprovalFails, Quiesce, LoadActive,
       LoadQueued, Resume, PromptAges, TransferAges, managerVars, workerVars
  <2>2. closer \in [Closers -> {"idle", "sending", "waiting", "clearing", "done"}]
    BY DEF DrainInv, TypeOK, CallerTypeOK
  <2>3. \A k \in Closers : closer'[k] = closer[k] \/ closer'[k] = "sending"
    BY <1>3, <2>2 DEF ReaderNext, ClientNext, Destroy, GateNext, TimePasses, ReadCommand,
       CountQueued, RecheckAccepting, UncountQueued, SendCommand, SendCommandFails,
       ReaderEof, Respond, SendApproval, SendApprovalFails, Quiesce, LoadActive,
       LoadQueued, Resume, PromptAges, TransferAges, callerVars, Closers
  <2> QED
    BY <1>1, <2>1, <2>3, DrainFrame DEF DrainInv
<1>4. CASE \E k \in Closers : CloserNext(k)
  BY <1>1, <1>4, DrainCloser DEF DrainInv
<1>5. CASE RecvNext \/ Tick
  <2>1. Alive /\ Alive' /\ UNCHANGED closer
    BY <1>5 DEF RecvNext, Tick, RecvProtocol, RecvStaleApproval, RecvLateApproval,
       RecvApproval, RecvShutdown, Alive, callerVars, workerVars
  <2> QED
    BY <1>1, <2>1, DrainAlive DEF DrainInv
<1>6. CASE WorkNext
  <2>1. CASE DispatchFails \/ FinishShutdown
    BY <1>1, <2>1, DrainStop DEF DrainInv
  <2>2. CASE ResetActive \/ ResetQueued \/ CloseReceiver
    BY <1>1, <2>2, DrainExit DEF DrainInv
  <2>3. CASE \/ ClearDismissed \/ DispatchWrite \/ DispatchRequest \/ DispatchExecute
             \/ DispatchAbort \/ FinishProtocol \/ FinishApproval \/ RejectNext
             \/ (\E req \in PendingRequests : ExpirePrompt(req))
             \/ (\E id \in TransferIds : ExpireTransfer(id)) \/ FinishTick
    <3>1. Alive /\ Alive' /\ UNCHANGED closer
      BY <2>3 DEF ClearDismissed, DispatchWrite, DispatchRequest, DispatchExecute,
         DispatchAbort, Dispatching, FinishProtocol, FinishApproval, RejectNext,
         ExpirePrompt, ExpireTransfer, FinishTick, Drained, Alive, callerVars, workerVars
    <3> QED
      BY <1>1, <3>1, DrainAlive DEF DrainInv
  <2> QED
    BY <1>6, <2>1, <2>2, <2>3 DEF WorkNext
<1> QED
  BY <1>2, <1>3, <1>4, <1>5, <1>6 DEF Next, Terminated

(* Whoever shuts down, whatever fails and in whatever order: when          *)
(* shutdown() has returned, the worker is dead, no session and no staging  *)
(* is left, and once the registry is cleared no prompt either.             *)
THEOREM ShutdownDrainsCorrect == Spec => []ShutdownDrains
<1>1. Init => DrainInv
  BY DrainInit
<1>2. DrainInv /\ [Next]_vars => DrainInv'
  BY DrainStep
<1>3. DrainInv => ShutdownDrains
  BY DEF DrainInv
<1> QED
  BY <1>1, <1>2, <1>3, PTL DEF Spec

------------------------------------------------------------------------------
(* The queue counter.                                                      *)

(* The commands of a queue, by position.                                   *)
CommandsIn(q) == {i \in DOMAIN q : q[i].kind = "Protocol"}

(* They are finitely many, at most as many as there are messages.          *)
LEMMA CommandsFinite ==
    ASSUME NEW q \in Seq(Message)
    PROVE  /\ IsFiniteSet(CommandsIn(q))
           /\ Cardinality(CommandsIn(q)) \in Nat
           /\ Cardinality(CommandsIn(q)) <= Len(q)
           /\ Cardinality(CommandsIn(q)) = 0 <=> CommandsIn(q) = {}
<1>1. DOMAIN q = 1..Len(q) /\ Len(q) \in Nat
  BY LenProperties
<1>2. IsFiniteSet(1..Len(q)) /\ Cardinality(1..Len(q)) = Len(q)
  BY <1>1, FS_Interval
<1>3. CommandsIn(q) \in SUBSET (1..Len(q))
  BY <1>1 DEF CommandsIn
<1>4. IsFiniteSet(CommandsIn(q)) /\ Cardinality(CommandsIn(q)) <= Cardinality(1..Len(q))
  BY <1>2, <1>3, FS_Subset
<1> QED
  BY <1>2, <1>4, FS_CardinalityType, FS_EmptySet

(* A message put into the queue counts if it is a command.                 *)
LEMMA CountAppend ==
    ASSUME NEW q \in Seq(Message), NEW m \in Message
    PROVE  Cardinality(CommandsIn(Append(q, m)))
           = Cardinality(CommandsIn(q)) + (IF m.kind = "Protocol" THEN 1 ELSE 0)
<1> DEFINE n == Len(q) + 1
<1>1. /\ DOMAIN q = 1..Len(q) /\ Len(q) \in Nat
      /\ DOMAIN Append(q, m) = 1..n
      /\ \A i \in 1..Len(q) : Append(q, m)[i] = q[i]
      /\ Append(q, m)[n] = m
  <2>1. /\ Append(q, m) \in Seq(Message) /\ Len(Append(q, m)) = n
        /\ \A i \in 1..Len(q) : Append(q, m)[i] = q[i]
        /\ Append(q, m)[n] = m
    BY AppendProperties
  <2> QED
    BY <2>1, LenProperties
<1>2. CommandsIn(Append(q, m))
      = IF m.kind = "Protocol" THEN CommandsIn(q) \cup {n} ELSE CommandsIn(q)
  BY <1>1 DEF CommandsIn
<1>3. n \notin CommandsIn(q)
  BY <1>1 DEF CommandsIn
<1>4. IsFiniteSet(CommandsIn(q)) /\ Cardinality(CommandsIn(q)) \in Nat
  BY CommandsFinite
<1>5. Cardinality(CommandsIn(q) \cup {n}) = Cardinality(CommandsIn(q)) + 1
  BY <1>3, <1>4, FS_AddElement
<1> QED
  BY <1>2, <1>4, <1>5

(* A message taken off the queue no longer does: the others move up.       *)
LEMMA CountTail ==
    ASSUME NEW q \in Seq(Message), q # <<>>
    PROVE  Cardinality(CommandsIn(q))
           = Cardinality(CommandsIn(Tail(q))) + (IF Head(q).kind = "Protocol" THEN 1 ELSE 0)
<1> DEFINE rest == CommandsIn(q) \ {1}
           f == [i \in CommandsIn(Tail(q)) |-> i + 1]
<1>1. /\ DOMAIN q = 1..Len(q) /\ Len(q) \in Nat \ {0}
      /\ Tail(q) \in Seq(Message)
      /\ DOMAIN Tail(q) = 1..(Len(q) - 1)
      /\ \A i \in 1..(Len(q) - 1) : Tail(q)[i] = q[i + 1]
      /\ Head(q) = q[1]
  <2>1. Len(q) \in Nat \ {0} /\ DOMAIN q = 1..Len(q)
    BY LenProperties, EmptySeq
  <2>2. /\ Tail(q) \in Seq(Message) /\ Len(Tail(q)) = Len(q) - 1
        /\ \A i \in 1..Len(Tail(q)) : Tail(q)[i] = q[i + 1]
    BY HeadTailProperties
  <2>3. Head(q) = q[1]
    BY HeadTailProperties
  <2> QED
    BY <2>1, <2>2, <2>3, LenProperties
<1>2. f \in [CommandsIn(Tail(q)) -> rest]
  BY <1>1 DEF CommandsIn
<1>3. \A i, j \in CommandsIn(Tail(q)) : f[i] = f[j] => i = j
  BY <1>1 DEF CommandsIn
<1>4. \A j \in rest : \E i \in CommandsIn(Tail(q)) : f[i] = j
  <2> TAKE j \in rest
  <2>1. j \in 2..Len(q) /\ q[j].kind = "Protocol"
    BY <1>1 DEF CommandsIn
  <2>2. j - 1 \in 1..(Len(q) - 1) /\ (j - 1) + 1 = j
    BY <1>1, <2>1
  <2>3. Tail(q)[j - 1] = q[j]
    BY <1>1, <2>2
  <2>4. j - 1 \in CommandsIn(Tail(q))
    BY <1>1, <2>1, <2>2, <2>3 DEF CommandsIn
  <2> QED
    BY <2>2, <2>4
<1>5. f \in Bijection(CommandsIn(Tail(q)), rest)
  BY <1>2, <1>3, <1>4 DEF Bijection, Injection, Surjection, IsInjective
<1>6. IsFiniteSet(CommandsIn(Tail(q))) /\ Cardinality(CommandsIn(Tail(q))) \in Nat
  BY <1>1, CommandsFinite
<1>7. Cardinality(rest) = Cardinality(CommandsIn(Tail(q)))
  BY <1>5, <1>6, FS_Bijection DEF ExistsBijection
<1>8. IsFiniteSet(CommandsIn(q)) /\ Cardinality(CommandsIn(q)) \in Nat
  BY CommandsFinite
<1>9. Cardinality(rest) = IF 1 \in CommandsIn(q) THEN Cardinality(CommandsIn(q)) - 1
                                                 ELSE Cardinality(CommandsIn(q))
  BY <1>8, FS_RemoveElement
<1>10. 1 \in CommandsIn(q) <=> Head(q).kind = "Protocol"
  BY <1>1 DEF CommandsIn
<1> QED
  BY <1>6, <1>7, <1>8, <1>9, <1>10

(* The counter is exact and what it counts is bounded: the queue has room  *)
(* for Capacity messages, the worker and submit() hold one command each.   *)
(* `accepting' stays off while the gate is closed, which is what keeps     *)
(* submit() from getting through once the gate has seen no work.           *)
CountInv ==
    /\ TypeOK
    /\ Len(chan) <= Capacity
    /\ worker = "recv" => job = NoJob
    /\ gate # "free" => ~accepting
    /\ QueuedIsExact
    /\ GateStopsAdmission

InFlight == (IF job.kind = "Protocol" THEN 1 ELSE 0)
            + (IF reader \in {"recheck", "uncount", "send"} THEN 1 ELSE 0)

(* Nothing is queued and the worker is at rest.                            *)
LEMMA CountInit == Init => CountInv
<1> SUFFICES ASSUME Init PROVE CountInv
  OBVIOUS
<1>1. TypeOK
  BY TypeInit
<1>2. QueuedCommands = {} /\ Cardinality(QueuedCommands) = 0 /\ Len(chan) = 0
  BY FS_EmptySet DEF Init, QueuedCommands
<1> QED
  BY <1>1, <1>2 DEF Init, CountInv, QueuedIsExact, GateStopsAdmission, NoJob

(* A step that leaves the counter, the queue, the reader and whether the   *)
(* worker holds a command alone.                                           *)
LEMMA CountFrame ==
    ASSUME CountInv, TypeOK', UNCHANGED <<queued, chan, reader, accepting, gate>>,
           Alive' => Alive /\ (job'.kind = "Protocol" <=> job.kind = "Protocol"),
           worker' = "recv" => job' = NoJob
    PROVE  CountInv'
BY DEF CountInv, QueuedIsExact, GateStopsAdmission, QueuedCommands

(* A worker that is not alive needs no counter.                            *)
LEMMA CountDead ==
    ASSUME CountInv, TypeOK', ~Alive', Len(chan') <= Capacity, UNCHANGED <<accepting, gate>>
    PROVE  CountInv'
BY DEF CountInv, QueuedIsExact, GateStopsAdmission, Alive

(* Where the counter stands, in terms of what it counts.                   *)
LEMMA CountFacts ==
    ASSUME CountInv
    PROVE  /\ chan \in Seq(Message) /\ Len(chan) \in Nat /\ Len(chan) <= Capacity
           /\ QueuedCommands = CommandsIn(chan)
           /\ Cardinality(QueuedCommands) \in 0..Len(chan)
           /\ Cardinality(QueuedCommands) = 0 <=> QueuedCommands = {}
           /\ Alive => queued = Cardinality(QueuedCommands) + InFlight
<1>1. chan \in Seq(Message) /\ Len(chan) <= Capacity
  BY DEF CountInv, TypeOK, ControlTypeOK
<1>2. QueuedCommands = CommandsIn(chan)
  BY DEF QueuedCommands, CommandsIn
<1>3. Len(chan) \in Nat
  BY <1>1, LenProperties
<1>4. Cardinality(QueuedCommands) \in 0..Len(chan)
  BY <1>1, <1>2, <1>3, CommandsFinite
<1>5. Alive => queued = Cardinality(QueuedCommands) + InFlight
  BY <1>4 DEF CountInv, QueuedIsExact, InFlight
<1> QED
  BY <1>1, <1>2, <1>3, <1>4, <1>5, CommandsFinite

(* Counting and uncounting a command do not wrap: all that is counted fits *)
(* into the counter.                                                       *)
LEMMA CountReader ==
    ASSUME Capacity + 2 < CounterSize, CountInv, TypeOK', ReaderNext
    PROVE  CountInv'
<1>1. /\ Alive' = Alive
      /\ UNCHANGED <<worker, job, gate>>
  BY DEF ReaderNext, ReadCommand, CountQueued, RecheckAccepting, UncountQueued, SendCommand,
     SendCommandFails, ReaderEof, workerVars, Alive
<1>2. CASE ReaderEof \/ \E cmd \in Commands : ReadCommand(cmd)
  <2>1. /\ UNCHANGED <<queued, chan>>
        /\ accepting' => accepting
        /\ reader \notin {"recheck", "uncount", "send"}
        /\ reader' \notin {"recheck", "uncount", "send"}
    BY <1>2 DEF ReaderEof, ReadCommand, controlVars
  <2>2. QueuedCommands' = QueuedCommands
    BY <2>1 DEF QueuedCommands
  <2>3. QueuedIsExact'
    BY <1>1, <2>1, <2>2 DEF CountInv, QueuedIsExact
  <2>4. GateStopsAdmission'
    BY <1>1, <2>1, <2>2 DEF CountInv, GateStopsAdmission
  <2> QED
    BY <1>1, <2>1, <2>3, <2>4 DEF CountInv
<1>3. CASE CountQueued
  <2>1. UNCHANGED <<chan, accepting>> /\ reader = "count" /\ reader' = "recheck"
        /\ queued' = (queued + 1) % CounterSize
    BY <1>3 DEF CountQueued
  <2>2. Alive => queued' = queued + 1
    <3>1. Alive => queued \in 0..(Capacity + 1)
      BY <2>1, CountFacts DEF InFlight
    <3> QED
      BY <2>1, <3>1
  <2>3. QueuedCommands' = QueuedCommands
    BY <2>1 DEF QueuedCommands
  <2>4. QueuedIsExact'
    <3>1. InFlight' = InFlight + 1
      BY <1>1, <2>1 DEF InFlight
    <3>2. Alive => queued' = Cardinality(QueuedCommands') + InFlight'
      BY <2>2, <2>3, <3>1, CountFacts DEF InFlight
    <3> QED
      BY <1>1, <2>3, <3>2, CountFacts DEF QueuedIsExact, InFlight
  <2>5. GateStopsAdmission'
    BY <1>1, <2>1, <2>3 DEF CountInv, GateStopsAdmission
  <2> QED
    BY <1>1, <2>1, <2>4, <2>5 DEF CountInv
<1>4. CASE RecheckAccepting
  <2>1. UNCHANGED <<chan, accepting, queued>> /\ reader = "recheck"
        /\ reader' = AfterRecheck
    BY <1>4 DEF RecheckAccepting, controlVars
  <2>2. QueuedIsExact'
    BY <1>1, <2>1 DEF CountInv, QueuedIsExact, QueuedCommands, AfterRecheck
  <2>3. GateStopsAdmission'
    BY <1>1, <2>1 DEF CountInv, GateStopsAdmission, QueuedCommands, AfterRecheck
  <2> QED
    BY <1>1, <2>1, <2>2, <2>3 DEF CountInv
<1>5. CASE UncountQueued
  <2>1. UNCHANGED <<chan, accepting>> /\ reader = "uncount" /\ reader' = "run"
        /\ queued' = (queued - 1) % CounterSize
    BY <1>5 DEF UncountQueued
  <2>2. Alive => queued' = queued - 1
    <3>1. Alive => queued \in 1..(Capacity + 2)
      BY <2>1, CountFacts DEF InFlight
    <3> QED
      BY <2>1, <3>1
  <2>3. QueuedCommands' = QueuedCommands
    BY <2>1 DEF QueuedCommands
  <2>4. QueuedIsExact'
    <3>1. InFlight' = InFlight - 1
      BY <1>1, <2>1 DEF InFlight
    <3>2. Alive => queued' = Cardinality(QueuedCommands') + InFlight'
      BY <2>2, <2>3, <3>1, CountFacts DEF InFlight
    <3> QED
      BY <1>1, <2>3, <3>2, CountFacts DEF QueuedIsExact, InFlight
  <2>5. GateStopsAdmission'
    BY <1>1, <2>1, <2>3 DEF CountInv, GateStopsAdmission
  <2> QED
    BY <1>1, <2>1, <2>4, <2>5 DEF CountInv
<1>6. CASE SendCommand
  <2> DEFINE m == [kind |-> "Protocol", cmd |-> readerCmd]
  <2>1. UNCHANGED <<queued, accepting>> /\ reader = "send" /\ reader' = "run"
        /\ chan' = Append(chan, m) /\ Len(chan) < Capacity
    BY <1>6 DEF SendCommand, HasRoom
  <2>2. m \in Message
    BY <2>1 DEF CountInv, TypeOK, CallerTypeOK, Message
  <2>3. Len(chan') <= Capacity
    BY <2>1, <2>2, CountFacts, AppendProperties
  <2>4. Cardinality(QueuedCommands') = Cardinality(QueuedCommands) + 1
    BY <2>1, <2>2, CountFacts, CountAppend DEF QueuedCommands, CommandsIn
  <2>5. QueuedIsExact'
    BY <1>1, <2>1, <2>4, CountFacts DEF QueuedIsExact, InFlight
  <2>6. GateStopsAdmission'
    BY <1>1, <2>1 DEF CountInv, GateStopsAdmission
  <2> QED
    BY <1>1, <2>1, <2>3, <2>5, <2>6 DEF CountInv
<1>7. CASE SendCommandFails
  <2>1. UNCHANGED <<accepting, chan>> /\ ~Alive
    BY <1>7 DEF SendCommandFails, Alive
  <2> QED
    BY <1>1, <2>1, CountDead DEF CountInv
<1> QED
  BY <1>2, <1>3, <1>4, <1>5, <1>6, <1>7 DEF ReaderNext

(* An answer or a shutdown put into the queue is no command.               *)
LEMMA CountMessage ==
    ASSUME CountInv, TypeOK', NEW m \in Message, m.kind # "Protocol",
           Len(chan) < Capacity, chan' = Append(chan, m),
           UNCHANGED <<worker, job, queued, reader, accepting, gate>>
    PROVE  CountInv'
<1>1. Len(chan') <= Capacity
  BY CountFacts, AppendProperties
<1>2. Cardinality(QueuedCommands') = Cardinality(QueuedCommands)
  BY CountFacts, CountAppend DEF QueuedCommands, CommandsIn
<1>3. Alive' = Alive
  BY DEF Alive
<1>4. QueuedCommands = {} => QueuedCommands' = {}
  BY CountFacts, AppendProperties, LenProperties DEF QueuedCommands, CommandsIn
<1> QED
  BY <1>1, <1>2, <1>3, <1>4 DEF CountInv, QueuedIsExact, GateStopsAdmission

(* The steps of clients, of the callers of shutdown and of the gate.       *)
LEMMA CountControl ==
    ASSUME CountInv, TypeOK',
           \/ \E c \in Clients : ClientNext(c)
           \/ Destroy \/ (\E k \in Closers : CloserNext(k)) \/ GateNext
    PROVE  CountInv'
<1>1. ASSUME NEW c \in Clients, SendApproval(c) PROVE CountInv'
  <2>1. client[c] \in Caller
    BY DEF CountInv, TypeOK, CallerTypeOK
  <2>2. [kind |-> "Approval", by |-> c, req |-> client[c].req,
         approve |-> client[c].approve] \in Message
    BY <2>1 DEF Message, Caller
  <2> QED
    BY <1>1, <2>2, CountMessage DEF SendApproval, HasRoom, workerVars
<1>2. ASSUME NEW k \in Closers, SendShutdown(k) PROVE CountInv'
  <2>1. [kind |-> "Shutdown", by |-> k] \in Message
    BY DEF Message
  <2> QED
    BY <1>2, <2>1, CountMessage DEF SendShutdown, HasRoom, workerVars
<1>3. CASE \/ \E c \in Clients : \/ \E req \in registry, approve \in BOOLEAN :
                                       Respond(c, req, approve)
                                 \/ SendApprovalFails(c)
           \/ \E k \in Closers : SendShutdownFails(k) \/ ClearRegistry(k)
  <2>1. UNCHANGED <<queued, chan, reader, accepting, gate, worker, job>>
    BY <1>3 DEF Respond, SendApprovalFails, SendShutdownFails, ClearRegistry, workerVars,
       controlVars
  <2> QED
    BY <2>1, CountFrame DEF CountInv, Alive
<1>4. CASE Destroy \/ Quiesce \/ LoadActive \/ Resume
  <2>1. /\ UNCHANGED <<queued, chan, reader, worker, job>>
        /\ gate' # "free" => ~accepting'
        /\ gate' = "held" => gate = "held"
    BY <1>4 DEF Destroy, Quiesce, LoadActive, Resume, workerVars, controlVars, CountInv
  <2> QED
    BY <2>1 DEF CountInv, QueuedIsExact, GateStopsAdmission, QueuedCommands, Alive
<1>5. CASE LoadQueued
  <2>1. UNCHANGED <<queued, chan, reader, worker, job, accepting>>
        /\ gate = "sawInactive" /\ gate' = (IF queued # 0 THEN "busy" ELSE "held")
    BY <1>5 DEF LoadQueued, workerVars, controlVars
  <2>2. Alive /\ queued = 0 =>
           QueuedCommands = {} /\ reader # "send" /\ job.kind # "Protocol"
    BY CountFacts DEF InFlight
  <2>3. GateStopsAdmission'
    BY <2>1, <2>2 DEF GateStopsAdmission, QueuedCommands, Alive
  <2> QED
    BY <2>1, <2>3 DEF CountInv, QueuedIsExact, QueuedCommands, Alive
<1> QED
  BY <1>1, <1>2, <1>3, <1>4, <1>5 DEF ClientNext, CloserNext, GateNext

(* Taking a message off the queue puts a command into the worker's hands.  *)
LEMMA CountRecv ==
    ASSUME CountInv, TypeOK', RecvNext
    PROVE  CountInv'
<1>1. /\ worker = "recv" /\ job = NoJob /\ chan # <<>> /\ chan' = Tail(chan)
      /\ UNCHANGED <<queued, reader, accepting, gate>>
      /\ job'.kind = "Protocol" <=> Head(chan).kind = "Protocol"
      /\ worker' \in {"recv", "clear", "dispatch"}
      /\ worker' = "recv" => job' = NoJob
  <2>1. worker = "recv" => job = NoJob
    BY DEF CountInv
  <2>2. CASE RecvProtocol
    BY <2>1, <2>2 DEF RecvProtocol, callerVars
  <2>3. CASE RecvStaleApproval
    BY <2>1, <2>3 DEF RecvStaleApproval, NoJob, workerVars
  <2>4. CASE RecvLateApproval
    BY <2>1, <2>4 DEF RecvLateApproval
  <2>5. CASE RecvApproval
    BY <2>1, <2>5 DEF RecvApproval
  <2>6. CASE RecvShutdown
    BY <2>1, <2>6 DEF RecvShutdown, callerVars
  <2> QED
    BY <2>2, <2>3, <2>4, <2>5, <2>6 DEF RecvNext
<1>2. Len(chan') <= Capacity
  BY <1>1, CountFacts, HeadTailProperties
<1>3. Cardinality(QueuedCommands)
      = Cardinality(QueuedCommands') + (IF Head(chan).kind = "Protocol" THEN 1 ELSE 0)
  BY <1>1, CountFacts, CountTail DEF QueuedCommands, CommandsIn
<1>4. /\ Cardinality(QueuedCommands') \in Nat
      /\ Cardinality(QueuedCommands') = 0 <=> QueuedCommands' = {}
  <2>1. chan' \in Seq(Message) /\ QueuedCommands' = CommandsIn(chan')
    BY DEF TypeOK, ControlTypeOK, QueuedCommands, CommandsIn
  <2> QED
    BY <2>1, CommandsFinite
<1>5. QueuedIsExact'
  BY <1>1, <1>3, <1>4, CountFacts DEF QueuedIsExact, InFlight, Alive, NoJob
<1>6. GateStopsAdmission'
  <2> SUFFICES ASSUME gate = "held"
               PROVE  QueuedCommands' = {} /\ reader # "send" /\ job'.kind # "Protocol"
    BY <1>1 DEF GateStopsAdmission
  <2>1. QueuedCommands = {} /\ reader # "send"
    BY <1>1 DEF CountInv, GateStopsAdmission, Alive
  <2>2. Cardinality(QueuedCommands) = 0
    BY <2>1, CountFacts
  <2> QED
    BY <1>1, <1>3, <1>4, <2>1, <2>2
<1> QED
  BY <1>1, <1>2, <1>5, <1>6 DEF CountInv

(* The rest of the worker's steps: only FinishProtocol counts down.        *)
LEMMA CountWork ==
    ASSUME CountInv, TypeOK', WorkNext \/ TimePasses \/ Tick
    PROVE  CountInv'
<1>1. CASE FinishProtocol
  <2>1. /\ worker = "dispatch" /\ job.kind = "Protocol" /\ job' = NoJob
        /\ queued' = DecrementQueued /\ worker' = "recv"
        /\ UNCHANGED <<chan, reader, accepting, gate>>
    BY <1>1 DEF FinishProtocol, Drained, callerVars
  <2>2. queued' = queued - 1
    BY <2>1, CountFacts DEF DecrementQueued, Alive, InFlight
  <2>3. QueuedIsExact'
    BY <2>1, <2>2, CountFacts DEF QueuedIsExact, InFlight, QueuedCommands, Alive, NoJob
  <2>4. GateStopsAdmission'
    BY <2>1 DEF CountInv, GateStopsAdmission, QueuedCommands, Alive, NoJob
  <2> QED
    BY <2>1, <2>3, <2>4 DEF CountInv
<1>2. CASE DispatchFails \/ FinishShutdown
  <2>1. ~Alive' /\ UNCHANGED <<chan, accepting, gate>>
    BY <1>2 DEF DispatchFails, FinishShutdown, DropWorkerState, Alive, controlVars
  <2> QED
    BY <2>1, CountDead DEF CountInv
<1>3. CASE ResetActive \/ ResetQueued \/ CloseReceiver
  <2>1. ~Alive' /\ chan' \in {chan, <<>>} /\ UNCHANGED <<accepting, gate>>
    BY <1>3 DEF ResetActive, ResetQueued, CloseReceiver, Alive, callerVars
  <2>2. Len(chan') <= Capacity
    BY <2>1 DEF CountInv
  <2> QED
    BY <2>1, <2>2, CountDead
<1>4. CASE \/ ClearDismissed \/ DispatchWrite \/ DispatchRequest \/ DispatchExecute
           \/ DispatchAbort \/ FinishApproval \/ RejectNext \/ FinishTick
           \/ (\E req \in PendingRequests : ExpirePrompt(req))
           \/ (\E id \in TransferIds : ExpireTransfer(id))
           \/ TimePasses \/ Tick
  <2>1. UNCHANGED <<queued, chan, reader, accepting, gate>>
    BY <1>4 DEF ClearDismissed, DispatchWrite, DispatchRequest, DispatchExecute,
       DispatchAbort, FinishApproval, RejectNext, FinishTick, ExpirePrompt,
       ExpireTransfer, TimePasses, PromptAges, TransferAges, Tick, callerVars, controlVars
  <2>2. \/ Alive /\ (job'.kind = "Protocol" <=> job.kind = "Protocol")
        \/ UNCHANGED <<worker, job>>
    <3>1. job \in Job
      BY DEF CountInv, TypeOK, WorkerTypeOK
    <3>2. CASE \/ \E req \in PendingRequests : ExpirePrompt(req)
               \/ \E id \in TransferIds : ExpireTransfer(id)
      <4>1. job.kind = "Tick" /\ worker = "dispatch"
        BY <3>2 DEF ExpirePrompt, ExpireTransfer, Drained
      <4>2. job \in [kind : {"Tick"}, due : SUBSET Nat, dueIdle : SUBSET TransferIds]
        BY <3>1, <4>1 DEF Job
      <4>3. job'.kind = "Tick"
        BY <3>2, <4>2 DEF ExpirePrompt, ExpireTransfer
      <4> QED
        BY <4>1, <4>3 DEF Alive
    <3>3. CASE Tick
      BY <3>3 DEF Tick, TickJob, CountInv, NoJob, Alive
    <3>4. CASE FinishApproval \/ FinishTick
      BY <3>4 DEF FinishApproval, FinishTick, Drained, NoJob, Alive
    <3>5. CASE \/ ClearDismissed \/ DispatchWrite \/ DispatchRequest \/ DispatchExecute
               \/ DispatchAbort \/ RejectNext \/ TimePasses
      BY <3>5 DEF ClearDismissed, DispatchWrite, DispatchRequest, DispatchExecute,
         DispatchAbort, Dispatching, RejectNext, TimePasses, PromptAges, TransferAges,
         Drained, Alive, workerVars
    <3> QED
      BY <1>4, <3>2, <3>3, <3>4, <3>5
  <2>3. worker' = "recv" => job' = NoJob
    BY <1>4 DEF ClearDismissed, DispatchWrite, DispatchRequest, DispatchExecute, CountInv,
       DispatchAbort, Dispatching, FinishApproval, RejectNext, FinishTick, ExpirePrompt,
       ExpireTransfer, TimePasses, PromptAges, TransferAges, Tick, Drained, workerVars
  <2>4. Alive' => Alive /\ (job'.kind = "Protocol" <=> job.kind = "Protocol")
    BY <2>2 DEF Alive
  <2> QED
    BY <2>1, <2>3, <2>4, CountFrame
<1> QED
  BY <1>1, <1>2, <1>3, <1>4 DEF WorkNext

(* The invariant is inductive, provided the counter can hold what it       *)
(* counts: 2^64 values for a queue of COMMAND_QUEUE_CAPACITY = 512.        *)
LEMMA CountStep ==
    ASSUME Capacity + 2 < CounterSize
    PROVE  CountInv /\ [Next]_vars => CountInv'
<1> SUFFICES ASSUME CountInv, [Next]_vars PROVE CountInv'
  OBVIOUS
<1>1. TypeOK'
  BY TypeStep DEF CountInv
<1>2. CASE UNCHANGED vars
  BY <1>1, <1>2, CountFrame
  DEF vars, workerVars, controlVars, callerVars, CountInv, Alive
<1> QED
  BY <1>1, <1>2, CountReader, CountControl, CountRecv, CountWork DEF Next, Terminated

(* All the time the counter is exact and the gate is tight.                *)
LEMMA CountIsInvariant ==
    ASSUME Capacity + 2 < CounterSize
    PROVE  Spec => []CountInv
<1>1. Init => CountInv
  BY CountInit
<1>2. CountInv /\ [Next]_vars => CountInv'
  BY CountStep
<1> QED
  BY <1>1, <1>2, PTL DEF Spec

(* If the counter can hold the queue, the command in the worker's hands    *)
(* and the one in submit(), then it is exactly their number as long as the *)
(* worker lives, in whatever order reader and worker change it.            *)
THEOREM QueuedIsExactCorrect ==
    ASSUME Capacity + 2 < CounterSize
    PROVE  Spec => []QueuedIsExact
<1>1. CountInv => QueuedIsExact
  BY DEF CountInv
<1> QED
  BY <1>1, CountIsInvariant, PTL

(* Under the same condition, no command gets through to the worker between *)
(* the moment the relaunch gate has seen no work and the moment it opens.  *)
THEOREM GateStopsAdmissionCorrect ==
    ASSUME Capacity + 2 < CounterSize
    PROVE  Spec => []GateStopsAdmission
<1>1. CountInv => GateStopsAdmission
  BY DEF CountInv
<1> QED
  BY <1>1, CountIsInvariant, PTL

(* A command is taken back from a counter that holds it, unless the worker *)
(* has gone and reset it in between: the wrap the run counter_wrap finds   *)
(* needs a dead worker (submit's fetch_sub).                               *)
THEOREM TakenBackWhileAlive ==
    ASSUME Capacity + 2 < CounterSize
    PROVE  Spec => [][UncountQueued /\ Alive => queued' = queued - 1]_vars
<1>1. CountInv => (UncountQueued /\ Alive => queued' = queued - 1)
  <2> SUFFICES ASSUME CountInv, UncountQueued, Alive PROVE queued' = queued - 1
    OBVIOUS
  <2>1. /\ reader = "uncount" /\ queued' = (queued - 1) % CounterSize
        /\ queued \in 0..(CounterSize - 1) /\ CounterSize \in Nat
    BY ActorAssumption DEF UncountQueued, CountInv, TypeOK, ControlTypeOK
  <2>2. queued >= 1
    BY <2>1, CountFacts DEF InFlight
  <2> QED
    BY <2>1, <2>2
<1> QED
  BY <1>1, CountIsInvariant, PTL
=============================================================================
