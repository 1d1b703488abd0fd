------------------------ MODULE TtyTransferConsentProofs ------------------------
(***************************************************************************)
(* The filesystem executor works only for requests the user granted: the   *)
(* inductive invariant behind ConsentBeforeEffect and its proof.           *)
(*                                                                         *)
(* ConsentBeforeEffect speaks of commands already executed.  It is kept    *)
(* because the queue of actions carries only commands of granted requests, *)
(* because a session is approved only by an answer to its own request, and *)
(* because no request is ever answered twice: requests are numbered, open  *)
(* sessions have different numbers, and whatever may still be shown or     *)
(* answered has not been decided.                                          *)
(*                                                                         *)
(* The second part proves on top of it what the staging and the listing    *)
(* owe the user: StagingBelongsToSession, StagingGoneBeforeEnd and         *)
(* ListingWasShown.                                                        *)
(*                                                                         *)
(* The third part is the worker's bookkeeping between its messages, from   *)
(* which BookkeepingAgrees and WorkIsVisible follow; the last one puts the *)
(* three invariants together and proves that the actor implements          *)
(* TransferConsent (KeepsConsent).                                         *)
(***************************************************************************)
EXTENDS TtyTransferProofs

(* Decisions and consent are remembered as long as nothing is added.       *)
LEMMA HistoryUnchanged ==
    ASSUME UNCHANGED <<consented, decided>>
    PROVE  Granted' = Granted /\ Refused' = Refused /\ Decided' = Decided
           /\ Consented' = Consented
BY DEF Granted, Refused, Decided, Consented

(* An answer adds its request to one side only.                            *)
LEMMA HistoryGrows ==
    ASSUME NEW req, NEW approve \in BOOLEAN, consented' = consented,
           decided' = decided \cup {[req |-> req, approve |-> approve]}
    PROVE  /\ approve => Granted' = Granted \cup {req} /\ Refused' = Refused
           /\ ~approve => Granted' = Granted /\ Refused' = Refused \cup {req}
<1> DEFINE new == [req |-> req, approve |-> approve]
<1>1. CASE approve = TRUE
  <2>1. new.req = req /\ new.approve = TRUE /\ decided' = decided \cup {new}
    BY <1>1
  <2> HIDE DEF new
  <2>2. {e \in decided' : e.approve} = {e \in decided : e.approve} \cup {new}
    BY <2>1
  <2>3. {e \in decided' : ~e.approve} = {e \in decided : ~e.approve}
    BY <2>1
  <2> QED
    BY <1>1, <2>1, <2>2, <2>3, ZenonT(40) DEF Granted, Refused
<1>2. CASE approve = FALSE
  <2>1. {e \in decided' : e.approve} = {e \in decided : e.approve}
    BY <1>2
  <2>2. {e \in decided' : ~e.approve} = {e \in decided : ~e.approve} \cup {new}
    BY <1>2
  <2>3. new.req = req
    OBVIOUS
  <2> HIDE DEF new
  <2> QED
    BY <1>2, <2>1, <2>2, <2>3 DEF Granted, Refused
<1> QED
  BY <1>1, <1>2

(* Replies that need no consent, and commands that need that of `req'.     *)
PlainAction == {a \in Action : a.type \in {"Write", "Abort"}}

ActionFor(req) == {a \in Action : a.type \in {"Execute", "Complete"} /\ a.req = req}

(* Actions that need no consent are sound.                                 *)
LEMMA PlainSound ==
    ASSUME NEW reply \in Seq(PlainAction)
    PROVE  reply \in Seq(SoundAction) /\ reply \in Seq(SoundAction')
<1>1. PlainAction \subseteq SoundAction
  BY DEF PlainAction, SoundAction
<1>2. PlainAction \subseteq SoundAction'
  BY DEF PlainAction, SoundAction
<1> QED
  BY <1>1, <1>2, SeqMonotonic

(* The replies that end a session are plain.                               *)
LEMMA StatusPlain ==
    ASSUME NEW id \in TransferIds, NEW quiet, NEW isError, NEW ends \in BOOLEAN
    PROVE  StatusResponse(id, quiet, isError, ends) \in Seq(PlainAction)
<1>1. [type |-> "Write", id |-> id, ends |-> ends] \in PlainAction
  BY WriteTyped DEF PlainAction
<1> QED
  BY <1>1 DEF StatusResponse

(* A farewell consists of an abort and a write at most.                    *)
LEMMA FarewellPlain ==
    ASSUME NEW id \in TransferIds, NEW isError
    PROVE  Farewell(id, isError) \in Seq(PlainAction)
<1>1. [type |-> "Abort", id |-> id] \in PlainAction
  BY DEF PlainAction, Action
<1>2. (IF sessions[id].phase = "Approved" THEN AbortOf(id) ELSE <<>>) \in Seq(PlainAction)
  BY <1>1 DEF AbortOf
<1>3. StatusResponse(id, sessions[id].quiet, isError, TRUE) \in Seq(PlainAction)
  BY StatusPlain
<1> QED
  BY <1>2, <1>3, ConcatProperties DEF Farewell

(* The commands of a session need its own consent only.                    *)
LEMMA CommandFor ==
    ASSUME NEW id \in TransferIds, NEW session \in Session,
           NEW op \in Operations, NEW path \in Paths \cup {NoPath}
    PROVE  AuthorizedCommand(id, session, op, path) \in ActionFor(session.req)
<1>1. session.req \in Nat /\ session.dir \in Directions
  BY DEF Session
<1> QED
  BY <1>1, ExecuteTyped DEF AuthorizedCommand, ActionFor

(* A listing carries nothing but commands of its own session.              *)
LEMMA ListingFor ==
    ASSUME NEW id \in TransferIds, NEW session \in Session
    PROVE  ListingOf(id, session) \in Seq(ActionFor(session.req))
<1> DEFINE wanted == session.wanted
           reads == [i \in DOMAIN wanted |->
                       AuthorizedCommand(id, session, "File", wanted[i].path)]
<1>1. wanted \in Seq(Wanted) /\ session.req \in Nat
  BY DEF Session
<1>2. Len(wanted) \in Nat /\ DOMAIN wanted = 1..Len(wanted)
  BY <1>1, LenProperties
<1>3. \A i \in DOMAIN wanted :
         AuthorizedCommand(id, session, "File", wanted[i].path) \in ActionFor(session.req)
  BY <1>1, WantedTyped, CommandFor DEF Operations
<1>4. reads \in [1..Len(wanted) -> ActionFor(session.req)]
  BY <1>2, <1>3
<1>5. reads \in Seq(ActionFor(session.req))
  BY <1>2, <1>4, FunctionIsSeq, Zenon
<1>6. [type |-> "Complete", id |-> id, req |-> session.req] \in ActionFor(session.req)
  BY <1>1 DEF ActionFor, Action
<1> QED
  BY <1>5, <1>6, ConcatProperties DEF ListingOf

(* An action stays sound while consent grows and prompts stay open.        *)
LEMMA SoundActionGrows ==
    ASSUME Consented \subseteq Consented',
           \A req \in Nat : Answerable(req) => Answerable(req)',
           NEW reply \in Seq(SoundAction)
    PROVE  reply \in Seq(SoundAction')
<1>1. \A a \in Action : a.type = "RequestApproval" => a.req \in Nat
  BY DEF Action
<1>2. SoundAction \subseteq SoundAction'
  BY <1>1 DEF SoundAction
<1> QED
  BY <1>2, SeqMonotonic

------------------------------------------------------------------------------
(* What the authorization state machine keeps.                             *)

(* Answering and ending a session, with a sound reply.                     *)
LEMMA ReplyKeeps ==
    ASSUME ManagerTypeOK, SessionsSound, PromptsSound, HistorySound,
           NEW reply \in Seq(SoundAction),
           Answer(reply) \/ \E id \in TransferIds : EndSession(id, reply),
           pending' \subseteq pending, UNCHANGED <<consented, decided>>,
           WorkerTypeOK
    PROVE  SessionsSound' /\ ActionsSound' /\ PromptsSound'
<1>1. \A t \in TransferIds : sessions'[t] = sessions[t] \/ sessions'[t] = Absent
  BY DEF Answer, EndSession, ManagerTypeOK
<1>2. nextRequestId' = nextRequestId /\ actions' = reply
  BY DEF Answer, EndSession
<1>3. SessionsSound'
  BY <1>1, <1>2, HistoryUnchanged
  DEF SessionsSound, SoundSession, Waiting, Live, Absent
<1>4. ASSUME NEW req \in Nat, Answerable(req) PROVE Answerable(req)'
  BY <1>1, <1>2, <1>4, HistoryUnchanged DEF Answerable, Collecting, Absent
<1>5. ActionsSound'
  BY <1>2, <1>4, SoundActionGrows, HistoryUnchanged DEF ActionsSound
<1>6. PromptsSound'
  BY <1>4 DEF PromptsSound, WorkerTypeOK
<1> QED
  BY <1>3, <1>5, <1>6

(* A new session asks under a number nobody has used.                      *)
LEMMA StartKeeps ==
    ASSUME TypeOK, SessionsSound, PromptsSound, HistorySound,
           NEW cmd \in Commands, cmd.op \in Directions, Start(cmd, cmd.op),
           UNCHANGED <<pending, consented, decided>>
    PROVE  SessionsSound' /\ ActionsSound' /\ PromptsSound'
<1> USE CommandTyped
<1>1. CASE Answer(ErrorResponse(cmd))
  BY <1>1, ReplyKeeps, StatusPlain, PlainSound DEF ErrorResponse, TypeOK
<1>2. CASE ~Answer(ErrorResponse(cmd))
  <2> DEFINE session == NewSession(cmd, cmd.op)
  <2>1. /\ ~StartRefused(cmd, cmd.op)
        /\ sessions' = [sessions EXCEPT ![cmd.id] = session]
        /\ actions' = (IF session.phase = "AwaitApproval"
                       THEN <<Request(cmd.id, session)>> ELSE <<>>)
        /\ nextRequestId' = nextRequestId + 1
    BY <1>2 DEF Start
  <2>2. /\ session \in Session
        /\ session.req = nextRequestId
        /\ session.phase \in {"CollectReceivePaths", "AwaitApproval"}
    BY <2>1 DEF StartRefused, NewSession, TypeOK, ManagerTypeOK, Session, Phases
  <2>3. Request(cmd.id, session) \in Action
    BY <2>2, RequestTyped
  <2>4. Request(cmd.id, session).type = "RequestApproval"
        /\ Request(cmd.id, session).req = nextRequestId
    BY <2>2 DEF Request
  <2> DEFINE request == Request(cmd.id, session)
  <2> HIDE DEF session, request
  <2>5. /\ \A t \in TransferIds : t # cmd.id => sessions'[t] = sessions[t]
        /\ sessions'[cmd.id] = session
    BY <2>1 DEF TypeOK, ManagerTypeOK
  <2>6. \A t \in TransferIds : sessions[t].req \in Nat /\ nextRequestId \in Nat
    BY SessionTyped DEF TypeOK, ManagerTypeOK
  <2>7. nextRequestId \notin Decided
    BY <2>6 DEF HistorySound
  <2>8. SessionsSound'
    <3>1. \A t \in TransferIds : SoundSession(t)'
      BY <2>1, <2>2, <2>5, <2>6, <2>7, HistoryUnchanged
      DEF SessionsSound, SoundSession, Waiting, Live
    <3>2. \A t, other \in TransferIds :
             Live(t)' /\ Live(other)' /\ sessions'[t].req = sessions'[other].req => t = other
      BY <2>2, <2>5, <2>6 DEF SessionsSound, SoundSession, Live
    <3> QED
      BY <3>1, <3>2 DEF SessionsSound
  <2>9. ASSUME NEW req \in Nat, Answerable(req) PROVE Answerable(req)'
    BY <2>1, <2>2, <2>5, <2>6, <2>9, HistoryUnchanged DEF Answerable, Collecting
  <2> PICK new \in Nat : new = nextRequestId
    BY <2>6
  <2>10. session.phase = "AwaitApproval" => Answerable(new)'
    BY <2>1, <2>2, <2>5, <2>6, <2>7, HistoryUnchanged
    DEF Answerable, Collecting, SessionsSound, SoundSession, Live
  <2>11. session.phase = "AwaitApproval" => request \in SoundAction'
    BY <2>3, <2>4, <2>10 DEF SoundAction, request
  <2>12. ActionsSound'
    BY <2>1, <2>11 DEF ActionsSound, request
  <2>13. PromptsSound'
    BY <2>9 DEF PromptsSound, TypeOK, WorkerTypeOK
  <2> QED
    BY <2>8, <2>12, <2>13
<1> QED
  BY <1>1, <1>2

(* Collecting a path asks at most for the session's own request.           *)
LEMMA CollectKeeps ==
    ASSUME TypeOK, SessionsSound, PromptsSound, HistorySound,
           NEW cmd \in Commands, Collecting(cmd.id), CollectReceivePath(cmd),
           UNCHANGED <<pending, consented, decided>>
    PROVE  SessionsSound' /\ ActionsSound' /\ PromptsSound'
<1> USE CommandTyped
<1> DEFINE id == cmd.id
           session == sessions[id]
           grown == [session EXCEPT !.wanted = Append(@, [file |-> cmd.file, path |-> cmd.path])]
           final == [grown EXCEPT !.phase = "AwaitApproval"]
           request == Request(id, grown)
<1>1. CASE EndSession(id, Farewell(id, TRUE))
  BY <1>1, ReplyKeeps, FarewellPlain, PlainSound DEF TypeOK
<1>2. CASE ~EndSession(id, Farewell(id, TRUE))
  <2>1. /\ cmd.file \in FileIds /\ cmd.path \in Paths
        /\ \/ sessions' = [sessions EXCEPT ![id] = grown] /\ actions' = <<>>
           \/ sessions' = [sessions EXCEPT ![id] = final] /\ actions' = <<request>>
        /\ nextRequestId' = nextRequestId
    BY <1>2 DEF CollectReceivePath
  <2>2. session \in Session /\ session.wanted \in Seq(Wanted)
        /\ session.phase = "CollectReceivePaths" /\ session.req \in Nat
    BY SessionTyped DEF TypeOK, Collecting
  <2>3. Append(session.wanted, [file |-> cmd.file, path |-> cmd.path]) \in Seq(Wanted)
    BY <2>1, <2>2, AppendProperties DEF Wanted
  <2>4. grown \in Session
    BY <2>2, <2>3 DEF Session
  <2>5. /\ grown.req = session.req /\ grown.phase = "CollectReceivePaths"
        /\ final.req = session.req /\ final.phase = "AwaitApproval"
    BY <2>2 DEF Session
  <2>6. request \in Action
    BY <2>4, RequestTyped
  <2>7. request.type = "RequestApproval" /\ request.req = session.req
    BY <2>5 DEF Request
  <2> PICK req \in Nat : req = session.req
    BY <2>2
  <2> HIDE DEF grown, final, request
  <2>8. /\ \A t \in TransferIds : t # id => sessions'[t] = sessions[t]
        /\ sessions'[id].req = req
        /\ \/ sessions'[id].phase = "CollectReceivePaths" /\ actions' = <<>>
           \/ sessions'[id].phase = "AwaitApproval" /\ actions' = <<request>>
    BY <2>1, <2>5 DEF TypeOK, ManagerTypeOK
  <2>9. SessionsSound'
    <3>1. \A t \in TransferIds : SoundSession(t)'
      BY <2>1, <2>2, <2>8, HistoryUnchanged DEF SessionsSound, SoundSession, Waiting, Live
    <3>2. \A t, other \in TransferIds :
             Live(t)' /\ Live(other)' /\ sessions'[t].req = sessions'[other].req => t = other
      BY <2>2, <2>8 DEF SessionsSound, Live
    <3> QED
      BY <3>1, <3>2 DEF SessionsSound
  <2>10. ASSUME NEW r \in Nat, Answerable(r) PROVE Answerable(r)'
    BY <2>1, <2>2, <2>8, <2>10, HistoryUnchanged DEF Answerable, Collecting
  <2>11. PromptsSound'
    BY <2>10 DEF PromptsSound, TypeOK, WorkerTypeOK
  <2>12. actions' = <<request>> /\ sessions'[id].phase = "AwaitApproval"
         => request \in SoundAction'
    <3>1. sessions'[id].phase = "AwaitApproval" => Answerable(req)'
      BY <2>1, <2>2, <2>8, HistoryUnchanged
      DEF Answerable, Collecting, SessionsSound, SoundSession, Waiting, Live
    <3> QED
      BY <2>6, <2>7, <3>1 DEF SoundAction
  <2>13. actions' \in Seq(SoundAction')
    <3>1. CASE actions' = <<>>
      BY <3>1
    <3>2. CASE actions' = <<request>> /\ request \in SoundAction'
      BY <3>2
    <3> QED
      BY <2>8, <2>12, <3>1, <3>2
  <2> QED
    BY <2>9, <2>11, <2>13 DEF ActionsSound
<1> QED
  BY <1>1, <1>2

(* Only an approved session executes, and it was granted.                  *)
LEMMA ApprovedCommandKeeps ==
    ASSUME TypeOK, SessionsSound, PromptsSound, HistorySound,
           NEW cmd \in Commands, sessions[cmd.id].phase = "Approved",
           CommandOfApproved(cmd), UNCHANGED <<pending, consented, decided>>
    PROVE  SessionsSound' /\ ActionsSound' /\ PromptsSound'
<1> USE CommandTyped
<1> DEFINE execute == <<AuthorizedCommand(cmd.id, sessions[cmd.id], cmd.op, cmd.path)>>
<1>1. execute \in Seq(SoundAction)
  <2>1. AuthorizedCommand(cmd.id, sessions[cmd.id], cmd.op, cmd.path)
           \in ActionFor(sessions[cmd.id].req)
    BY SessionTyped, CommandFor DEF TypeOK
  <2>2. sessions[cmd.id].req \in Consented
    BY DEF SessionsSound, SoundSession
  <2> QED
    BY <2>1, <2>2 DEF ActionFor, SoundAction
<1>2. \/ EndSession(cmd.id, Farewell(cmd.id, TRUE))
      \/ EndSession(cmd.id, execute)
      \/ Answer(execute)
  BY DEF CommandOfApproved
<1> QED
  BY <1>1, <1>2, ReplyKeeps, FarewellPlain, PlainSound DEF TypeOK

(* No protocol command breaks the invariant.                               *)
LEMMA HandleKeeps ==
    ASSUME TypeOK, SessionsSound, PromptsSound, HistorySound,
           NEW cmd \in Commands, Handle(cmd), UNCHANGED <<pending, consented, decided>>
    PROVE  SessionsSound' /\ ActionsSound' /\ PromptsSound'
<1> USE CommandTyped
<1>1. ErrorResponse(cmd) \in Seq(SoundAction)
  BY StatusPlain, PlainSound DEF ErrorResponse
<1>2. CASE cmd.op \in Directions /\ Start(cmd, cmd.op)
  BY <1>2, StartKeeps
<1>3. CASE Answer(ErrorResponse(cmd))
  BY <1>1, <1>3, ReplyKeeps DEF TypeOK
<1>4. CASE \E isError \in BOOLEAN : EndSession(cmd.id, Farewell(cmd.id, isError))
  BY <1>4, ReplyKeeps, FarewellPlain, PlainSound DEF TypeOK
<1>5. CASE Collecting(cmd.id) /\ CollectReceivePath(cmd)
  BY <1>5, CollectKeeps
<1>6. CASE sessions[cmd.id].phase = "Approved" /\ CommandOfApproved(cmd)
  BY <1>6, ApprovedCommandKeeps
<1> QED
  BY <1>2, <1>3, <1>4, <1>5, <1>6 DEF Handle, Cancel, ContinueSession, Collecting

(* Requests are numbered upwards.                                          *)
LEMMA HandleNumbers ==
    ASSUME ManagerTypeOK, NEW cmd \in Commands, Handle(cmd)
    PROVE  nextRequestId' >= nextRequestId
<1> USE DEF ManagerTypeOK
<1>1. ASSUME NEW reply, Answer(reply) PROVE nextRequestId' >= nextRequestId
  BY <1>1 DEF Answer
<1>2. ASSUME NEW id, NEW reply, EndSession(id, reply) PROVE nextRequestId' >= nextRequestId
  BY <1>2 DEF EndSession
<1>3. CASE Start(cmd, cmd.op)
  BY <1>1, <1>3 DEF Start
<1>4. CASE CollectReceivePath(cmd)
  <2>1. nextRequestId' = nextRequestId
    BY <1>4, Zenon DEF CollectReceivePath, EndSession
  <2>2. nextRequestId \in Nat
    OBVIOUS
  <2> QED
    BY <2>1, <2>2
<1>5. CASE CommandOfApproved(cmd)
  BY <1>1, <1>2, <1>5 DEF CommandOfApproved
<1> QED
  BY <1>1, <1>2, <1>3, <1>4, <1>5 DEF Handle, Cancel, ContinueSession

(* Ending sessions without an answer of the user.                          *)
LEMMA RejectSessionKeeps ==
    ASSUME TypeOK, SessionsSound, PromptsSound, HistorySound,
           NEW id \in TransferIds, RejectSession(id),
           pending' \subseteq pending, UNCHANGED <<consented, decided>>
    PROVE  SessionsSound' /\ ActionsSound' /\ PromptsSound'
<1>1. CASE Answer(<<>>)
  <2>1. <<>> \in Seq(SoundAction)
    OBVIOUS
  <2> QED
    BY <1>1, <2>1, ReplyKeeps DEF TypeOK
<1>2. CASE EndSession(id, Farewell(id, TRUE))
  BY <1>2, ReplyKeeps, FarewellPlain, PlainSound DEF TypeOK
<1> QED
  BY <1>1, <1>2 DEF RejectSession

(* Rejecting by token is rejecting the session that waits for it.          *)
LEMMA RejectKeeps ==
    ASSUME TypeOK, SessionsSound, PromptsSound, HistorySound,
           NEW req, Reject(req), pending' \subseteq pending, UNCHANGED <<consented, decided>>
    PROVE  SessionsSound' /\ ActionsSound' /\ PromptsSound'
<1>1. CASE Answer(<<>>)
  <2>1. <<>> \in Seq(SoundAction)
    OBVIOUS
  <2> QED
    BY <1>1, <2>1, ReplyKeeps DEF TypeOK
<1>2. CASE \E id \in SessionForRequest(req) : RejectSession(id)
  BY <1>2, RejectSessionKeeps DEF SessionForRequest
<1> QED
  BY <1>1, <1>2 DEF Reject

(* An answer settles exactly one open request: afterwards no session waits *)
(* for it, no prompt shows it, and only a grant lets its session execute.  *)
LEMMA DecisionKeeps ==
    ASSUME TypeOK, SessionsSound, PromptsSound, HistorySound,
           NEW p \in pending, NEW approve \in BOOLEAN, approve => p.req \in consented,
           IF approve THEN Approve(p.req) ELSE Reject(p.req),
           pending' = PendingWithout({p.req}), consented' = consented,
           decided' = decided \cup {[req |-> p.req, approve |-> approve]},
           executed' = executed
    PROVE  SessionsSound' /\ ActionsSound' /\ PromptsSound' /\ HistorySound'
<1> DEFINE req == p.req
<1>1. req \in Nat /\ Answerable(req)
  BY DEF TypeOK, WorkerTypeOK, PromptsSound
<1>2. /\ Decided' = Decided \cup {req}
      /\ Consented \subseteq Consented'
      /\ approve => req \in Consented'
      /\ Granted' \cap Refused' = {}
  <2>1. Granted \cap Refused = {} /\ req \notin Granted \cup Refused
    BY <1>1 DEF HistorySound, Answerable, Decided
  <2> QED
    BY <2>1, HistoryGrows DEF Decided, Consented
<1>3. nextRequestId' = nextRequestId
  BY DEF Approve, Reject, RejectSession, Answer, EndSession
<1>4. ASSUME NEW t \in TransferIds
      PROVE  \/ /\ sessions'[t] = sessions[t]
                /\ ~(sessions[t].phase = "AwaitApproval" /\ sessions[t].req = req)
             \/ sessions'[t] = Absent
             \/ /\ approve /\ Live(t) /\ sessions[t].req = req
                /\ sessions'[t].phase = "Approved" /\ sessions'[t].req = req
  <2>1. CASE Answer(<<>>) /\ ~IsApprovalPending(req)
    BY <2>1 DEF Answer, IsApprovalPending, SessionForRequest
  <2>2. ASSUME NEW id \in SessionForRequest(req), EndSession(id, Farewell(id, TRUE))
        PROVE  \/ /\ sessions'[t] = sessions[t]
                  /\ ~(sessions[t].phase = "AwaitApproval" /\ sessions[t].req = req)
               \/ sessions'[t] = Absent
    BY <2>2 DEF SessionForRequest, EndSession, SessionsSound, Live, TypeOK, ManagerTypeOK
  <2>3. ASSUME NEW id \in SessionForRequest(req), approve,
               sessions' = [sessions EXCEPT ![id].phase = "Approved", ![id].wanted = <<>>]
        PROVE  \/ /\ sessions'[t] = sessions[t]
                  /\ ~(sessions[t].phase = "AwaitApproval" /\ sessions[t].req = req)
               \/ /\ approve /\ Live(t) /\ sessions[t].req = req
                  /\ sessions'[t].phase = "Approved" /\ sessions'[t].req = req
    <3>1. id \in TransferIds /\ sessions[id].phase = "AwaitApproval" /\ sessions[id].req = req
      BY DEF SessionForRequest
    <3>2. t # id => sessions[t].phase # "AwaitApproval" \/ sessions[t].req # req
      BY <3>1 DEF SessionsSound, Live
    <3>3. sessions[id] \in Session
      BY <3>1, SessionTyped DEF TypeOK
    <3>4. t = id => sessions'[t].phase = "Approved" /\ sessions'[t].req = req
      BY <2>3, <3>1, <3>3 DEF TypeOK, ManagerTypeOK, Session
    <3>5. t # id => sessions'[t] = sessions[t]
      BY <2>3, <3>1 DEF TypeOK, ManagerTypeOK
    <3> QED
      BY <2>3, <3>1, <3>2, <3>4, <3>5 DEF Live
  <2>4. \A id \in SessionForRequest(req) : Live(id)
    BY DEF SessionForRequest, Live
  <2> QED
    BY <2>1, <2>2, <2>3, <2>4 DEF Approve, Reject, RejectSession
<1>5. SessionsSound'
  <2>1. \A t \in TransferIds : SoundSession(t)'
    <3> SUFFICES ASSUME NEW t \in TransferIds PROVE SoundSession(t)'
      OBVIOUS
    <3>1. SoundSession(t)
      BY DEF SessionsSound
    <3>2. CASE sessions'[t] = sessions[t]
      <4>1. Waiting(t) => sessions[t].req # req
        BY <1>1, <1>4, <3>2 DEF Waiting, Answerable, Collecting, Live, Absent
      <4> QED
        BY <1>2, <1>3, <3>1, <3>2, <4>1 DEF SoundSession, Waiting, Live
    <3>3. CASE sessions'[t] = Absent
      BY <3>3 DEF SoundSession, Waiting, Live, Absent
    <3>4. CASE approve /\ Live(t) /\ sessions'[t].phase = "Approved" /\ sessions'[t].req = req
      BY <1>1, <1>2, <1>3, <3>4 DEF SoundSession, Waiting, Live, Answerable
    <3> QED
      BY <1>4, <3>2, <3>3, <3>4
  <2>2. \A t, other \in TransferIds :
           Live(t)' /\ Live(other)' /\ sessions'[t].req = sessions'[other].req => t = other
    BY <1>4 DEF SessionsSound, Live, Absent
  <2> QED
    BY <2>1, <2>2 DEF SessionsSound
<1>6. ASSUME NEW r \in Nat, r # req, Answerable(r) PROVE Answerable(r)'
  BY <1>2, <1>3, <1>4, <1>6 DEF Answerable, Collecting, Absent
<1>7. PromptsSound'
  BY <1>6 DEF PromptsSound, PendingWithout, TypeOK, WorkerTypeOK
<1>8. ActionsSound'
  <2>1. CASE actions' = <<>>
    BY <2>1 DEF ActionsSound
  <2>2. ASSUME NEW id \in TransferIds, actions' = Farewell(id, TRUE) PROVE ActionsSound'
    BY <2>2, FarewellPlain, PlainSound DEF ActionsSound
  <2>3. ASSUME NEW id \in SessionForRequest(req), approve,
               actions' = StatusResponse(id, sessions[id].quiet, FALSE, FALSE)
                          \o IF sessions[id].dir = "Receive"
                             THEN ListingOf(id, sessions[id]) ELSE <<>>
        PROVE  ActionsSound'
    <3>1. id \in TransferIds /\ sessions[id].req = req /\ sessions[id] \in Session
      BY SessionTyped DEF SessionForRequest, TypeOK
    <3>2. ActionFor(req) \subseteq SoundAction'
      BY <1>2, <2>3 DEF ActionFor, SoundAction
    <3>3. ListingOf(id, sessions[id]) \in Seq(SoundAction')
      BY <3>1, <3>2, ListingFor, SeqMonotonic
    <3>4. StatusResponse(id, sessions[id].quiet, FALSE, FALSE) \in Seq(SoundAction')
      BY <3>1, StatusPlain, PlainSound
    <3>5. <<>> \in Seq(SoundAction')
      OBVIOUS
    <3> QED
      BY <2>3, <3>3, <3>4, <3>5, ConcatProperties DEF ActionsSound
  <2>4. \A id \in SessionForRequest(req) : id \in TransferIds
    BY DEF SessionForRequest
  <2> QED
    BY <2>1, <2>2, <2>3, <2>4 DEF Approve, Reject, RejectSession, Answer, EndSession
<1>9. HistorySound'
  BY <1>1, <1>2, <1>3 DEF HistorySound, Answerable
<1> QED
  BY <1>5, <1>7, <1>8, <1>9

------------------------------------------------------------------------------
(* What the actor keeps.                                                   *)

(* Steps that leave the state machine and its decisions alone.             *)
LEMMA FrameKeeps ==
    ASSUME SessionsSound, ActionsSound, PromptsSound, HistorySound, WorkerTypeOK,
           UNCHANGED <<sessions, nextRequestId, actions, decided, executed>>,
           pending' \subseteq pending, consented \subseteq consented'
    PROVE  SessionsSound' /\ ActionsSound' /\ PromptsSound' /\ HistorySound'
<1>1. /\ Granted' = Granted /\ Refused' = Refused /\ Decided' = Decided
      /\ Consented \subseteq Consented'
  BY DEF Granted, Refused, Decided, Consented
<1>2. \A req \in Nat : Answerable(req) => Answerable(req)'
  BY <1>1 DEF Answerable, Collecting
<1>3. SessionsSound'
  BY <1>1 DEF SessionsSound, SoundSession, Waiting, Live
<1>4. ActionsSound'
  BY <1>1, <1>2, SoundActionGrows DEF ActionsSound
<1>5. PromptsSound'
  BY <1>2 DEF PromptsSound, WorkerTypeOK
<1>6. HistorySound'
  BY <1>1 DEF HistorySound
<1> QED
  BY <1>3, <1>4, <1>5, <1>6

(* Steps that put no answer on its way.                                    *)
LEMMA AnswersKeep ==
    ASSUME AnswersSound, consented \subseteq consented',
           \/ chan' \in {chan, <<>>}
           \/ chan # <<>> /\ chan' = Tail(chan)
           \/ \E m \in Message : m.kind # "Approval" /\ chan' = Append(chan, m),
           \A c \in Clients : client'[c] = client[c] \/ client'[c].pc # "sending"
    PROVE  AnswersSound'
<1>1. SoundMessage \subseteq SoundMessage'
  BY DEF SoundMessage
<1>2. ASSUME NEW q \in Seq(SoundMessage) PROVE q \in Seq(SoundMessage')
  BY <1>1, SeqMonotonic
<1>3. chan' \in Seq(SoundMessage')
  <2>1. CASE chan' = chan
    BY <1>2, <2>1 DEF AnswersSound
  <2>2. CASE chan' = <<>>
    BY <2>2
  <2>3. CASE chan # <<>> /\ chan' = Tail(chan)
    BY <1>2, <2>3, HeadTailProperties DEF AnswersSound
  <2>4. ASSUME NEW m \in Message, m.kind # "Approval", chan' = Append(chan, m)
        PROVE  chan' \in Seq(SoundMessage')
    <3>1. m \in SoundMessage
      BY <2>4 DEF SoundMessage
    <3> QED
      BY <1>2, <2>4, <3>1, AppendProperties DEF AnswersSound
  <2> QED
    BY <2>1, <2>2, <2>3, <2>4
<1>4. \A c \in Clients :
         client'[c].pc = "sending" /\ client'[c].approve => client'[c].req \in consented'
  BY DEF AnswersSound
<1> QED
  BY <1>3, <1>4 DEF AnswersSound

(* The initial states.                                                     *)
LEMMA ConsentInit == Init => ConsentInv
<1> SUFFICES ASSUME Init PROVE ConsentInv
  OBVIOUS
<1>1. TypeOK
  BY TypeInit
<1>2. SessionsSound
  BY DEF Init, ManagerInit, Absent, SessionsSound, SoundSession, Waiting, Live
<1>3. ActionsSound /\ ListTakenUp
  BY DEF Init, ManagerInit, ActionsSound, ListTakenUp
<1>4. PromptsSound
  BY DEF Init, PromptsSound
<1>5. chan \in Seq(SoundMessage)
  BY DEF Init
<1>6. AnswersSound
  BY <1>5 DEF Init, AnswersSound, IdleCaller
<1>7. HistorySound
  BY DEF Init, HistorySound, Granted, Refused, Decided
<1> QED
  BY <1>1, <1>2, <1>3, <1>4, <1>6, <1>7 DEF ConsentInv

(* The PTY reader, the shutdown callers, the gate and time decide nothing. *)
LEMMA SurroundingsKeep ==
    ASSUME ConsentInv, TypeOK',
           \/ ReaderNext \/ Destroy \/ (\E k \in Closers : CloserNext(k))
           \/ GateNext \/ TimePasses \/ Tick
    PROVE  ConsentInv'
<1>1. /\ UNCHANGED <<sessions, nextRequestId, actions, pending, client, consented,
                     decided, executed>>
      /\ worker' \in {worker, "dispatch"}
  BY DEF ReaderNext, ReadCommand, CountQueued, RecheckAccepting, UncountQueued, SendCommand,
     SendCommandFails, ReaderEof, Destroy, CloserNext, SendShutdown, SendShutdownFails,
     ClearRegistry, GateNext, Quiesce, LoadActive, LoadQueued, Resume, TimePasses,
     PromptAges, TransferAges, Tick, managerVars, workerVars, historyVars, callerVars
<1>2. \/ chan' = chan
      \/ \E m \in Message : m.kind # "Approval" /\ chan' = Append(chan, m)
  <2>1. CASE SendCommand
    <3>1. readerCmd \in Commands
      BY <2>1 DEF SendCommand, ConsentInv, TypeOK, CallerTypeOK
    <3>2. [kind |-> "Protocol", cmd |-> readerCmd] \in Message
      BY <3>1 DEF Message
    <3> QED
      BY <2>1, <3>2 DEF SendCommand
  <2>2. ASSUME NEW k \in Closers, SendShutdown(k)
        PROVE  \E m \in Message : m.kind # "Approval" /\ chan' = Append(chan, m)
    <3>1. [kind |-> "Shutdown", by |-> k] \in Message
      BY DEF Message
    <3> QED
      BY <2>2, <3>1 DEF SendShutdown
  <2>3. CASE chan' = chan
    BY <2>3
  <2> QED
    BY <2>1, <2>2, <2>3
    DEF ReaderNext, ReadCommand, CountQueued, RecheckAccepting, UncountQueued,
     SendCommandFails, ReaderEof, Destroy, CloserNext, SendShutdownFails,
     ClearRegistry, GateNext, Quiesce, LoadActive, LoadQueued, Resume, TimePasses,
     PromptAges, TransferAges, Tick, controlVars
<1>3. SessionsSound' /\ ActionsSound' /\ PromptsSound' /\ HistorySound'
  BY <1>1, FrameKeeps DEF ConsentInv, TypeOK
<1>4. AnswersSound'
  BY <1>1, <1>2, AnswersKeep DEF ConsentInv
<1>5. ListTakenUp'
  BY <1>1 DEF ConsentInv, ListTakenUp
<1> QED
  BY <1>3, <1>4, <1>5 DEF ConsentInv

(* A client's answer carries the consent of its user to the worker.        *)
LEMMA ClientKeeps ==
    ASSUME ConsentInv, TypeOK', NEW c \in Clients, ClientNext(c)
    PROVE  ConsentInv'
<1>1. /\ UNCHANGED <<sessions, nextRequestId, actions, pending, worker, decided, executed>>
      /\ consented \subseteq consented'
  BY DEF ClientNext, Respond, SendApproval, SendApprovalFails, managerVars, workerVars,
     historyVars
<1>2. SessionsSound' /\ ActionsSound' /\ PromptsSound' /\ HistorySound'
  BY <1>1, FrameKeeps DEF ConsentInv, TypeOK
<1>3. AnswersSound'
  <2>1. ASSUME NEW req \in registry, NEW approve \in BOOLEAN, Respond(c, req, approve)
        PROVE  AnswersSound'
    <3>1. SoundMessage \subseteq SoundMessage'
      BY <1>1 DEF SoundMessage
    <3>2. chan' \in Seq(SoundMessage')
      BY <2>1, <3>1, SeqMonotonic DEF Respond, controlVars, ConsentInv, AnswersSound
    <3>3. \A d \in Clients : d # c => client'[d] = client[d]
      BY <2>1 DEF Respond, ConsentInv, TypeOK, CallerTypeOK
    <3>4. client'[c].req = req /\ (client'[c].approve => approve)
      BY <2>1 DEF Respond, ConsentInv, TypeOK, CallerTypeOK
    <3>5. approve => req \in consented'
      BY <2>1 DEF Respond
    <3> QED
      BY <1>1, <3>2, <3>3, <3>4, <3>5 DEF ConsentInv, AnswersSound
  <2>2. CASE SendApproval(c)
    <3> DEFINE m == [kind |-> "Approval", by |-> c, req |-> client[c].req,
                     approve |-> client[c].approve]
    <3>1. client[c] \in Caller
      BY DEF ConsentInv, TypeOK, CallerTypeOK
    <3>2. m \in Message
      BY <3>1 DEF Message, Caller
    <3>3. m.approve => m.req \in consented
      BY <2>2 DEF SendApproval, ConsentInv, AnswersSound
    <3>4. m \in SoundMessage
      BY <3>2, <3>3 DEF SoundMessage
    <3>5. SoundMessage' = SoundMessage
      BY <2>2 DEF SendApproval, SoundMessage, historyVars
    <3>6. chan' \in Seq(SoundMessage')
      BY <2>2, <3>4, <3>5, AppendProperties DEF SendApproval, ConsentInv, AnswersSound
    <3>7. \A d \in Clients : client'[d] = client[d] \/ client'[d].pc = "waiting"
      BY <2>2 DEF SendApproval, ConsentInv, TypeOK, CallerTypeOK, Caller
    <3> QED
      BY <1>1, <3>6, <3>7 DEF ConsentInv, AnswersSound
  <2>3. CASE SendApprovalFails(c)
    BY <1>1, <2>3, AnswersKeep
    DEF SendApprovalFails, ConsentInv, TypeOK, CallerTypeOK, IdleCaller, controlVars
  <2> QED
    BY <2>1, <2>2, <2>3 DEF ClientNext
<1>4. ListTakenUp'
  BY <1>1 DEF ConsentInv, ListTakenUp
<1> QED
  BY <1>2, <1>3, <1>4 DEF ConsentInv

(* A message taken off the queue; only an answer decides.                  *)
LEMMA RecvKeeps ==
    ASSUME ConsentInv, TypeOK', RecvNext
    PROVE  ConsentInv'
<1> USE HeadMessageTyped
<1> USE DEF ConsentInv, TypeOK, WorkerTypeOK, ControlTypeOK, CallerTypeOK, PromptTypeOK
<1>1. AnswersSound'
  <2>1. /\ chan # <<>> /\ chan' = Tail(chan) /\ consented' = consented
        /\ \A c \in Clients : client'[c] = client[c] \/ client'[c].pc # "sending"
    <3>1. CASE RecvProtocol
      BY <3>1 DEF RecvProtocol, historyVars, callerVars
    <3>2. CASE RecvStaleApproval
      BY <3>2 DEF RecvStaleApproval, historyVars, IdleCaller
    <3>3. CASE RecvLateApproval
      BY <3>3 DEF RecvLateApproval, historyVars, IdleCaller
    <3>4. CASE RecvApproval
      BY <3>4 DEF RecvApproval, IdleCaller
    <3>5. CASE RecvShutdown
      BY <3>5 DEF RecvShutdown, historyVars, callerVars
    <3> QED
      BY <3>1, <3>2, <3>3, <3>4, <3>5 DEF RecvNext
  <2> QED
    BY <2>1, AnswersKeep
<1>2. CASE RecvProtocol
  <2>1. /\ Head(chan).cmd \in Commands /\ Handle(Head(chan).cmd)
        /\ UNCHANGED <<pending, consented, decided, executed>> /\ worker' = "clear"
        /\ nextRequestId' \in Nat
    BY <1>2 DEF RecvProtocol, historyVars, ManagerTypeOK
  <2>2. SessionsSound' /\ ActionsSound' /\ PromptsSound'
    BY <2>1, HandleKeeps
  <2>3. nextRequestId' >= nextRequestId
    BY <2>1, HandleNumbers
  <2>4. HistorySound'
    <3>1. \A req \in Decided : req \in Nat
      BY DEF Decided, Granted, Refused
    <3> QED
      BY <2>1, <2>3, <3>1, HistoryUnchanged DEF HistorySound, ManagerTypeOK
  <2> QED
    BY <1>1, <2>1, <2>2, <2>4 DEF ListTakenUp
<1>3. CASE RecvStaleApproval \/ RecvShutdown
  <2>1. /\ UNCHANGED <<sessions, nextRequestId, actions, consented, decided, executed>>
        /\ pending' \subseteq pending /\ worker' \in {worker, "dispatch"}
    BY <1>3 DEF RecvStaleApproval, RecvShutdown, managerVars, workerVars, historyVars
  <2>2. SessionsSound' /\ ActionsSound' /\ PromptsSound' /\ HistorySound'
    BY <2>1, FrameKeeps
  <2> QED
    BY <1>1, <2>1, <2>2 DEF ListTakenUp
<1>4. CASE RecvLateApproval
  <2>1. PICK req \in Nat : Reject(req)
    BY <1>4 DEF RecvLateApproval
  <2>2. UNCHANGED <<consented, decided, executed>> /\ pending' \subseteq pending
        /\ worker' = "dispatch"
    BY <1>4 DEF RecvLateApproval, PendingWithout, historyVars
  <2>3. SessionsSound' /\ ActionsSound' /\ PromptsSound'
    BY <2>1, <2>2, RejectKeeps
  <2>4. HistorySound'
    BY <2>1, <2>2, HistoryUnchanged
    DEF HistorySound, Reject, RejectSession, Answer, EndSession
  <2> QED
    BY <1>1, <2>2, <2>3, <2>4 DEF ListTakenUp
<1>5. CASE RecvApproval
  <2>1. PICK p \in pending :
          /\ p.req = Head(chan).req
          /\ pending' = PendingWithout({p.req})
          /\ IF Head(chan).approve THEN Approve(p.req) ELSE Reject(p.req)
          /\ decided' = decided \cup {[req |-> p.req, approve |-> Head(chan).approve]}
    BY <1>5 DEF RecvApproval
  <2>2. UNCHANGED <<consented, executed>> /\ worker' = "dispatch"
        /\ chan # <<>> /\ Head(chan).kind = "Approval"
    BY <1>5 DEF RecvApproval
  <2>3. Head(chan) \in SoundMessage
    BY <2>2, HeadTailProperties DEF AnswersSound
  <2>4. Head(chan).approve => p.req \in consented
    BY <2>1, <2>2, <2>3 DEF SoundMessage
  <2>5. Head(chan).approve \in BOOLEAN
    BY <2>2
  <2>6. SessionsSound' /\ ActionsSound' /\ PromptsSound' /\ HistorySound'
    BY <2>1, <2>2, <2>4, <2>5, DecisionKeeps
  <2> QED
    BY <1>1, <2>2, <2>6 DEF ListTakenUp
<1> QED
  BY <1>2, <1>3, <1>4, <1>5 DEF RecvNext

(* The action the worker is about to dispatch, and those after it.         *)
LEMMA HeadActionSound ==
    ASSUME ActionsSound, actions # <<>>
    PROVE  /\ Head(actions) \in SoundAction
           /\ Tail(actions) \in Seq(SoundAction)
BY HeadTailProperties DEF ActionsSound

(* Dispatching one action: prompts shown are open, work done was granted.  *)
LEMMA DispatchKeeps ==
    ASSUME ConsentInv, TypeOK',
           DispatchWrite \/ DispatchRequest \/ DispatchExecute \/ DispatchAbort
    PROVE  ConsentInv'
<1> DEFINE a == Head(actions)
<1>1. /\ actions # <<>> /\ actions' = Tail(actions) /\ worker' = "dispatch"
      /\ UNCHANGED <<sessions, nextRequestId, chan, client, consented, decided>>
  BY DEF DispatchWrite, DispatchRequest, DispatchExecute, DispatchAbort, Dispatching,
     workerVars, controlVars, callerVars, historyVars
<1>2. a \in SoundAction /\ Tail(actions) \in Seq(SoundAction)
  BY <1>1, HeadActionSound DEF ConsentInv
<1>3. /\ Granted' = Granted /\ Refused' = Refused /\ Decided' = Decided
      /\ Consented' = Consented
  BY <1>1, HistoryUnchanged
<1>4. \A req : Answerable(req) => Answerable(req)'
  BY <1>1, <1>3 DEF Answerable, Collecting
<1>5. SessionsSound'
  BY <1>1, <1>3 DEF ConsentInv, SessionsSound, SoundSession, Waiting, Live
<1>6. ActionsSound'
  BY <1>1, <1>2, <1>3, <1>4, SoundActionGrows DEF ActionsSound
<1>7. PromptsSound'
  <2>1. CASE DispatchRequest
    <3>1. Answerable(a.req)
      BY <1>2, <2>1 DEF DispatchRequest, Dispatching, SoundAction
    <3>2. pending' = pending \cup {[req |-> a.req, id |-> a.id]}
      BY <2>1 DEF DispatchRequest
    <3>3. \A p \in pending' : Answerable(p.req)
      BY <3>1, <3>2 DEF ConsentInv, PromptsSound
    <3> QED
      BY <1>4, <3>3 DEF PromptsSound
  <2>2. CASE pending' = pending
    BY <1>4, <2>2 DEF ConsentInv, PromptsSound
  <2> QED
    BY <2>1, <2>2 DEF DispatchWrite, DispatchExecute, DispatchAbort, workerVars
<1>8. AnswersSound'
  BY <1>1, AnswersKeep DEF ConsentInv
<1>9. executed' \subseteq Consented
  <2>1. CASE DispatchExecute
    BY <1>2, <2>1
    DEF DispatchExecute, Dispatching, SoundAction, ConsentInv, HistorySound
  <2>2. CASE executed' = executed
    BY <2>2 DEF ConsentInv, HistorySound
  <2> QED
    BY <2>1, <2>2 DEF DispatchWrite, DispatchRequest, DispatchAbort, historyVars
<1>10. HistorySound'
  BY <1>1, <1>3, <1>9 DEF ConsentInv, HistorySound
<1> QED
  BY <1>1, <1>5, <1>6, <1>7, <1>8, <1>10 DEF ConsentInv, ListTakenUp

(* The worker returns, with or without the last action half done.          *)
LEMMA StopKeeps ==
    ASSUME ConsentInv, TypeOK', DispatchFails \/ FinishShutdown
    PROVE  ConsentInv'
<1>1. /\ DropWorkerState
      /\ UNCHANGED <<chan, client, consented, decided>>
  BY DEF DispatchFails, FinishShutdown, controlVars, historyVars
<1>2. /\ Granted' = Granted /\ Refused' = Refused /\ Decided' = Decided
      /\ Consented' = Consented
  BY <1>1, HistoryUnchanged
<1>3. SessionsSound'
  BY <1>1 DEF DropWorkerState, SessionsSound, SoundSession, Waiting, Live, Absent
<1>4. actions' \in Seq(SoundAction')
  BY <1>1 DEF DropWorkerState
<1>5. PromptsSound'
  BY <1>1 DEF DropWorkerState, PromptsSound
<1>6. AnswersSound'
  BY <1>1, AnswersKeep DEF ConsentInv
<1>7. executed' \subseteq Consented
  <2>1. CASE DispatchFails
    <3>1. actions # <<>> => Head(actions) \in SoundAction
      BY HeadActionSound DEF ConsentInv
    <3> QED
      BY <2>1, <3>1 DEF DispatchFails, SoundAction, ConsentInv, HistorySound
  <2>2. CASE FinishShutdown
    BY <2>2 DEF FinishShutdown, historyVars, ConsentInv, HistorySound
  <2> QED
    BY <2>1, <2>2
<1>8. HistorySound'
  BY <1>1, <1>2, <1>7 DEF DropWorkerState, ConsentInv, HistorySound
<1>9. ListTakenUp'
  BY <1>1 DEF DropWorkerState, ListTakenUp
<1> QED
  BY <1>3, <1>4, <1>5, <1>6, <1>8, <1>9 DEF ConsentInv, ActionsSound

(* Everything else the worker does.                                        *)
LEMMA WorkKeeps ==
    ASSUME ConsentInv, TypeOK', WorkNext
    PROVE  ConsentInv'
<1>1. CASE DispatchWrite \/ DispatchRequest \/ DispatchExecute \/ DispatchAbort
  BY <1>1, DispatchKeeps
<1>2. CASE DispatchFails \/ FinishShutdown
  BY <1>2, StopKeeps
<1>3. CASE ClearDismissed \/ FinishProtocol \/ FinishApproval \/ FinishTick
           \/ ResetActive \/ ResetQueued \/ CloseReceiver
  <2>1. /\ UNCHANGED <<sessions, nextRequestId, actions, consented, decided, executed>>
        /\ pending' \subseteq pending
        /\ worker' = "recv" => actions = <<>>
    BY <1>3 DEF ClearDismissed, FinishProtocol, FinishApproval, FinishTick, ResetActive,
       ResetQueued, CloseReceiver, Drained, PendingWithout, managerVars, historyVars
  <2>2. chan' \in {chan, <<>>}
    BY <1>3 DEF ClearDismissed, FinishProtocol, FinishApproval, FinishTick, ResetActive,
       ResetQueued, CloseReceiver, controlVars
  <2>3. \A c \in Clients : client'[c] = client[c] \/ client'[c].pc # "sending"
    BY <1>3 DEF ClearDismissed, FinishProtocol, FinishApproval, FinishTick, ResetActive,
       ResetQueued, CloseReceiver, callerVars, IdleCaller
  <2>4. SessionsSound' /\ ActionsSound' /\ PromptsSound' /\ HistorySound'
    BY <2>1, FrameKeeps DEF ConsentInv, TypeOK
  <2>5. AnswersSound'
    BY <2>1, <2>2, <2>3, AnswersKeep DEF ConsentInv
  <2> QED
    BY <2>1, <2>4, <2>5 DEF ConsentInv, ListTakenUp
<1>4. CASE RejectNext \/ (\E req \in PendingRequests : ExpirePrompt(req))
           \/ (\E id \in TransferIds : ExpireTransfer(id))
  <2>1. /\ UNCHANGED <<chan, client, consented, decided, executed, worker>>
        /\ worker = "dispatch" /\ pending' \subseteq pending
    BY <1>4 DEF RejectNext, ExpirePrompt, ExpireTransfer, Drained, PendingWithout,
       controlVars, callerVars, historyVars, workerVars
  <2>2. (\E id \in TransferIds : RejectSession(id)) \/ (\E req : Reject(req))
    BY <1>4 DEF RejectNext, ExpirePrompt, ExpireTransfer, LiveSessions
  <2>3. SessionsSound' /\ ActionsSound' /\ PromptsSound'
    BY <2>1, <2>2, RejectSessionKeeps, RejectKeeps DEF ConsentInv
  <2>4. nextRequestId' = nextRequestId
    BY <2>2 DEF Reject, RejectSession, Answer, EndSession
  <2>5. HistorySound'
    BY <2>1, <2>4, HistoryUnchanged DEF ConsentInv, HistorySound
  <2>6. AnswersSound'
    BY <2>1, AnswersKeep DEF ConsentInv
  <2> QED
    BY <2>1, <2>3, <2>5, <2>6 DEF ConsentInv, ListTakenUp
<1> QED
  BY <1>1, <1>2, <1>3, <1>4 DEF WorkNext

(* The invariant is inductive.                                             *)
LEMMA ConsentStep == ConsentInv /\ [Next]_vars => ConsentInv'
<1> SUFFICES ASSUME ConsentInv, [Next]_vars PROVE ConsentInv'
  OBVIOUS
<1>1. TypeOK'
  BY TypeStep DEF ConsentInv
<1>2. CASE UNCHANGED vars
  <2>1. UNCHANGED <<sessions, nextRequestId, actions, pending, worker, chan, client,
                    consented, decided, executed>>
    BY <1>2 DEF vars, managerVars, workerVars, controlVars, callerVars, historyVars
  <2>2. SessionsSound' /\ ActionsSound' /\ PromptsSound' /\ HistorySound'
    BY <2>1, FrameKeeps DEF ConsentInv, TypeOK
  <2>3. AnswersSound'
    BY <2>1, AnswersKeep DEF ConsentInv
  <2> QED
    BY <1>1, <2>1, <2>2, <2>3 DEF ConsentInv, ListTakenUp
<1> QED
  BY <1>1, <1>2, SurroundingsKeep, ClientKeeps, RecvKeeps, WorkKeeps DEF Next, Terminated

(* The strengthened promise holds in every state: no action waiting to be  *)
(* dispatched, no session and no answer in flight is ahead of a consent.   *)
THEOREM ConsentIsInvariant == Spec => []ConsentInv
<1>1. Init => ConsentInv
  BY ConsentInit
<1>2. ConsentInv /\ [Next]_vars => ConsentInv'
  BY ConsentStep
<1> QED
  BY <1>1, <1>2, PTL DEF Spec

(* Whatever the process in the terminal sends and however clients, timers, *)
(* shutdown and relaunch interleave, the filesystem executor works only    *)
(* for a request a user approved and never for one that was refused.       *)
THEOREM ConsentCorrect == Spec => []ConsentBeforeEffect
<1>1. ConsentInv => ConsentBeforeEffect
  BY DEF ConsentInv, HistorySound, ConsentBeforeEffect, Consented
<1> QED
  BY <1>1, ConsentIsInvariant, PTL

(* No request is decided twice: the worker takes an answer only for a      *)
(* request nobody has granted or refused before.                           *)
THEOREM DecidedOnceCorrect == Spec => DecidedOnce
<1>1. ConsentInv /\ [Next]_vars => [RecvApproval => Head(chan).req \notin Granted \cup Refused]_vars
  BY DEF ConsentInv, PromptsSound, Answerable, Decided, RecvApproval
<1> QED
  BY <1>1, ConsentIsInvariant, PTL DEF Spec, DecidedOnce

------------------------------------------------------------------------------
(* Staging and listing follow consent.  StagingInv says it in every state  *)
(* on the way: what an action on the list does is right for the session it *)
(* was made for, what is staged belongs to the session that holds the id   *)
(* or is about to be shut, and every open prompt shows the paths of its    *)
(* session.                                                                *)

(* What an action does to the staging of its transfer: the first File of a *)
(* session and its Complete open an entry, an Abort and the closing        *)
(* command shut it.                                                        *)
Opens(a) == a.type = "Complete" \/ (a.type = "Execute" /\ a.op = "File")
Shuts(a) == a.type = "Abort" \/ (a.type = "Execute" /\ Closes(a.dir, a.op))
Ends(a)  == a.type = "Write" /\ a.ends
Lists(a) == a.type = "Execute" /\ a.dir = "Receive" /\ a.op = "File"

Owns(id, req) == sessions[id].phase = "Approved" /\ sessions[id].req = req

PathsOf(session) == [i \in DOMAIN session.wanted |-> session.wanted[i].path]

WasShown(req, path) ==
    \E s \in shown : s.req = req /\ \E k \in DOMAIN s.paths : s.paths[k] = path

(* An action on the list, seen from the session it belongs to.             *)
ItemSound(a, last) ==
    /\ Opens(a) => Owns(a.id, a.req)
    /\ Shuts(a) => ~Live(a.id)
    /\ Ends(a) => last /\ ~Live(a.id)
    /\ Lists(a) => fs[a.id].complete \/ WasShown(a.req, a.path)
    /\ a.type = "RequestApproval" =>
          /\ sessions[a.id].phase = "AwaitApproval" /\ sessions[a.id].req = a.req
          /\ a.paths = PathsOf(sessions[a.id])

ListSound == \A i \in DOMAIN actions : ItemSound(actions[i], i = Len(actions))

(* Every entry of the filesystem executor belongs to the session that      *)
(* holds the id, or the action that shuts it is still on the list.         *)
EntrySound(id) ==
    /\ fs[id].owner # 0 =>
          \/ Owns(id, fs[id].owner)
          \/ \E i \in DOMAIN actions : Shuts(actions[i]) /\ actions[i].id = id
    /\ fs[id].owner = 0 => fs[id] = Closed
    /\ sessions[id].phase = "Approved" /\ sessions[id].dir = "Receive" =>
          \/ fs[id].complete
          \/ \E i \in DOMAIN actions : actions[i].type = "Complete" /\ actions[i].id = id
    /\ Live(id) => sessions[id].req # 0

(* Every prompt the worker waits for shows the paths its session asks for. *)
PromptsExact ==
    \A p \in pending, id \in TransferIds :
        sessions[id].phase = "AwaitApproval" /\ sessions[id].req = p.req
        => [req |-> p.req, paths |-> PathsOf(sessions[id])] \in shown

StagingInv == ListSound /\ (\A id \in TransferIds : EntrySound(id)) /\ PromptsExact

(* Nothing is staged, asked or listed in the beginning.                    *)
LEMMA StagingInit == Init => StagingInv
<1> SUFFICES ASSUME Init PROVE StagingInv
  OBVIOUS
<1>1. DOMAIN actions = {}
  BY DEF Init, ManagerInit
<1>2. ListSound
  BY <1>1 DEF ListSound
<1>3. \A id \in TransferIds : EntrySound(id)
  BY DEF Init, ManagerInit, EntrySound, Closed, Absent, Live
<1>4. PromptsExact
  BY DEF Init, PromptsExact
<1> QED
  BY <1>2, <1>3, <1>4 DEF StagingInv

(* A reply that ends session id: an abort or the closing command if it had *)
(* staging, and the announcement last.                                     *)
LastReply(id, reply) ==
    /\ reply \in Seq(Action)
    /\ \A i \in DOMAIN reply :
          /\ reply[i].id = id
          /\ ~Opens(reply[i]) /\ ~Lists(reply[i]) /\ reply[i].type # "RequestApproval"
          /\ Ends(reply[i]) => i = Len(reply)
    /\ sessions[id].phase = "Approved" => \E i \in DOMAIN reply : Shuts(reply[i])

(* A status reply is one write at most.                                    *)
LEMMA StatusItems ==
    ASSUME NEW id \in TransferIds, NEW quiet, NEW isError, NEW ends \in BOOLEAN
    PROVE  /\ StatusResponse(id, quiet, isError, ends) \in Seq(Action)
           /\ Len(StatusResponse(id, quiet, isError, ends)) \in {0, 1}
           /\ \A i \in 1..Len(StatusResponse(id, quiet, isError, ends)) :
                 StatusResponse(id, quiet, isError, ends)[i]
                 = [type |-> "Write", id |-> id, ends |-> ends]
<1> DEFINE write == [type |-> "Write", id |-> id, ends |-> ends]
<1>1. CASE StatusResponse(id, quiet, isError, ends) = <<>>
  BY <1>1
<1>2. CASE StatusResponse(id, quiet, isError, ends) = <<write>>
  BY <1>2, WriteTyped
<1> QED
  BY <1>1, <1>2 DEF StatusResponse

(* A farewell ends its session.                                            *)
LEMMA FarewellLast ==
    ASSUME NEW id \in TransferIds, NEW isError
    PROVE  LastReply(id, Farewell(id, isError))
<1> DEFINE abort == [type |-> "Abort", id |-> id]
           write == [type |-> "Write", id |-> id, ends |-> TRUE]
           first == IF sessions[id].phase = "Approved" THEN AbortOf(id) ELSE <<>>
           rest  == StatusResponse(id, sessions[id].quiet, isError, TRUE)
<1>1. /\ first \in Seq(Action) /\ Len(first) \in {0, 1}
      /\ \A i \in 1..Len(first) : first[i] = abort
      /\ sessions[id].phase = "Approved" => Len(first) = 1
  <2>1. abort \in Action
    BY DEF Action
  <2> QED
    BY <2>1 DEF AbortOf
<1>2. /\ rest \in Seq(Action) /\ Len(rest) \in {0, 1}
      /\ \A i \in 1..Len(rest) : rest[i] = write
  <2>1. \A quiet : /\ StatusResponse(id, quiet, isError, TRUE) \in Seq(Action)
                   /\ Len(StatusResponse(id, quiet, isError, TRUE)) \in {0, 1}
    BY StatusItems
  <2>2. \A quiet : \A i \in 1..Len(StatusResponse(id, quiet, isError, TRUE)) :
                StatusResponse(id, quiet, isError, TRUE)[i] = write
    BY StatusItems
  <2> QED
    BY <2>1, <2>2
<1>3. /\ ~Opens(abort) /\ ~Lists(abort) /\ Shuts(abort) /\ ~Ends(abort)
      /\ abort.id = id /\ abort.type # "RequestApproval"
  BY DEF Opens, Lists, Shuts, Ends
<1>4. /\ ~Opens(write) /\ ~Lists(write) /\ write.id = id /\ write.type # "RequestApproval"
  BY DEF Opens, Lists
<1> HIDE DEF abort, write, first, rest
<1> DEFINE reply == first \o rest
<1>5. /\ reply \in Seq(Action) /\ Len(reply) = Len(first) + Len(rest)
      /\ \A i \in 1..(Len(first) + Len(rest)) :
            reply[i] = IF i <= Len(first) THEN first[i] ELSE rest[i - Len(first)]
  BY <1>1, <1>2, ConcatProperties
<1>6. DOMAIN reply = 1..(Len(first) + Len(rest))
  BY <1>5, LenProperties
<1>7. ASSUME NEW i \in DOMAIN reply
      PROVE  \/ i <= Len(first) /\ reply[i] = abort
             \/ i = Len(first) + Len(rest) /\ reply[i] = write
  BY <1>1, <1>2, <1>5, <1>6
<1>8. sessions[id].phase = "Approved" => 1 \in DOMAIN reply /\ reply[1] = abort
  BY <1>1, <1>2, <1>5, <1>6
<1>9. reply = Farewell(id, isError)
  BY DEF Farewell, first, rest
<1> HIDE DEF reply
<1>10. LastReply(id, reply)
  BY <1>3, <1>4, <1>5, <1>7, <1>8 DEF LastReply
<1> QED
  BY <1>9, <1>10

(* Ending a session: its staging is shut before the last word is said.     *)
LEMMA EndStages ==
    ASSUME ManagerTypeOK, StagingInv, actions = <<>>, NEW id \in TransferIds, NEW reply,
           LastReply(id, reply), EndSession(id, reply),
           UNCHANGED <<fs, shown>>, pending' \subseteq pending
    PROVE  StagingInv'
<1>1. /\ \A t \in TransferIds : t # id => sessions'[t] = sessions[t]
      /\ sessions'[id] = Absent /\ actions' = reply
  BY DEF EndSession, ManagerTypeOK
<1>2. DOMAIN actions = {}
  OBVIOUS
<1>3. ListSound'
  BY <1>1 DEF ListSound, ItemSound, LastReply, Live, Absent
<1>4. ASSUME NEW t \in TransferIds PROVE EntrySound(t)'
  <2>1. CASE t = id
    <3>1. fs[id].owner # 0 => sessions[id].phase = "Approved"
      BY <1>2 DEF StagingInv, EntrySound, Owns
    <3> QED
      BY <1>1, <2>1, <3>1 DEF StagingInv, EntrySound, LastReply, Live, Absent
  <2>2. CASE t # id
    BY <1>1, <1>2, <2>2 DEF StagingInv, EntrySound, Owns, Live
  <2> QED
    BY <2>1, <2>2
<1>5. PromptsExact'
  BY <1>1 DEF StagingInv, PromptsExact, Absent
<1> QED
  BY <1>3, <1>4, <1>5 DEF StagingInv

(* A step that ends no session: what changes has no staging yet.           *)
LEMMA OpenStages ==
    ASSUME StagingInv, actions = <<>>, UNCHANGED <<fs, shown>>,
           pending' \subseteq pending, ListSound',
           \A t \in TransferIds :
              \/ sessions'[t] = sessions[t]
              \/ /\ sessions[t].phase # "Approved" /\ sessions'[t].req # 0
                 /\ sessions'[t].phase = "AwaitApproval" =>
                       \A p \in pending : p.req # sessions'[t].req
                 /\ sessions'[t].phase = "Approved" /\ sessions'[t].dir = "Receive" =>
                       \E i \in DOMAIN actions' :
                          actions'[i].type = "Complete" /\ actions'[i].id = t
    PROVE  StagingInv'
<1>1. DOMAIN actions = {}
  OBVIOUS
<1>2. ASSUME NEW t \in TransferIds PROVE EntrySound(t)'
  BY <1>1 DEF StagingInv, EntrySound, Owns, Live
<1>3. PromptsExact'
  BY DEF StagingInv, PromptsExact
<1> QED
  BY <1>2, <1>3 DEF StagingInv

(* Answering without touching a session.                                   *)
LEMMA AnswerStages ==
    ASSUME StagingInv, actions = <<>>, NEW reply, Answer(reply),
           UNCHANGED <<fs, shown>>, pending' \subseteq pending,
           \A i \in DOMAIN reply : ItemSound(reply[i], i = Len(reply))
    PROVE  StagingInv'
<1>1. sessions' = sessions /\ actions' = reply
  BY DEF Answer
<1>2. ListSound'
  BY <1>1 DEF ListSound, ItemSound, Owns, Live, WasShown
<1> QED
  BY <1>1, <1>2, OpenStages

(* An error for an unknown or refused command says nothing of a session.   *)
LEMMA ErrorStages ==
    ASSUME StagingInv, actions = <<>>, NEW id \in TransferIds, NEW quiet, NEW isError,
           Answer(StatusResponse(id, quiet, isError, FALSE)),
           UNCHANGED <<fs, shown>>, pending' \subseteq pending
    PROVE  StagingInv'
<1> DEFINE reply == StatusResponse(id, quiet, isError, FALSE)
           write == [type |-> "Write", id |-> id, ends |-> FALSE]
<1>1. /\ reply \in Seq(Action)
      /\ \A i \in 1..Len(reply) : reply[i] = write
  BY StatusItems
<1>2. \A last : ItemSound(write, last)
  BY DEF ItemSound, Opens, Shuts, Ends, Lists
<1> HIDE DEF reply, write
<1>3. \A i \in DOMAIN reply : ItemSound(reply[i], i = Len(reply))
  BY <1>1, <1>2, LenProperties
<1>4. Answer(reply)
  BY DEF reply
<1> QED
  BY <1>3, <1>4, AnswerStages

(* An empty answer, too.                                                   *)
LEMMA NothingStages ==
    ASSUME StagingInv, actions = <<>>, Answer(<<>>),
           UNCHANGED <<fs, shown>>, pending' \subseteq pending
    PROVE  StagingInv'
<1>1. \A i \in DOMAIN <<>> : FALSE
  OBVIOUS
<1> QED
  BY <1>1, AnswerStages

(* A request asks for exactly what its session wants.                      *)
LEMMA RequestItem ==
    ASSUME NEW id, NEW session, NEW request, NEW last, request = Request(id, session),
           sessions'[id].phase = "AwaitApproval", sessions'[id].req = session.req,
           sessions'[id].wanted = session.wanted
    PROVE  ItemSound(request, last)'
BY DEF ItemSound, Request, PathsOf, Opens, Shuts, Ends, Lists

(* A new session has no staging, and no prompt shows its number.           *)
LEMMA StartStages ==
    ASSUME ConsentInv, StagingInv, actions = <<>>, NEW cmd \in Commands,
           cmd.op \in Directions, Start(cmd, cmd.op), UNCHANGED <<fs, shown, pending>>
    PROVE  StagingInv'
<1> USE CommandTyped
<1>1. CASE Answer(ErrorResponse(cmd))
  BY <1>1, ErrorStages DEF ErrorResponse
<1>2. CASE ~Answer(ErrorResponse(cmd))
  <2> DEFINE session == NewSession(cmd, cmd.op)
  <2>1. /\ ~StartRefused(cmd, cmd.op)
        /\ sessions' = [sessions EXCEPT ![cmd.id] = session]
        /\ actions' = (IF session.phase = "AwaitApproval"
                       THEN <<Request(cmd.id, session)>> ELSE <<>>)
    BY <1>2 DEF Start
  <2>2. session.req = nextRequestId /\ session.phase # "Approved"
    BY DEF NewSession
  <2> HIDE DEF session
  <2>3. /\ \A t \in TransferIds : t # cmd.id => sessions'[t] = sessions[t]
        /\ sessions'[cmd.id] = session
        /\ nextRequestId \in Nat \ {0}
    BY <2>1 DEF ConsentInv, TypeOK, ManagerTypeOK
  <2>4. sessions[cmd.id].phase # "Approved"
    BY <2>1 DEF StartRefused, Live
  <2>5. \A p \in pending : p.req # nextRequestId
    <3>1. \A p \in pending : p.req < nextRequestId /\ p.req \in Nat
      BY DEF ConsentInv, PromptsSound, Answerable, TypeOK, WorkerTypeOK
    <3> QED
      BY <2>3, <3>1
  <2>6. ListSound'
    <3>1. CASE actions' = <<>>
      BY <3>1 DEF ListSound
    <3>2. CASE actions' = <<Request(cmd.id, session)>> /\ session.phase = "AwaitApproval"
      <4> PICK request : request = Request(cmd.id, session)
        OBVIOUS
      <4>1. \A last : ItemSound(request, last)'
        BY <2>3, <3>2, RequestItem
      <4>2. actions' = <<request>>
        BY <3>2
      <4> QED
        BY <4>1, <4>2 DEF ListSound
    <3> QED
      BY <2>1, <3>1, <3>2
  <2> QED
    BY <2>2, <2>3, <2>4, <2>5, <2>6, OpenStages
<1> QED
  BY <1>1, <1>2

(* A session that collects paths has no staging either, and no prompt      *)
(* before its last path.                                                   *)
LEMMA CollectStages ==
    ASSUME ConsentInv, StagingInv, actions = <<>>, NEW cmd \in Commands,
           Collecting(cmd.id), CollectReceivePath(cmd), UNCHANGED <<fs, shown, pending>>
    PROVE  StagingInv'
<1> USE CommandTyped
<1> DEFINE id == cmd.id
           session == sessions[id]
           grown == [session EXCEPT !.wanted = Append(@, [file |-> cmd.file, path |-> cmd.path])]
           final == [grown EXCEPT !.phase = "AwaitApproval"]
<1>1. CASE EndSession(id, Farewell(id, TRUE))
  BY <1>1, EndStages, FarewellLast DEF ConsentInv, TypeOK
<1>2. CASE ~EndSession(id, Farewell(id, TRUE))
  <2>1. \/ sessions' = [sessions EXCEPT ![id] = grown] /\ actions' = <<>>
        \/ sessions' = [sessions EXCEPT ![id] = final] /\ actions' = <<Request(id, grown)>>
    BY <1>2 DEF CollectReceivePath
  <2>2. session \in Session /\ session.phase = "CollectReceivePaths" /\ session.req # 0
    BY SessionTyped DEF ConsentInv, TypeOK, Collecting, StagingInv, EntrySound, Live
  <2>3. /\ grown.req = session.req /\ grown.phase = "CollectReceivePaths"
        /\ final.req = session.req /\ final.phase = "AwaitApproval"
        /\ final.wanted = grown.wanted
    BY <2>2 DEF Session
  <2> HIDE DEF grown, final
  <2>4. /\ \A t \in TransferIds : t # id => sessions'[t] = sessions[t]
        /\ sessions'[id] \in {grown, final}
        /\ actions' # <<>> => sessions'[id] = final
    BY <2>1 DEF ConsentInv, TypeOK, ManagerTypeOK
  <2>5. \A p \in pending : p.req # session.req
    BY <2>2 DEF ConsentInv, PromptsSound, Answerable, Collecting
  <2>6. ListSound'
    <3>1. CASE actions' = <<>>
      BY <3>1 DEF ListSound
    <3>2. CASE actions' = <<Request(id, grown)>>
      <4> PICK request : request = Request(id, grown)
        OBVIOUS
      <4>1. sessions'[id] = final
        BY <2>4, <3>2
      <4>2. \A last : ItemSound(request, last)'
        BY <2>3, <4>1, RequestItem
      <4>3. actions' = <<request>>
        BY <3>2
      <4> QED
        BY <4>2, <4>3 DEF ListSound
    <3> QED
      BY <2>1, <3>1, <3>2
  <2> QED
    BY <2>2, <2>3, <2>4, <2>5, <2>6, OpenStages
<1> QED
  BY <1>1, <1>2

(* An approved session executes its own commands; the closing one ends it. *)
LEMMA ApprovedCommandStages ==
    ASSUME ConsentInv, StagingInv, actions = <<>>, NEW cmd \in Commands,
           sessions[cmd.id].phase = "Approved", CommandOfApproved(cmd),
           UNCHANGED <<fs, shown, pending>>
    PROVE  StagingInv'
<1> USE CommandTyped
<1> DEFINE id == cmd.id
           session == sessions[id]
           execute == AuthorizedCommand(id, session, cmd.op, cmd.path)
<1>1. /\ execute \in Action
      /\ execute.type = "Execute" /\ execute.id = id /\ execute.req = session.req
      /\ execute.dir = session.dir /\ execute.op = cmd.op
  <2>1. session \in Session
    BY SessionTyped DEF ConsentInv, TypeOK
  <2> QED
    BY <2>1, CommandFor DEF AuthorizedCommand, ActionFor
<1>2. CASE EndSession(id, Farewell(id, TRUE))
  BY <1>2, EndStages, FarewellLast DEF ConsentInv, TypeOK
<1>3. CASE Closes(session.dir, cmd.op) /\ EndSession(id, <<execute>>)
  <2>1. ~Opens(execute) /\ ~Lists(execute) /\ Shuts(execute) /\ ~Ends(execute)
    BY <1>1, <1>3 DEF Opens, Lists, Shuts, Ends, Closes
  <2> HIDE DEF execute
  <2>2. LastReply(id, <<execute>>)
    BY <1>1, <2>1 DEF LastReply
  <2> QED
    BY <1>3, <2>2, EndStages DEF ConsentInv, TypeOK
<1>4. CASE ~Closes(session.dir, cmd.op) /\ Answer(<<execute>>)
  <2>1. Owns(id, execute.req)
    BY <1>1 DEF Owns
  <2>2. session.dir = "Receive" => fs[id].complete
    <3>1. DOMAIN actions = {}
      OBVIOUS
    <3> QED
      BY <3>1 DEF StagingInv, EntrySound
  <2>3. \A last : ItemSound(execute, last)
    BY <1>1, <1>4, <2>1, <2>2 DEF ItemSound, Shuts, Ends, Lists
  <2> HIDE DEF execute
  <2> QED
    BY <1>4, <2>3, AnswerStages
<1> QED
  BY <1>2, <1>3, <1>4 DEF CommandOfApproved

(* No protocol command breaks the bookkeeping of the staging.              *)
LEMMA HandleStages ==
    ASSUME ConsentInv, StagingInv, actions = <<>>, NEW cmd \in Commands, Handle(cmd),
           UNCHANGED <<fs, shown, pending>>
    PROVE  StagingInv'
<1> USE CommandTyped
<1>1. CASE cmd.op \in Directions /\ Start(cmd, cmd.op)
  BY <1>1, StartStages
<1>2. CASE Answer(ErrorResponse(cmd))
  BY <1>2, ErrorStages DEF ErrorResponse
<1>3. CASE \E isError \in BOOLEAN : EndSession(cmd.id, Farewell(cmd.id, isError))
  BY <1>3, EndStages, FarewellLast DEF ConsentInv, TypeOK
<1>4. CASE Collecting(cmd.id) /\ CollectReceivePath(cmd)
  BY <1>4, CollectStages
<1>5. CASE sessions[cmd.id].phase = "Approved" /\ CommandOfApproved(cmd)
  BY <1>5, ApprovedCommandStages
<1> QED
  BY <1>1, <1>2, <1>3, <1>4, <1>5 DEF Handle, Cancel, ContinueSession, Collecting

(* Neither does ending sessions without an answer of the user.             *)
LEMMA RejectSessionStages ==
    ASSUME ConsentInv, StagingInv, actions = <<>>, NEW id \in TransferIds,
           RejectSession(id), UNCHANGED <<fs, shown>>, pending' \subseteq pending
    PROVE  StagingInv'
<1>1. CASE Answer(<<>>)
  BY <1>1, NothingStages
<1>2. CASE EndSession(id, Farewell(id, TRUE))
  BY <1>2, EndStages, FarewellLast DEF ConsentInv, TypeOK
<1> QED
  BY <1>1, <1>2 DEF RejectSession

(* Rejecting by token.                                                     *)
LEMMA RejectStages ==
    ASSUME ConsentInv, StagingInv, actions = <<>>, NEW req, Reject(req),
           UNCHANGED <<fs, shown>>, pending' \subseteq pending
    PROVE  StagingInv'
<1>1. CASE Answer(<<>>)
  BY <1>1, NothingStages
<1>2. CASE \E id \in SessionForRequest(req) : RejectSession(id)
  BY <1>2, RejectSessionStages DEF SessionForRequest
<1> QED
  BY <1>1, <1>2 DEF Reject

(* An approval lists what its prompt has shown, then completes the listing.*)
LEMMA ApproveStages ==
    ASSUME ConsentInv, StagingInv, actions = <<>>, NEW p \in pending, Approve(p.req),
           UNCHANGED <<fs, shown>>, pending' \subseteq pending
    PROVE  StagingInv'
<1>1. CASE Answer(<<>>)
  BY <1>1, NothingStages
<1>2. CASE ~Answer(<<>>)
  <2>1. PICK id \in SessionForRequest(p.req) :
          /\ sessions' = [sessions EXCEPT ![id].phase = "Approved", ![id].wanted = <<>>]
          /\ actions' = StatusResponse(id, sessions[id].quiet, FALSE, FALSE)
                        \o IF sessions[id].dir = "Receive"
                           THEN ListingOf(id, sessions[id]) ELSE <<>>
    BY <1>2 DEF Approve
  <2> DEFINE session == sessions[id]
             req     == p.req
             wanted  == session.wanted
             status  == StatusResponse(id, session.quiet, FALSE, FALSE)
             reads   == [i \in DOMAIN wanted |->
                           AuthorizedCommand(id, session, "File", wanted[i].path)]
             done    == [type |-> "Complete", id |-> id, req |-> session.req]
  <2>2. /\ id \in TransferIds /\ session \in Session
        /\ session.phase = "AwaitApproval" /\ session.req = req
        /\ req \in Nat /\ wanted \in Seq(Wanted) /\ req # 0
    BY SessionTyped DEF SessionForRequest, ConsentInv, TypeOK, StagingInv, EntrySound, Live
  <2>3. /\ \A t \in TransferIds : t # id => sessions'[t] = sessions[t]
        /\ sessions'[id].phase = "Approved" /\ sessions'[id].req = req
        /\ sessions'[id].dir = session.dir
    BY <2>1, <2>2 DEF ConsentInv, TypeOK, ManagerTypeOK, Session
  <2>5. [req |-> req, paths |-> PathsOf(session)] \in shown
    BY <2>2 DEF StagingInv, PromptsExact
  <2>6. \A i \in DOMAIN wanted : WasShown(req, wanted[i].path)
    <3>1. DOMAIN PathsOf(session) = DOMAIN wanted
          /\ \A i \in DOMAIN wanted : PathsOf(session)[i] = wanted[i].path
      BY DEF PathsOf
    <3> DEFINE s == [req |-> req, paths |-> PathsOf(session)]
    <3>2. s \in shown /\ s.req = req /\ s.paths = PathsOf(session)
      BY <2>5
    <3> HIDE DEF s
    <3> QED
      BY <3>1, <3>2 DEF WasShown
  <2> DEFINE Fine(a) == /\ Opens(a) => a.id = id /\ a.req = req
                        /\ ~Shuts(a) /\ ~Ends(a)
                        /\ Lists(a) => WasShown(a.req, a.path)
                        /\ a.type # "RequestApproval"
             Good == {a \in Action : Fine(a)}
  <2>7. status \in Seq(Good)
    <3>1. [type |-> "Write", id |-> id, ends |-> FALSE] \in Good
      BY <2>2, WriteTyped DEF Opens, Shuts, Ends, Lists
    <3> HIDE DEF Good
    <3> QED
      BY <3>1 DEF StatusResponse
  <2>8. reads \in Seq(Good) /\ Len(reads) \in Nat /\ Len(wanted) \in Nat
    <3>1. Len(wanted) \in Nat /\ DOMAIN wanted = 1..Len(wanted)
      BY <2>2, LenProperties
    <3>2. ASSUME NEW i \in DOMAIN wanted
          PROVE  AuthorizedCommand(id, session, "File", wanted[i].path) \in Good
      <4> DEFINE a == AuthorizedCommand(id, session, "File", wanted[i].path)
      <4>1. a \in Action
        BY <2>2, WantedTyped, CommandFor DEF Operations, ActionFor
      <4>2. /\ a.type = "Execute" /\ a.id = id /\ a.req = req /\ a.op = "File"
            /\ a.path = wanted[i].path
        BY <2>2 DEF AuthorizedCommand
      <4> HIDE DEF a
      <4>3. Fine(a)
        BY <2>6, <4>2 DEF Shuts, Ends, Lists, Closes
      <4>4. a \in Good
        BY <4>1, <4>3
      <4> QED
        BY <4>4 DEF a
    <3> HIDE DEF Good
    <3>3. reads \in [1..Len(wanted) -> Good]
      BY <3>1, <3>2
    <3>4. reads \in Seq(Good)
      BY <3>1, <3>3, FunctionIsSeq, Zenon
    <3> QED
      BY <3>1, <3>4, LenProperties
  <2>9. done \in Good
    <3>1. done \in Action /\ done.type = "Complete" /\ done.id = id /\ done.req = req
      BY <2>2 DEF Action
    <3> HIDE DEF done
    <3>2. Fine(done)
      BY <3>1 DEF Shuts, Ends, Lists
    <3> QED
      BY <3>1, <3>2
  <2>10. done.type = "Complete" /\ done.id = id
    OBVIOUS
  <2> HIDE DEF Good, status, reads, done
  <2>11. ListingOf(id, session) = reads \o <<done>>
    BY DEF ListingOf, reads, done
  <2>12. /\ ListingOf(id, session) \in Seq(Good)
         /\ Len(ListingOf(id, session)) = Len(reads) + 1
         /\ ListingOf(id, session)[Len(reads) + 1] = done
    <3>1. <<done>> \in Seq(Good) /\ Len(<<done>>) = 1 /\ <<done>>[1] = done
      BY <2>9
    <3> QED
      BY <2>8, <2>11, <3>1, ConcatProperties
  <2>13. actions' = status \o IF session.dir = "Receive" THEN ListingOf(id, session) ELSE <<>>
    BY <2>1 DEF status
  <2>14. actions' \in Seq(Good)
    <3>1. <<>> \in Seq(Good)
      OBVIOUS
    <3> QED
      BY <2>7, <2>12, <2>13, <3>1, ConcatProperties
  <2>15. session.dir = "Receive" => \E i \in DOMAIN actions' : actions'[i] = done
    <3> SUFFICES ASSUME session.dir = "Receive"
                 PROVE  \E i \in DOMAIN actions' : actions'[i] = done
      OBVIOUS
    <3> DEFINE n == Len(status) + (Len(reads) + 1)
    <3>1. actions' = status \o ListingOf(id, session)
      BY <2>13
    <3>2. Len(status) \in Nat
      BY <2>7, LenProperties
    <3>3. Len(actions') = n /\ actions'[n] = done
      <4> DEFINE listing == ListingOf(id, session)
      <4>1. /\ listing \in Seq(Good) /\ Len(listing) = Len(reads) + 1
            /\ listing[Len(reads) + 1] = done /\ actions' = status \o listing
        BY <2>12, <3>1
      <4> HIDE DEF listing
      <4>2. /\ Len(actions') = Len(status) + Len(listing)
            /\ \A i \in 1..(Len(status) + Len(listing)) :
                  actions'[i] = IF i <= Len(status) THEN status[i]
                                                   ELSE listing[i - Len(status)]
        BY <2>7, <4>1, ConcatProperties
      <4>3. n \in 1..(Len(status) + Len(listing)) /\ ~(n <= Len(status))
            /\ n - Len(status) = Len(reads) + 1
        BY <2>8, <3>2, <4>1
      <4> QED
        BY <4>1, <4>2, <4>3
    <3>4. DOMAIN actions' = 1..Len(actions')
      BY <2>14, LenProperties
    <3>5. n \in DOMAIN actions'
      BY <2>8, <3>2, <3>3, <3>4
    <3> QED
      BY <3>3, <3>5
  <2>16. ListSound'
    <3>1. \A i \in DOMAIN actions' : Fine(actions'[i])
      <4>1. \A i \in DOMAIN actions' : actions'[i] \in Good
        BY <2>14, LenProperties, ElementOfSeq
      <4> QED
        BY <4>1 DEF Good
    <3> QED
      BY <2>3, <3>1 DEF ListSound, ItemSound, WasShown, Owns
  <2> QED
    BY <2>2, <2>3, <2>10, <2>15, <2>16, OpenStages
<1> QED
  BY <1>1, <1>2

(* The rest of the list, one position up.                                  *)
LEMMA TailItems ==
    ASSUME ManagerTypeOK, actions # <<>>, actions' = Tail(actions)
    PROVE  /\ 1 \in DOMAIN actions /\ actions[1] = Head(actions)
           /\ \A i \in DOMAIN actions' :
                 /\ i + 1 \in DOMAIN actions /\ actions'[i] = actions[i + 1]
                 /\ i = Len(actions') <=> i + 1 = Len(actions)
           /\ \A j \in DOMAIN actions :
                 j = 1 \/ \E i \in DOMAIN actions' : actions'[i] = actions[j]
<1>1. actions \in Seq(Action)
  BY DEF ManagerTypeOK
<1>2. /\ Len(actions) \in Nat \ {0} /\ DOMAIN actions = 1..Len(actions)
      /\ actions[1] = Head(actions)
  BY <1>1, LenProperties, EmptySeq
<1>3. /\ actions' \in Seq(Action) /\ Len(actions') = Len(actions) - 1
      /\ \A i \in 1..Len(actions') : actions'[i] = actions[i + 1]
  BY <1>1, HeadTailProperties
<1>4. DOMAIN actions' = 1..(Len(actions) - 1)
  BY <1>3, LenProperties
<1>5. ASSUME NEW j \in DOMAIN actions, j # 1
      PROVE  \E i \in DOMAIN actions' : actions'[i] = actions[j]
  <2>1. j - 1 \in 1..(Len(actions) - 1) /\ (j - 1) + 1 = j
    BY <1>2, <1>5
  <2> QED
    BY <1>3, <1>4, <2>1
<1>6. \A i \in DOMAIN actions' : /\ i + 1 \in DOMAIN actions /\ actions'[i] = actions[i + 1]
                                 /\ i = Len(actions') <=> i + 1 = Len(actions)
  BY <1>2, <1>3, <1>4
<1> QED
  BY <1>2, <1>5, <1>6

(* What dispatching the first action does to the entries.                  *)
LEMMA EntryChanges ==
    ASSUME TypeOK, DispatchWrite \/ DispatchRequest \/ DispatchExecute \/ DispatchAbort
    PROVE  LET a == Head(actions)
           IN /\ a.id \in TransferIds
              /\ \A t \in TransferIds : t # a.id => fs'[t] = fs[t]
              /\ Shuts(a) => fs'[a.id] = Closed
              /\ Opens(a) =>
                    /\ fs'[a.id].owner = IF fs[a.id].owner = 0 THEN a.req ELSE fs[a.id].owner
                    /\ fs'[a.id].complete = IF a.type = "Complete" THEN TRUE
                                                                   ELSE fs[a.id].complete
              /\ ~Shuts(a) /\ ~Opens(a) => fs'[a.id] = fs[a.id]
<1> DEFINE a == Head(actions)
<1>1. actions # <<>>
  BY DEF DispatchWrite, DispatchRequest, DispatchExecute, DispatchAbort, Dispatching
<1>2. a.id \in TransferIds
  BY <1>1, HeadActionTyped DEF TypeOK
<1>3. fs \in [TransferIds -> [owner : Nat, complete : BOOLEAN]]
  BY DEF TypeOK, WorkerTypeOK
<1>4. CASE DispatchWrite \/ DispatchRequest
  <2>1. fs' = fs /\ a.type \in {"Write", "RequestApproval"}
    BY <1>4 DEF DispatchWrite, DispatchRequest, Dispatching, workerVars
  <2> QED
    BY <1>2, <2>1 DEF Shuts, Opens
<1>5. CASE DispatchAbort
  <2>1. fs' = [fs EXCEPT ![a.id] = Closed] /\ a.type = "Abort"
    BY <1>5 DEF DispatchAbort, Dispatching
  <2> QED
    BY <1>2, <1>3, <2>1 DEF Shuts, Opens
<1>6. CASE DispatchExecute
  <2>1. fs' = [fs EXCEPT ![a.id] = EntryAfter(a)] /\ a.type \in {"Execute", "Complete"}
    BY <1>6 DEF DispatchExecute, Dispatching
  <2>2. fs'[a.id] = EntryAfter(a) /\ \A t \in TransferIds : t # a.id => fs'[t] = fs[t]
    BY <1>2, <1>3, <2>1
  <2> DEFINE entry == fs[a.id]
             opened == IF entry.owner = 0 THEN [entry EXCEPT !.owner = a.req] ELSE entry
  <2>3. entry \in [owner : Nat, complete : BOOLEAN]
    BY <1>2, <1>3
  <2>4. /\ opened.owner = IF entry.owner = 0 THEN a.req ELSE entry.owner
        /\ opened.complete = entry.complete
        /\ [opened EXCEPT !.complete = TRUE].owner = opened.owner
        /\ [opened EXCEPT !.complete = TRUE].complete = TRUE
    BY <2>3
  <2>5. CASE a.type = "Complete"
    <3>1. EntryAfter(a) = [opened EXCEPT !.complete = TRUE]
      BY <2>5 DEF EntryAfter
    <3> HIDE DEF opened
    <3> QED
      BY <1>2, <2>2, <2>4, <2>5, <3>1 DEF Shuts, Opens
  <2>6. CASE a.type = "Execute" /\ Closes(a.dir, a.op)
    <3>1. EntryAfter(a) = Closed
      BY <2>6 DEF EntryAfter, Closed, Closes
    <3>2. ~Opens(a)
      BY <2>6 DEF Opens, Closes
    <3> QED
      BY <1>2, <2>2, <2>6, <3>1, <3>2 DEF Shuts
  <2>7. CASE a.type = "Execute" /\ ~Closes(a.dir, a.op) /\ a.op = "File"
    <3>1. EntryAfter(a) = opened
      BY <2>7 DEF EntryAfter
    <3> HIDE DEF opened
    <3> QED
      BY <1>2, <2>2, <2>4, <2>7, <3>1 DEF Shuts, Opens
  <2>8. CASE a.type = "Execute" /\ ~Closes(a.dir, a.op) /\ a.op # "File"
    <3>1. EntryAfter(a) = entry
      BY <2>8 DEF EntryAfter
    <3> QED
      BY <1>2, <2>2, <2>8, <3>1 DEF Shuts, Opens
  <2> QED
    BY <2>1, <2>5, <2>6, <2>7, <2>8
<1> QED
  BY <1>4, <1>5, <1>6

(* Dispatching the first action of the list.                               *)
LEMMA DispatchStages ==
    ASSUME ConsentInv, StagingInv,
           DispatchWrite \/ DispatchRequest \/ DispatchExecute \/ DispatchAbort
    PROVE  StagingInv'
<1> DEFINE a == Head(actions)
<1>1. /\ actions # <<>> /\ actions' = Tail(actions) /\ sessions' = sessions
      /\ shown \subseteq shown'
  BY DEF DispatchWrite, DispatchRequest, DispatchExecute, DispatchAbort, Dispatching,
     historyVars
<1>2. ManagerTypeOK /\ TypeOK
  BY DEF ConsentInv, TypeOK
<1>3. /\ 1 \in DOMAIN actions /\ actions[1] = a
      /\ \A i \in DOMAIN actions' :
            /\ i + 1 \in DOMAIN actions /\ actions'[i] = actions[i + 1]
            /\ i = Len(actions') <=> i + 1 = Len(actions)
      /\ \A j \in DOMAIN actions :
            j = 1 \/ \E i \in DOMAIN actions' : actions'[i] = actions[j]
  BY <1>1, <1>2, TailItems
<1>4. /\ a.id \in TransferIds
      /\ \A t \in TransferIds : t # a.id => fs'[t] = fs[t]
      /\ Shuts(a) => fs'[a.id] = Closed
      /\ Opens(a) =>
            /\ fs'[a.id].owner = IF fs[a.id].owner = 0 THEN a.req ELSE fs[a.id].owner
            /\ fs'[a.id].complete = IF a.type = "Complete" THEN TRUE
                                                           ELSE fs[a.id].complete
      /\ ~Shuts(a) /\ ~Opens(a) => fs'[a.id] = fs[a.id]
  BY <1>2, EntryChanges
<1>5. \E last : ItemSound(a, last)
  BY <1>3 DEF StagingInv, ListSound
<1>6. \A i \in DOMAIN actions : actions[i].id \in TransferIds
  <2>1. \A i \in DOMAIN actions : actions[i] \in Action
    BY <1>2, LenProperties, ElementOfSeq DEF ManagerTypeOK
  <2> QED
    BY <2>1 DEF Action
<1> HIDE DEF a
<1>7. ListSound'
  <2> SUFFICES ASSUME NEW i \in DOMAIN actions', NEW b, b = actions'[i],
                      NEW last, last <=> i = Len(actions')
               PROVE  ItemSound(b, last)'
    BY DEF ListSound, ItemSound
  <2>1. ItemSound(b, i + 1 = Len(actions)) /\ b.id \in TransferIds
    BY <1>3, <1>6 DEF StagingInv, ListSound
  <2>2. Lists(b) => fs'[b.id].complete \/ WasShown(b.req, b.path)'
    <3> SUFFICES ASSUME Lists(b), fs[b.id].complete PROVE fs'[b.id].complete
      BY <1>1, <2>1 DEF ItemSound, WasShown
    <3>1. Live(b.id)
      BY <2>1 DEF ItemSound, Lists, Opens, Owns, Live
    <3>2. b.id = a.id => ~Shuts(a)
      BY <1>5, <3>1 DEF ItemSound
    <3> QED
      BY <1>4, <2>1, <3>2
  <2>3. i = Len(actions') <=> i + 1 = Len(actions)
    BY <1>3
  <2>4. ItemSound(b, last)
    BY <2>1, <2>3 DEF ItemSound
  <2> QED
    BY <1>1, <2>2, <2>4 DEF ItemSound, Owns, Live, PathsOf
<1>8. ASSUME NEW t \in TransferIds PROVE EntrySound(t)'
  <2>1. EntrySound(t)
    BY DEF StagingInv
  <2>2. CASE t # a.id
    <3>1. \A j \in DOMAIN actions : actions[j].id = t =>
             \E i \in DOMAIN actions' : actions'[i] = actions[j]
      BY <1>3, <2>2
    <3> QED
      BY <1>1, <1>4, <2>1, <2>2, <3>1 DEF EntrySound, Owns, Live
  <2>3. CASE t = a.id /\ Shuts(a)
    <3>1. ~Live(t) /\ fs'[t] = Closed
      BY <1>4, <1>5, <2>3 DEF ItemSound
    <3> QED
      BY <1>1, <3>1 DEF EntrySound, Live, Closed
  <2>4. CASE t = a.id /\ Opens(a)
    <3>1. Owns(t, a.req) /\ ~Shuts(a)
      BY <1>5, <2>4 DEF ItemSound, Owns, Live
    <3>2. a.req # 0
      BY <2>1, <3>1 DEF EntrySound, Owns, Live
    <3>3. \A j \in DOMAIN actions : Shuts(actions[j]) =>
             \E i \in DOMAIN actions' : actions'[i] = actions[j]
      BY <1>3, <3>1
    <3>4. fs'[t].owner # 0
      BY <1>4, <2>4, <3>2
    <3>5. \/ Owns(t, fs'[t].owner)
          \/ \E i \in DOMAIN actions' : Shuts(actions'[i]) /\ actions'[i].id = t
      BY <1>4, <2>1, <2>4, <3>1, <3>3 DEF EntrySound
    <3>6. a.type # "Complete" => \A j \in DOMAIN actions : actions[j].type = "Complete" =>
             \E i \in DOMAIN actions' : actions'[i] = actions[j]
      BY <1>3
    <3>7. sessions[t].phase = "Approved" /\ sessions[t].dir = "Receive" =>
             \/ fs'[t].complete
             \/ \E i \in DOMAIN actions' : actions'[i].type = "Complete" /\ actions'[i].id = t
      BY <1>4, <2>1, <2>4, <3>6 DEF EntrySound
    <3> QED
      BY <1>1, <2>1, <3>4, <3>5, <3>7 DEF EntrySound, Owns, Live
  <2>5. CASE t = a.id /\ ~Shuts(a) /\ ~Opens(a)
    <3>1. \A j \in DOMAIN actions : Shuts(actions[j]) \/ actions[j].type = "Complete" =>
             \E i \in DOMAIN actions' : actions'[i] = actions[j]
      BY <1>3, <2>5 DEF Opens
    <3> QED
      BY <1>1, <1>4, <2>1, <2>5, <3>1 DEF EntrySound, Owns, Live
  <2> QED
    BY <2>2, <2>3, <2>4, <2>5
<1>9. PromptsExact'
  <2>1. CASE DispatchRequest
    <3>1. /\ a.type = "RequestApproval"
          /\ pending' = pending \cup {[req |-> a.req, id |-> a.id]}
          /\ shown' = shown \cup {[req |-> a.req, paths |-> a.paths]}
      BY <2>1 DEF DispatchRequest, Dispatching, a
    <3>2. /\ sessions[a.id].phase = "AwaitApproval" /\ sessions[a.id].req = a.req
          /\ a.paths = PathsOf(sessions[a.id])
      BY <1>5, <3>1 DEF ItemSound
    <3> SUFFICES ASSUME NEW p \in pending', NEW t \in TransferIds,
                        sessions[t].phase = "AwaitApproval", sessions[t].req = p.req
                 PROVE  [req |-> p.req, paths |-> PathsOf(sessions[t])] \in shown'
      BY <1>1 DEF PromptsExact, PathsOf
    <3>3. CASE p \in pending
      BY <1>1, <3>3 DEF StagingInv, PromptsExact
    <3>4. CASE p = [req |-> a.req, id |-> a.id]
      <4>1. p.req = a.req
        BY <3>4
      <4>2. t = a.id
        BY <1>4, <3>2, <4>1 DEF ConsentInv, SessionsSound, Live
      <4> QED
        BY <3>1, <3>2, <4>1, <4>2
    <3> QED
      BY <3>1, <3>3, <3>4
  <2>2. CASE pending' = pending
    BY <1>1, <2>2 DEF StagingInv, PromptsExact, PathsOf
  <2> QED
    BY <2>1, <2>2 DEF DispatchWrite, DispatchExecute, DispatchAbort, workerVars
<1> QED
  BY <1>7, <1>8, <1>9 DEF StagingInv

(* Steps that touch neither sessions nor list nor entries.                 *)
LEMMA FrameStages ==
    ASSUME StagingInv, UNCHANGED <<sessions, actions, fs, shown>>, pending' \subseteq pending
    PROVE  StagingInv'
<1>1. ListSound'
  BY DEF StagingInv, ListSound, ItemSound, Owns, Live, WasShown, PathsOf
<1>2. \A t \in TransferIds : EntrySound(t)'
  BY DEF StagingInv, EntrySound, Owns, Live
<1>3. PromptsExact'
  BY DEF StagingInv, PromptsExact, PathsOf
<1> QED
  BY <1>1, <1>2, <1>3 DEF StagingInv

(* A worker that returns drops sessions, list and entries alike.           *)
LEMMA StopStages ==
    ASSUME DropWorkerState
    PROVE  StagingInv'
<1>1. DOMAIN actions' = {}
  BY DEF DropWorkerState
<1>2. ListSound'
  BY <1>1 DEF ListSound
<1>3. \A t \in TransferIds : EntrySound(t)'
  BY DEF DropWorkerState, EntrySound, Closed, Absent, Live
<1>4. PromptsExact'
  BY DEF DropWorkerState, PromptsExact
<1> QED
  BY <1>2, <1>3, <1>4 DEF StagingInv

(* No step leaves the bookkeeping of the staging.                          *)
LEMMA StagingStep == ConsentInv /\ StagingInv /\ [Next]_vars => StagingInv'
<1> SUFFICES ASSUME ConsentInv, StagingInv, [Next]_vars PROVE StagingInv'
  OBVIOUS
<1>1. CASE UNCHANGED vars
  BY <1>1, FrameStages DEF vars, managerVars, workerVars, historyVars
<1>2. CASE \/ ReaderNext \/ (\E c \in Clients : ClientNext(c)) \/ Destroy
           \/ (\E k \in Closers : CloserNext(k)) \/ GateNext \/ TimePasses \/ Tick
  <2>1. UNCHANGED <<sessions, actions, fs, shown, pending>>
    BY <1>2 DEF ReaderNext, ReadCommand, CountQueued, RecheckAccepting, UncountQueued,
       SendCommand, SendCommandFails, ReaderEof, ClientNext, Respond, SendApproval,
       SendApprovalFails, Destroy, CloserNext, SendShutdown, SendShutdownFails,
       ClearRegistry, GateNext, Quiesce, LoadActive, LoadQueued, Resume, TimePasses,
       PromptAges, TransferAges, Tick, managerVars, workerVars, historyVars
  <2> QED
    BY <2>1, FrameStages
<1>3. CASE RecvNext
  <2>1. actions = <<>>
    BY <1>3 DEF ConsentInv, ListTakenUp, RecvNext, RecvProtocol, RecvStaleApproval,
       RecvLateApproval, RecvApproval, RecvShutdown
  <2>2. CASE RecvProtocol
    <3>1. /\ Head(chan).cmd \in Commands /\ Handle(Head(chan).cmd)
          /\ UNCHANGED <<fs, shown, pending>>
      BY <2>2, HeadMessageTyped DEF RecvProtocol, historyVars, ConsentInv, TypeOK
    <3> QED
      BY <2>1, <3>1, HandleStages
  <2>3. CASE RecvStaleApproval \/ RecvShutdown
    BY <2>3, FrameStages DEF RecvStaleApproval, RecvShutdown, managerVars, workerVars,
       historyVars
  <2>4. CASE RecvLateApproval
    BY <2>1, <2>4, RejectStages DEF RecvLateApproval, PendingWithout, historyVars
  <2>5. CASE RecvApproval
    <3>1. PICK p \in pending :
            /\ pending' = PendingWithout({p.req})
            /\ IF Head(chan).approve THEN Approve(p.req) ELSE Reject(p.req)
      BY <2>5 DEF RecvApproval
    <3>2. UNCHANGED <<fs, shown>> /\ pending' \subseteq pending
      BY <2>5, <3>1 DEF RecvApproval, PendingWithout
    <3> QED
      BY <2>1, <3>1, <3>2, ApproveStages, RejectStages
  <2> QED
    BY <1>3, <2>2, <2>3, <2>4, <2>5 DEF RecvNext
<1>4. CASE WorkNext
  <2>1. CASE DispatchWrite \/ DispatchRequest \/ DispatchExecute \/ DispatchAbort
    BY <2>1, DispatchStages
  <2>2. CASE DispatchFails \/ FinishShutdown
    BY <2>2, StopStages DEF DispatchFails, FinishShutdown
  <2>3. CASE ClearDismissed \/ FinishProtocol \/ FinishApproval \/ FinishTick
             \/ ResetActive \/ ResetQueued \/ CloseReceiver
    BY <2>3, FrameStages DEF ClearDismissed, FinishProtocol, FinishApproval, FinishTick,
       ResetActive, ResetQueued, CloseReceiver, PendingWithout, managerVars, historyVars
  <2>4. CASE RejectNext \/ (\E req \in PendingRequests : ExpirePrompt(req))
             \/ (\E id \in TransferIds : ExpireTransfer(id))
    <3>1. actions = <<>> /\ UNCHANGED <<fs, shown>> /\ pending' \subseteq pending
      BY <2>4 DEF RejectNext, ExpirePrompt, ExpireTransfer, Drained, PendingWithout,
         workerVars, historyVars
    <3>2. (\E id \in TransferIds : RejectSession(id)) \/ (\E req : Reject(req))
      BY <2>4 DEF RejectNext, ExpirePrompt, ExpireTransfer, LiveSessions
    <3> QED
      BY <3>1, <3>2, RejectSessionStages, RejectStages
  <2> QED
    BY <1>4, <2>1, <2>2, <2>3, <2>4 DEF WorkNext
<1> QED
  BY <1>1, <1>2, <1>3, <1>4 DEF Next, Terminated

(* What is staged, listed and shown agrees with the sessions all the time. *)
LEMMA StagingIsInvariant == Spec => []StagingInv
<1>1. Init => StagingInv
  BY StagingInit
<1>2. ConsentInv /\ StagingInv /\ [Next]_vars => StagingInv'
  BY StagingStep
<1> QED
  BY <1>1, <1>2, ConsentIsInvariant, PTL DEF Spec

(* Between two messages whatever is staged under an id was staged for the  *)
(* session that holds it: reusing an id inherits nothing.                  *)
THEOREM StagingBelongsCorrect == Spec => []StagingBelongsToSession
<1>1. ConsentInv /\ StagingInv => StagingBelongsToSession
  <2> SUFFICES ASSUME ConsentInv, StagingInv, worker = "recv",
                      NEW id \in TransferIds, fs[id].owner # 0
               PROVE  sessions[id].phase = "Approved" /\ sessions[id].req = fs[id].owner
    BY DEF StagingBelongsToSession
  <2>1. DOMAIN actions = {}
    BY DEF ConsentInv, ListTakenUp
  <2> QED
    BY <2>1 DEF StagingInv, EntrySound, Owns
<1> QED
  BY <1>1, ConsentIsInvariant, StagingIsInvariant, PTL

(* The peer hears of the end of a session only after its staging is gone.  *)
THEOREM StagingGoneCorrect == Spec => []StagingGoneBeforeEnd
<1>1. ConsentInv /\ StagingInv => StagingGoneBeforeEnd
  <2> SUFFICES ASSUME ConsentInv, StagingInv, actions # <<>>,
                      Head(actions).type = "Write", Head(actions).ends
               PROVE  fs[Head(actions).id] = Closed
    BY DEF StagingGoneBeforeEnd
  <2> DEFINE a == Head(actions)
  <2>1. /\ actions \in Seq(Action) /\ Len(actions) \in Nat \ {0}
        /\ DOMAIN actions = 1..Len(actions) /\ actions[1] = a
    BY LenProperties, EmptySeq DEF ConsentInv, TypeOK, ManagerTypeOK
  <2>2. a.id \in TransferIds
    BY HeadActionTyped DEF ConsentInv, TypeOK
  <2>3. 1 = Len(actions) /\ ~Live(a.id) /\ ~Shuts(a)
    BY <2>1 DEF StagingInv, ListSound, ItemSound, Ends, Shuts
  <2>4. \A i \in DOMAIN actions : ~Shuts(actions[i])
    <3>1. DOMAIN actions = 1..1
      BY <2>1, <2>3
    <3>2. \A i \in 1..1 : i = 1
      OBVIOUS
    <3>3. ~Shuts(actions[1])
      BY <2>1, <2>3
    <3> HIDE DEF a
    <3> QED
      BY <3>1, <3>2, <3>3
  <2> QED
    BY <2>2, <2>3, <2>4 DEF StagingInv, EntrySound, Owns, Live
<1> QED
  BY <1>1, ConsentIsInvariant, StagingIsInvariant, PTL

(* Every local path opened while a receive session is being listed was on  *)
(* the prompt shown for exactly that request.                              *)
THEOREM ListingShownCorrect == Spec => []ListingWasShown
<1>1. ConsentInv /\ StagingInv => ListingWasShown
  <2> SUFFICES ASSUME ConsentInv, StagingInv, actions # <<>>,
                      Lists(Head(actions)), ~fs[Head(actions).id].complete
               PROVE  WasShown(Head(actions).req, Head(actions).path)
    BY DEF ListingWasShown, Lists, WasShown
  <2>1. 1 \in DOMAIN actions /\ actions[1] = Head(actions)
    BY LenProperties, EmptySeq DEF ConsentInv, TypeOK, ManagerTypeOK
  <2> QED
    BY <2>1 DEF StagingInv, ListSound, ItemSound
<1> QED
  BY <1>1, ConsentIsInvariant, StagingIsInvariant, PTL

------------------------------------------------------------------------------
(* The worker's books: which prompts, deadlines and flags go with which    *)
(* sessions, in every state between two messages, too.                     *)

Awaits(id)  == sessions[id].phase = "AwaitApproval"

ApprovedIds == {id \in TransferIds : sessions[id].phase = "Approved"}

Matched(p) == Awaits(p.id) /\ sessions[p.id].req = p.req

(* A prompt belongs to the session that waits for it, except that the      *)
(* command just handled may have ended it: then ClearDismissed comes next. *)
PromptsMatched ==
    /\ \A p \in pending :
          \/ Matched(p)
          \/ /\ worker = "clear" /\ p.id = job.id
             /\ \A id \in TransferIds : Live(id) => sessions[id].req # p.req
    /\ \A p, q \in pending : p.id = q.id => p = q

(* A request on the list is alone on it and has not been shown.            *)
RequestsFresh ==
    /\ \A i \in DOMAIN actions : actions[i].type = "RequestApproval" =>
          /\ Len(actions) = 1 /\ job.kind = "Protocol"
          /\ actions[i].req \notin Asked
    /\ \A req \in Asked :
          /\ req < nextRequestId
          /\ \A id \in TransferIds : Collecting(id) => sessions[id].req # req
    /\ PendingRequests \subseteq Asked

(* A session that waits for the user has its prompt, or its request is on  *)
(* the list.                                                               *)
SessionsAsked ==
    job.kind # "Shutdown" =>
        \A id \in TransferIds : Awaits(id) =>
            \/ [req |-> sessions[id].req, id |-> id] \in pending
            \/ \E i \in DOMAIN actions :
                  /\ actions[i].type = "RequestApproval" /\ actions[i].id = id
                  /\ actions[i].req = sessions[id].req

(* The idle deadlines follow the approved sessions, but for the transfer   *)
(* the worker is working on.                                               *)
DeadlinesAgree ==
    /\ job.kind = "Protocol" =>
          /\ \A id \in TransferIds \ {job.id} : id \in idle <=> id \in ApprovedIds
          /\ job.id \in ApprovedIds => job.id \in idle
          /\ job.id \in idle /\ Live(job.id) => job.id \in ApprovedIds
    /\ job.kind = "Approval" => idle \cup job.approved = ApprovedIds
    /\ job.kind \in {"None", "Tick"} => idle = ApprovedIds
    /\ job.kind = "Tick" => job.dueIdle \subseteq idle
    /\ stale \subseteq idle
    /\ late \subseteq PendingRequests

JobAgrees ==
    /\ worker = "recv" => job = NoJob
    /\ worker = "clear" => job.kind = "Protocol"
    /\ worker = "dispatch" => job.kind # "None"
    /\ job.kind = "Shutdown" => pending = {}

(* An inactive worker that holds no command has nothing at all.            *)
InactiveIsIdle ==
    Alive /\ job.kind # "Protocol" /\ ~active =>
        /\ LiveSessions = {} /\ actions = <<>> /\ registry = {}
        /\ \A id \in TransferIds : fs[id].owner = 0

BookInv ==
    /\ PromptsMatched
    /\ RequestsFresh
    /\ SessionsAsked
    /\ DeadlinesAgree
    /\ JobAgrees
    /\ Alive => registry = PendingRequests
    /\ InactiveIsIdle

(* The books are empty in the beginning.                                   *)
LEMMA BookInit == Init => BookInv
<1> SUFFICES ASSUME Init PROVE BookInv
  OBVIOUS
<1>1. DOMAIN actions = {} /\ Asked = {} /\ PendingRequests = {}
  BY DEF Init, ManagerInit, Asked, PendingRequests
<1>2. LiveSessions = {} /\ ApprovedIds = {} /\ \A id \in TransferIds : ~Awaits(id)
  BY DEF Init, ManagerInit, LiveSessions, Live, ApprovedIds, Awaits, Absent
<1>3. PromptsMatched
  BY DEF Init, PromptsMatched
<1>4. RequestsFresh /\ SessionsAsked
  BY <1>1, <1>2 DEF Init, RequestsFresh, SessionsAsked
<1>5. DeadlinesAgree /\ JobAgrees
  BY <1>1, <1>2 DEF Init, DeadlinesAgree, JobAgrees, NoJob
<1>6. registry = PendingRequests /\ InactiveIsIdle
  BY <1>1, <1>2 DEF Init, InactiveIsIdle, ManagerInit, Closed
<1> QED
  BY <1>3, <1>4, <1>5, <1>6 DEF BookInv

(* Steps of callers, gate and time that leave the books alone.             *)
LEMMA BookFrame ==
    ASSUME BookInv, UNCHANGED <<managerVars, worker, job, pending, late, idle, stale,
                                active, fs, shown>>,
           Alive => registry' = registry
    PROVE  BookInv'
<1> USE DEF managerVars
<1>1. PromptsMatched'
  BY DEF BookInv, PromptsMatched, Matched, Awaits, Live
<1>2. RequestsFresh'
  BY DEF BookInv, RequestsFresh, Asked, Collecting, PendingRequests
<1>3. SessionsAsked'
  BY DEF BookInv, SessionsAsked, Awaits
<1>4. DeadlinesAgree' /\ JobAgrees'
  BY DEF BookInv, DeadlinesAgree, JobAgrees, ApprovedIds, Live, PendingRequests
<1>5. Alive' = Alive /\ PendingRequests' = PendingRequests /\ LiveSessions' = LiveSessions
  BY DEF Alive, PendingRequests, LiveSessions, Live
<1>6. (Alive' => registry' = PendingRequests') /\ InactiveIsIdle'
  BY <1>5 DEF BookInv, InactiveIsIdle
<1> QED
  BY <1>1, <1>2, <1>3, <1>4, <1>6 DEF BookInv

(* The way out of a worker that has dropped everything.                    *)
LEMMA BookExit ==
    ASSUME BookInv, ResetActive \/ ResetQueued \/ CloseReceiver
    PROVE  BookInv'
<1>1. /\ UNCHANGED <<managerVars, job, pending, late, idle, stale, fs, shown>>
      /\ worker \notin {"recv", "clear", "dispatch"}
      /\ worker' \notin {"recv", "clear", "dispatch"}
  BY DEF ResetActive, ResetQueued, CloseReceiver, historyVars
<1> USE <1>1 DEF managerVars
<1>2. PromptsMatched'
  BY DEF BookInv, PromptsMatched, Matched, Awaits, Live
<1>3. RequestsFresh'
  BY DEF BookInv, RequestsFresh, Asked, Collecting, PendingRequests
<1>4. SessionsAsked'
  BY DEF BookInv, SessionsAsked, Awaits
<1>5. DeadlinesAgree' /\ JobAgrees'
  BY DEF BookInv, DeadlinesAgree, JobAgrees, ApprovedIds, Live, PendingRequests
<1>6. ~Alive'
  BY DEF Alive
<1> QED
  BY <1>2, <1>3, <1>4, <1>5, <1>6 DEF BookInv, InactiveIsIdle

(* A worker that returns closes its books.                                 *)
LEMMA BookStop ==
    ASSUME BookInv, DropWorkerState, UNCHANGED shown
    PROVE  BookInv'
<1>1. /\ DOMAIN actions' = {} /\ Asked' = Asked /\ PendingRequests' = {}
      /\ nextRequestId' = nextRequestId /\ late' = {} /\ stale' = {} /\ idle' = {}
      /\ pending' = {} /\ worker' = "exitActive" /\ job' = NoJob
  BY DEF DropWorkerState, Asked, PendingRequests
<1>2. /\ ApprovedIds' = {} /\ ~Alive'
      /\ \A id \in TransferIds : ~Awaits(id)' /\ ~Collecting(id)'
  BY DEF DropWorkerState, ApprovedIds, Awaits, Collecting, Absent, Alive
<1>3. PromptsMatched'
  BY <1>1 DEF PromptsMatched
<1>4. RequestsFresh' /\ SessionsAsked'
  BY <1>1, <1>2 DEF BookInv, RequestsFresh, SessionsAsked
<1>5. DeadlinesAgree' /\ JobAgrees'
  BY <1>1, <1>2 DEF DeadlinesAgree, JobAgrees, NoJob
<1> QED
  BY <1>2, <1>3, <1>4, <1>5 DEF BookInv, InactiveIsIdle

(* A reply without a question.                                             *)
AsksNothing == \A i \in DOMAIN actions' : actions'[i].type # "RequestApproval"

(* What a command does to the session with its id: nothing, its end, or a  *)
(* step towards the one question it puts to the user.                      *)
SessionStays(id) == sessions'[id] \in {sessions[id], Absent} /\ AsksNothing

SessionOpens(id) ==
    /\ sessions[id].phase \in {"Absent", "CollectReceivePaths"}
    /\ sessions'[id].req < nextRequestId' /\ sessions'[id].req \notin Asked
    /\ \/ sessions'[id].phase = "CollectReceivePaths" /\ actions' = <<>>
       \/ /\ sessions'[id].phase = "AwaitApproval"
          /\ \E r : /\ actions' = <<r>> /\ r.type = "RequestApproval"
                    /\ r.id = id /\ r.req = sessions'[id].req

OnlyMoves(id) ==
    /\ \A t \in TransferIds : t # id => sessions'[t] = sessions[t]
    /\ nextRequestId' \in {nextRequestId, nextRequestId + 1}

(* Ending a session asks nothing.                                          *)
LEMMA EndMoves ==
    ASSUME ManagerTypeOK, NEW id \in TransferIds, NEW isError,
           EndSession(id, Farewell(id, isError))
    PROVE  OnlyMoves(id) /\ sessions'[id] = Absent /\ AsksNothing
           /\ nextRequestId' = nextRequestId
BY FarewellLast DEF EndSession, ManagerTypeOK, OnlyMoves, AsksNothing, LastReply

(* Neither does an answer.                                                 *)
LEMMA AnswerMoves ==
    ASSUME NEW id \in TransferIds, NEW quiet, Answer(StatusResponse(id, quiet, TRUE, FALSE))
    PROVE  OnlyMoves(id) /\ SessionStays(id)
<1> DEFINE reply == StatusResponse(id, quiet, TRUE, FALSE)
           write == [type |-> "Write", id |-> id, ends |-> FALSE]
<1>1. /\ reply \in Seq(Action)
      /\ \A i \in 1..Len(reply) : reply[i] = write
  BY StatusItems
<1> HIDE DEF reply
<1>2. /\ reply \in Seq(Action)
      /\ \A i \in 1..Len(reply) : reply[i].type = "Write"
  BY <1>1
<1>3. \A i \in DOMAIN reply : reply[i].type = "Write"
  BY <1>2, LenProperties
<1>4. actions' = reply /\ sessions' = sessions /\ nextRequestId' = nextRequestId
  BY DEF Answer, reply
<1> QED
  BY <1>3, <1>4 DEF OnlyMoves, SessionStays, AsksNothing

(* A new session has a number that nobody has been asked about.            *)
LEMMA StartMoves ==
    ASSUME ConsentInv, BookInv, NEW cmd \in Commands, cmd.op \in Directions,
           Start(cmd, cmd.op)
    PROVE  OnlyMoves(cmd.id) /\ (SessionStays(cmd.id) \/ SessionOpens(cmd.id))
<1> USE CommandTyped
<1>1. CASE Answer(ErrorResponse(cmd))
  BY <1>1, AnswerMoves DEF ErrorResponse
<1>2. CASE ~Answer(ErrorResponse(cmd))
  <2> DEFINE session == NewSession(cmd, cmd.op)
             request == Request(cmd.id, session)
  <2>1. /\ ~StartRefused(cmd, cmd.op) /\ nextRequestId' = nextRequestId + 1
        /\ sessions' = [sessions EXCEPT ![cmd.id] = session]
        /\ actions' = (IF session.phase = "AwaitApproval" THEN <<request>> ELSE <<>>)
    BY <1>2 DEF Start
  <2>2. /\ session.req = nextRequestId
        /\ session.phase \in {"CollectReceivePaths", "AwaitApproval"}
    BY DEF NewSession
  <2>3. request.type = "RequestApproval" /\ request.id = cmd.id /\ request.req = session.req
    BY DEF Request
  <2> HIDE DEF session, request
  <2>4. /\ \A t \in TransferIds : t # cmd.id => sessions'[t] = sessions[t]
        /\ sessions'[cmd.id] = session /\ nextRequestId \in Nat
    BY <2>1 DEF ConsentInv, TypeOK, ManagerTypeOK
  <2>5. sessions[cmd.id].phase = "Absent"
    BY <2>1 DEF StartRefused, Live
  <2>6. nextRequestId \notin Asked /\ nextRequestId < nextRequestId'
    BY <2>1, <2>4 DEF BookInv, RequestsFresh
  <2>7. \/ session.phase = "CollectReceivePaths" /\ actions' = <<>>
        \/ session.phase = "AwaitApproval" /\ actions' = <<request>>
    BY <2>1, <2>2
  <2> QED
    BY <2>1, <2>2, <2>3, <2>4, <2>5, <2>6, <2>7 DEF OnlyMoves, SessionOpens
<1> QED
  BY <1>1, <1>2

(* A collecting session keeps its number and has not been shown.           *)
LEMMA CollectMoves ==
    ASSUME ConsentInv, BookInv, NEW cmd \in Commands,
           Collecting(cmd.id), CollectReceivePath(cmd)
    PROVE  OnlyMoves(cmd.id) /\ (SessionStays(cmd.id) \/ SessionOpens(cmd.id))
<1> USE CommandTyped
<1> DEFINE id == cmd.id
           session == sessions[id]
           grown == [session EXCEPT !.wanted = Append(@, [file |-> cmd.file, path |-> cmd.path])]
           final == [grown EXCEPT !.phase = "AwaitApproval"]
           request == Request(id, grown)
<1>1. CASE EndSession(id, Farewell(id, TRUE))
  BY <1>1, EndMoves DEF ConsentInv, TypeOK, SessionStays
<1>2. CASE ~EndSession(id, Farewell(id, TRUE))
  <2>1. /\ nextRequestId' = nextRequestId
        /\ \/ sessions' = [sessions EXCEPT ![id] = grown] /\ actions' = <<>>
           \/ sessions' = [sessions EXCEPT ![id] = final] /\ actions' = <<request>>
    BY <1>2 DEF CollectReceivePath
  <2>2. session \in Session /\ session.phase = "CollectReceivePaths"
    BY SessionTyped DEF ConsentInv, TypeOK, Collecting
  <2>3. /\ grown.req = session.req /\ grown.phase = "CollectReceivePaths"
        /\ final.req = session.req /\ final.phase = "AwaitApproval"
    BY <2>2 DEF Session
  <2>4. request.type = "RequestApproval" /\ request.id = id /\ request.req = session.req
    BY <2>3 DEF Request
  <2> HIDE DEF grown, final, request
  <2>5. /\ \A t \in TransferIds : t # id => sessions'[t] = sessions[t]
        /\ \/ sessions'[id] = grown /\ actions' = <<>>
           \/ sessions'[id] = final /\ actions' = <<request>>
    BY <2>1 DEF ConsentInv, TypeOK, ManagerTypeOK
  <2>6. session.req < nextRequestId /\ session.req \notin Asked
    <3>1. Live(id)
      BY <2>2 DEF Live
    <3> QED
      BY <3>1 DEF ConsentInv, SessionsSound, SoundSession, BookInv, RequestsFresh
  <2> QED
    BY <2>1, <2>2, <2>3, <2>4, <2>5, <2>6 DEF OnlyMoves, SessionOpens
<1> QED
  BY <1>1, <1>2

(* Every command of the protocol.                                          *)
LEMMA HandleMoves ==
    ASSUME ConsentInv, BookInv, NEW cmd \in Commands, Handle(cmd)
    PROVE  OnlyMoves(cmd.id) /\ (SessionStays(cmd.id) \/ SessionOpens(cmd.id))
<1> USE CommandTyped
<1> DEFINE id == cmd.id
           execute == AuthorizedCommand(id, sessions[id], cmd.op, cmd.path)
<1>1. CASE cmd.op \in Directions /\ Start(cmd, cmd.op)
  BY <1>1, StartMoves
<1>2. CASE Answer(ErrorResponse(cmd))
  BY <1>2, AnswerMoves DEF ErrorResponse
<1>3. CASE \E isError \in BOOLEAN : EndSession(id, Farewell(id, isError))
  BY <1>3, EndMoves DEF ConsentInv, TypeOK, SessionStays
<1>4. CASE Collecting(id) /\ CollectReceivePath(cmd)
  BY <1>4, CollectMoves
<1>5. CASE EndSession(id, <<execute>>) \/ Answer(<<execute>>)
  <2>1. execute.type = "Execute"
    BY DEF AuthorizedCommand
  <2> HIDE DEF execute
  <2>2. /\ \A t \in TransferIds : t # id => sessions'[t] = sessions[t]
        /\ sessions'[id] \in {sessions[id], Absent} /\ actions' = <<execute>>
        /\ nextRequestId' = nextRequestId
    BY <1>5 DEF EndSession, Answer, ConsentInv, TypeOK, ManagerTypeOK
  <2> QED
    BY <2>1, <2>2 DEF OnlyMoves, SessionStays, AsksNothing
<1> QED
  BY <1>1, <1>2, <1>3, <1>4, <1>5 DEF Handle, Cancel, ContinueSession, Collecting,
     CommandOfApproved

(* Taking a command off the queue.                                         *)
LEMMA BookProtocol ==
    ASSUME ConsentInv, BookInv, RecvProtocol
    PROVE  BookInv'
<1> PICK cmd : cmd = Head(chan).cmd
  OBVIOUS
<1> PICK id : id = cmd.id
  OBVIOUS
<1>1. /\ worker = "recv" /\ Handle(cmd) /\ job'.kind = "Protocol" /\ job'.id = id
      /\ worker' = "clear"
      /\ UNCHANGED <<pending, late, idle, stale, fs, registry, shown>>
  BY DEF RecvProtocol, historyVars
<1>2. cmd \in Commands /\ id \in TransferIds
  BY HeadMessageTyped, CommandTyped DEF RecvProtocol, ConsentInv, TypeOK
<1>3. OnlyMoves(id) /\ (SessionStays(id) \/ SessionOpens(id))
  BY <1>1, <1>2, HandleMoves
<1>4. /\ job.kind = "None" /\ DOMAIN actions = {} /\ idle = ApprovedIds
      /\ \A p \in pending : Matched(p)
      /\ Asked' = Asked /\ PendingRequests' = PendingRequests
  BY <1>1 DEF BookInv, JobAgrees, NoJob, ConsentInv, ListTakenUp, DeadlinesAgree,
     PromptsMatched, Asked, PendingRequests
<1>5. \A p \in pending : p.id \in TransferIds
  BY DEF ConsentInv, TypeOK, WorkerTypeOK
<1>6. PromptsMatched'
  <2> SUFFICES ASSUME NEW p \in pending, ~Matched(p)'
               PROVE  p.id = id /\ \A t \in TransferIds : Live(t)' => sessions'[t].req # p.req
    BY <1>1 DEF BookInv, PromptsMatched
  <2>1. Matched(p) /\ p.id = id
    BY <1>3, <1>4, <1>5 DEF OnlyMoves, Matched, Awaits
  <2>2. sessions'[id] = Absent
    BY <1>3, <2>1 DEF SessionStays, SessionOpens, Matched, Awaits
  <2>3. \A t \in TransferIds : Live(t) /\ sessions[t].req = p.req => t = id
    BY <1>2, <2>1 DEF ConsentInv, SessionsSound, Matched, Awaits, Live
  <2> QED
    BY <1>3, <2>1, <2>2, <2>3 DEF OnlyMoves, Live, Absent
<1>7. RequestsFresh'
  <2>1. \A i \in DOMAIN actions' : actions'[i].type = "RequestApproval" =>
           Len(actions') = 1 /\ actions'[i].req \notin Asked
    BY <1>3 DEF SessionStays, SessionOpens, AsksNothing
  <2>2. ASSUME NEW req \in Asked
        PROVE  req < nextRequestId' /\ \A t \in TransferIds : Collecting(t)' => sessions'[t].req # req
    <3>1. /\ req < nextRequestId /\ nextRequestId \in Nat /\ req \in Nat
          /\ \A t \in TransferIds : Collecting(t) => sessions[t].req # req
      BY DEF BookInv, RequestsFresh, ConsentInv, TypeOK, ManagerTypeOK, PromptTypeOK, Asked
    <3>2. req < nextRequestId'
      BY <1>3, <3>1 DEF OnlyMoves
    <3>3. \A t \in TransferIds : Collecting(t)' => sessions'[t].req # req
      BY <1>3, <3>1 DEF OnlyMoves, SessionStays, SessionOpens, Collecting, Absent
    <3> QED
      BY <3>2, <3>3
  <2> QED
    BY <1>1, <1>4, <2>1, <2>2 DEF RequestsFresh, BookInv
<1>8. SessionsAsked'
  <2>1. \A t \in TransferIds : Awaits(t) => [req |-> sessions[t].req, id |-> t] \in pending
    BY <1>4 DEF BookInv, SessionsAsked
  <2>2. ASSUME NEW t \in TransferIds, Awaits(t)'
        PROVE  \/ [req |-> sessions'[t].req, id |-> t] \in pending
               \/ \E i \in DOMAIN actions' :
                     /\ actions'[i].type = "RequestApproval" /\ actions'[i].id = t
                     /\ actions'[i].req = sessions'[t].req
    <3>1. CASE sessions'[t] = sessions[t]
      BY <2>1, <2>2, <3>1 DEF Awaits
    <3>2. CASE t = id /\ SessionOpens(id)
      <4> PICK r : /\ actions' = <<r>> /\ r.type = "RequestApproval"
                   /\ r.id = id /\ r.req = sessions'[id].req
        BY <2>2, <3>2 DEF SessionOpens, Awaits
      <4>1. 1 \in DOMAIN actions' /\ actions'[1] = r
        OBVIOUS
      <4> QED
        BY <3>2, <4>1
    <3> QED
      BY <1>3, <2>2, <3>1, <3>2 DEF OnlyMoves, SessionStays, Absent, Awaits
  <2> QED
    BY <1>1, <2>2 DEF SessionsAsked
<1>9. DeadlinesAgree'
  <2>1. \A t \in TransferIds \ {id} : t \in ApprovedIds' <=> t \in ApprovedIds
    BY <1>3 DEF OnlyMoves, ApprovedIds
  <2>2. id \in ApprovedIds' => id \in ApprovedIds
    BY <1>3 DEF SessionStays, SessionOpens, ApprovedIds, Absent
  <2>3. id \in ApprovedIds /\ Live(id)' => id \in ApprovedIds'
    BY <1>3 DEF SessionStays, SessionOpens, ApprovedIds, Absent, Live
  <2> QED
    BY <1>1, <1>4, <2>1, <2>2, <2>3 DEF DeadlinesAgree, BookInv
<1>10. JobAgrees' /\ (Alive' => registry' = PendingRequests') /\ InactiveIsIdle'
  BY <1>1, <1>4 DEF JobAgrees, BookInv, Alive, InactiveIsIdle
<1> QED
  BY <1>6, <1>7, <1>8, <1>9, <1>10 DEF BookInv

(* Which requests are pending once some are taken off.                     *)
LEMMA PendingShrinks ==
    ASSUME NEW reqs, pending' = PendingWithout(reqs)
    PROVE  PendingRequests' = PendingRequests \ reqs /\ pending' \subseteq pending
BY DEF PendingWithout, PendingRequests

(* The prompt of a session that a command has ended goes, and no other.    *)
LEMMA BookClear ==
    ASSUME ConsentInv, BookInv, ClearDismissed
    PROVE  BookInv'
<1> PICK reqs : /\ reqs = {r \in PendingRequests :
                             ~IsApprovalPending(r) /\ [req |-> r, id |-> job.id] \in pending}
                /\ pending' = PendingWithout(reqs) /\ late' = late \ reqs
                /\ registry' = registry \ reqs
  BY DEF ClearDismissed
<1>1. /\ worker = "clear" /\ worker' = "dispatch" /\ job.kind = "Protocol"
      /\ UNCHANGED <<sessions, nextRequestId, actions, job, idle, stale, fs, active, shown>>
  BY DEF ClearDismissed, managerVars, controlVars, historyVars, BookInv, JobAgrees
<1>2. PendingRequests' = PendingRequests \ reqs /\ pending' \subseteq pending
  BY PendingShrinks
<1>3. pending \subseteq [req : Nat, id : TransferIds]
  BY DEF ConsentInv, TypeOK, WorkerTypeOK
<1>4. \A p \in pending' : Matched(p)
  <2> SUFFICES ASSUME NEW p \in pending', ~Matched(p) PROVE FALSE
    OBVIOUS
  <2>1. /\ p \in pending /\ p.id = job.id /\ p.req \notin reqs
        /\ \A id \in TransferIds : Live(id) => sessions[id].req # p.req
    BY DEF PendingWithout, BookInv, PromptsMatched
  <2>2. ~IsApprovalPending(p.req)
    BY <2>1 DEF IsApprovalPending, SessionForRequest, Live
  <2>3. p = [req |-> p.req, id |-> job.id] /\ p.req \in PendingRequests
    BY <1>3, <2>1 DEF PendingRequests
  <2> QED
    BY <2>1, <2>2, <2>3
<1>5. PromptsMatched'
  BY <1>1, <1>2, <1>4 DEF BookInv, PromptsMatched, Matched, Awaits
<1>6. RequestsFresh'
  BY <1>1, <1>2 DEF BookInv, RequestsFresh, Asked, Collecting
<1>7. SessionsAsked'
  <2>1. ASSUME NEW id \in TransferIds, Awaits(id),
               [req |-> sessions[id].req, id |-> id] \in pending
        PROVE  [req |-> sessions[id].req, id |-> id] \in pending'
    <3>1. IsApprovalPending(sessions[id].req)
      BY <2>1 DEF IsApprovalPending, SessionForRequest, Awaits
    <3> QED
      BY <2>1, <3>1 DEF PendingWithout
  <2> QED
    BY <1>1, <2>1 DEF BookInv, SessionsAsked, Awaits
<1>8. DeadlinesAgree'
  BY <1>1, <1>2 DEF BookInv, DeadlinesAgree, ApprovedIds, Live
<1>9. JobAgrees' /\ (Alive' => registry' = PendingRequests') /\ InactiveIsIdle'
  BY <1>1, <1>2 DEF JobAgrees, BookInv, Alive, InactiveIsIdle
<1> QED
  BY <1>5, <1>6, <1>7, <1>8, <1>9 DEF BookInv

(* Putting the question to the user.                                       *)
LEMMA BookRequest ==
    ASSUME ConsentInv, StagingInv, BookInv, DispatchRequest
    PROVE  BookInv'
<1> PICK a : a = Head(actions)
  OBVIOUS
<1>1. /\ worker = "dispatch" /\ actions # <<>> /\ actions' = Tail(actions)
      /\ a.type = "RequestApproval"
      /\ pending' = pending \cup {[req |-> a.req, id |-> a.id]}
      /\ registry' = registry \cup {a.req}
      /\ shown' = shown \cup {[req |-> a.req, paths |-> a.paths]}
      /\ UNCHANGED <<sessions, nextRequestId, worker, job, late, idle, stale, fs, active>>
  BY DEF DispatchRequest, Dispatching, controlVars
<1>2. 1 \in DOMAIN actions /\ actions[1] = a /\ DOMAIN actions = 1..Len(actions)
  BY <1>1, LenProperties, EmptySeq DEF ConsentInv, TypeOK, ManagerTypeOK
<1>3. Len(actions) = 1 /\ job.kind = "Protocol" /\ a.req \notin Asked
  BY <1>1, <1>2 DEF BookInv, RequestsFresh
<1>4. DOMAIN actions' = {}
  <2>1. actions' \in Seq(Action) /\ Len(actions') = 0
    BY <1>1, <1>3, HeadTailProperties DEF ConsentInv, TypeOK, ManagerTypeOK
  <2> QED
    BY <2>1, LenProperties
<1>5. Awaits(a.id) /\ sessions[a.id].req = a.req
  BY <1>1, <1>2 DEF StagingInv, ListSound, ItemSound, Awaits
<1>6. a.id \in TransferIds /\ a.req < nextRequestId
  <2>1. a \in Action
    BY <1>1, HeadActionTyped DEF ConsentInv, TypeOK
  <2>2. a.id \in TransferIds
    BY <2>1 DEF Action
  <2> QED
    BY <1>5, <2>2 DEF ConsentInv, SessionsSound, SoundSession, Live, Awaits
<1>7. Asked' = Asked \cup {a.req} /\ PendingRequests' = PendingRequests \cup {a.req}
  <2> DEFINE s == [req |-> a.req, paths |-> a.paths]
             p == [req |-> a.req, id |-> a.id]
  <2>1. shown' = shown \cup {s} /\ s.req = a.req /\ pending' = pending \cup {p} /\ p.req = a.req
    BY <1>1
  <2> HIDE DEF s, p
  <2> QED
    BY <2>1 DEF Asked, PendingRequests
<1>8. PromptsMatched'
  <2>1. \A p \in pending' : Matched(p)
    BY <1>1, <1>5 DEF BookInv, PromptsMatched, Matched
  <2>2. pending' \subseteq [req : Nat, id : TransferIds]
    <3>1. a.req \in Nat
      BY <1>5, <1>6 DEF ConsentInv, TypeOK, ManagerTypeOK, Session
    <3> QED
      BY <1>1, <1>6, <3>1 DEF ConsentInv, TypeOK, WorkerTypeOK
  <2>3. \A p, q \in pending' : p.id = q.id => p = q
    BY <2>1, <2>2 DEF Matched
  <2> QED
    BY <1>1, <2>1, <2>3 DEF PromptsMatched, Matched, Awaits
<1>9. RequestsFresh'
  <2>1. \A t \in TransferIds : Collecting(t) => sessions[t].req # a.req
    BY <1>5, <1>6 DEF ConsentInv, SessionsSound, Collecting, Live, Awaits
  <2> QED
    BY <1>1, <1>4, <1>6, <1>7, <2>1 DEF BookInv, RequestsFresh, Collecting
<1>10. SessionsAsked'
  <2> SUFFICES ASSUME NEW t \in TransferIds, Awaits(t)
               PROVE  [req |-> sessions[t].req, id |-> t] \in pending'
    BY <1>1 DEF SessionsAsked, Awaits
  <2>1. \A i \in DOMAIN actions : actions[i] = a
    BY <1>2, <1>3
  <2> QED
    BY <1>1, <1>3, <2>1 DEF BookInv, SessionsAsked
<1>11. DeadlinesAgree'
  BY <1>1, <1>7 DEF BookInv, DeadlinesAgree, ApprovedIds, Live
<1>12. JobAgrees' /\ (Alive' => registry' = PendingRequests') /\ InactiveIsIdle'
  BY <1>1, <1>3, <1>7 DEF JobAgrees, BookInv, Alive, InactiveIsIdle
<1> QED
  BY <1>8, <1>9, <1>10, <1>11, <1>12 DEF BookInv

(* Dispatching anything else.                                              *)
LEMMA BookDispatch ==
    ASSUME ConsentInv, BookInv, DispatchWrite \/ DispatchExecute \/ DispatchAbort
    PROVE  BookInv'
<1> PICK a : a = Head(actions)
  OBVIOUS
<1>1. /\ worker = "dispatch" /\ actions # <<>> /\ actions' = Tail(actions)
      /\ a.type # "RequestApproval"
      /\ UNCHANGED <<sessions, nextRequestId, worker, job, pending, late, idle, stale,
                     active, registry, shown>>
  BY DEF DispatchWrite, DispatchExecute, DispatchAbort, Dispatching, controlVars,
     workerVars, historyVars
<1>2. /\ 1 \in DOMAIN actions /\ actions[1] = a
      /\ \A i \in DOMAIN actions' : i + 1 \in DOMAIN actions /\ actions'[i] = actions[i + 1]
      /\ \A j \in DOMAIN actions : j = 1 \/ \E i \in DOMAIN actions' : actions'[i] = actions[j]
  BY <1>1, TailItems DEF ConsentInv, TypeOK
<1>3. \A i \in DOMAIN actions' : actions'[i].type # "RequestApproval"
  <2>1. actions \in Seq(Action) /\ DOMAIN actions = 1..Len(actions)
    BY LenProperties DEF ConsentInv, TypeOK, ManagerTypeOK
  <2>2. \A i \in DOMAIN actions : actions[i].type = "RequestApproval" => Len(actions) = 1
    BY DEF BookInv, RequestsFresh
  <2>3. \A i \in DOMAIN actions : actions[i].type # "RequestApproval"
    BY <1>1, <1>2, <2>1, <2>2
  <2> QED
    BY <1>2, <2>3
<1>4. Asked' = Asked /\ PendingRequests' = PendingRequests
  BY <1>1 DEF Asked, PendingRequests
<1>5. PromptsMatched'
  BY <1>1 DEF BookInv, PromptsMatched, Matched, Awaits, Live
<1>6. RequestsFresh'
  BY <1>1, <1>3, <1>4 DEF BookInv, RequestsFresh, Collecting
<1>7. SessionsAsked'
  <2>1. \A j \in DOMAIN actions : actions[j].type = "RequestApproval" =>
           \E i \in DOMAIN actions' : actions'[i] = actions[j]
    BY <1>1, <1>2
  <2> QED
    BY <1>1, <2>1 DEF BookInv, SessionsAsked, Awaits
<1>8. DeadlinesAgree'
  BY <1>1, <1>4 DEF BookInv, DeadlinesAgree, ApprovedIds, Live
<1>9. JobAgrees' /\ (Alive' => registry' = PendingRequests') /\ InactiveIsIdle'
  BY <1>1, <1>4 DEF JobAgrees, BookInv, Alive, InactiveIsIdle
<1> QED
  BY <1>5, <1>6, <1>7, <1>8, <1>9 DEF BookInv

(* Only the session that waits for it ends with a prompt.                  *)
LEMMA RejectMoves ==
    ASSUME ConsentInv, NEW p \in pending, Matched(p), Reject(p.req)
    PROVE  /\ OnlyMoves(p.id) /\ sessions'[p.id] = Absent /\ AsksNothing
           /\ nextRequestId' = nextRequestId
<1>1. p.id \in TransferIds
  BY DEF ConsentInv, TypeOK, WorkerTypeOK
<1>2. p.id \in SessionForRequest(p.req)
  BY <1>1 DEF Matched, Awaits, SessionForRequest
<1>3. PICK id \in SessionForRequest(p.req) : RejectSession(id)
  BY <1>2 DEF Reject, IsApprovalPending
<1>4. id = p.id
  BY <1>1, <1>3 DEF SessionForRequest, Matched, Awaits, ConsentInv, SessionsSound, Live
<1>5. EndSession(p.id, Farewell(p.id, TRUE))
  BY <1>3, <1>4 DEF RejectSession, Live, Matched, Awaits
<1> QED
  BY <1>1, <1>5, EndMoves DEF ConsentInv, TypeOK

(* A prompt that was denied, or whose time is up, goes with its session.   *)
LEMMA BookWithdraw ==
    ASSUME ConsentInv, BookInv, NEW p \in pending, Reject(p.req),
           worker \in {"recv", "dispatch"}, worker' = "dispatch", actions = <<>>,
           job.kind \in {"None", "Tick"},
           \/ job'.kind = "Approval" /\ job'.approved = {}
           \/ job.kind = "Tick" /\ job'.kind = "Tick" /\ job'.dueIdle = job.dueIdle,
           pending' = PendingWithout({p.req}), late' = late \ {p.req},
           registry' = registry \ {p.req}, UNCHANGED <<idle, stale, fs, active, shown>>
    PROVE  BookInv'
<1>1. \A q \in pending : Matched(q)
  BY DEF BookInv, PromptsMatched
<1>2. /\ \A t \in TransferIds : t # p.id => sessions'[t] = sessions[t]
      /\ sessions'[p.id] = Absent /\ AsksNothing /\ nextRequestId' = nextRequestId
      /\ Awaits(p.id) /\ sessions[p.id].req = p.req
  BY <1>1, RejectMoves DEF OnlyMoves, Matched
<1>3. pending \subseteq [req : Nat, id : TransferIds] /\ p.id \in TransferIds
  BY DEF ConsentInv, TypeOK, WorkerTypeOK
<1>4. /\ PendingRequests' = PendingRequests \ {p.req} /\ pending' \subseteq pending
      /\ \A q \in pending' : q.req # p.req
  BY PendingShrinks DEF PendingWithout
<1>5. DOMAIN actions = {} /\ Asked' = Asked
  BY DEF Asked
<1>6. PromptsMatched'
  <2>1. ASSUME NEW q \in pending' PROVE Matched(q)'
    <3>1. Matched(q) /\ q.req # p.req /\ q.id \in TransferIds
      BY <1>1, <1>3, <1>4
    <3>2. q.id # p.id
      BY <1>2, <3>1 DEF Matched
    <3> QED
      BY <1>2, <3>1, <3>2 DEF Matched, Awaits
  <2> QED
    BY <1>4, <2>1 DEF BookInv, PromptsMatched
<1>7. RequestsFresh'
  <2>1. \A t \in TransferIds : Collecting(t)' => Collecting(t) /\ sessions'[t] = sessions[t]
    BY <1>2 DEF Collecting, Absent
  <2> QED
    BY <1>2, <1>4, <1>5, <2>1 DEF BookInv, RequestsFresh, AsksNothing
<1>8. SessionsAsked'
  <2> SUFFICES ASSUME NEW t \in TransferIds, Awaits(t)'
               PROVE  [req |-> sessions'[t].req, id |-> t] \in pending'
    BY DEF SessionsAsked
  <2>1. t # p.id /\ sessions'[t] = sessions[t] /\ Awaits(t)
    BY <1>2 DEF Awaits, Absent
  <2>2. [req |-> sessions[t].req, id |-> t] \in pending
    BY <1>5, <2>1 DEF BookInv, SessionsAsked
  <2>3. sessions[t].req # p.req
    BY <1>2, <1>3, <2>1 DEF ConsentInv, SessionsSound, Live, Awaits
  <2> QED
    BY <2>1, <2>2, <2>3 DEF PendingWithout
<1>9. DeadlinesAgree'
  <2>1. ApprovedIds' = ApprovedIds
    BY <1>2, <1>3 DEF ApprovedIds, Awaits, Absent
  <2> QED
    BY <1>4, <2>1 DEF BookInv, DeadlinesAgree
<1>10. JobAgrees' /\ (Alive' => registry' = PendingRequests')
  BY <1>4 DEF BookInv, JobAgrees, Alive
<1>11. InactiveIsIdle'
  <2>1. Alive /\ LiveSessions # {}
    BY <1>2, <1>3 DEF Alive, LiveSessions, Live, Awaits
  <2> QED
    BY <2>1 DEF BookInv, InactiveIsIdle
<1> QED
  BY <1>6, <1>7, <1>8, <1>9, <1>10, <1>11 DEF BookInv

(* A granted prompt turns its session into an approved one.                *)
LEMMA BookGrant ==
    ASSUME ConsentInv, BookInv, NEW p \in pending, Approve(p.req), InTime(p.req),
           worker = "recv", worker' = "dispatch", actions = <<>>,
           job'.kind = "Approval", job'.approved = {p.id},
           pending' = PendingWithout({p.req}), registry' = registry \ {p.req},
           UNCHANGED <<late, idle, stale, fs, active, shown>>
    PROVE  BookInv'
<1>1. \A q \in pending : Matched(q)
  BY DEF BookInv, PromptsMatched
<1>2. pending \subseteq [req : Nat, id : TransferIds] /\ p.id \in TransferIds
  BY DEF ConsentInv, TypeOK, WorkerTypeOK
<1>3. PICK id \in SessionForRequest(p.req) :
        /\ sessions' = [sessions EXCEPT ![id].phase = "Approved", ![id].wanted = <<>>]
        /\ actions' = StatusResponse(id, sessions[id].quiet, FALSE, FALSE)
                      \o IF sessions[id].dir = "Receive"
                         THEN ListingOf(id, sessions[id]) ELSE <<>>
        /\ nextRequestId' = nextRequestId
  <2>1. p.id \in SessionForRequest(p.req)
    BY <1>1, <1>2 DEF Matched, Awaits, SessionForRequest
  <2> QED
    BY <2>1 DEF Approve, IsApprovalPending
<1>4. id = p.id
  BY <1>1, <1>2, <1>3 DEF SessionForRequest, Matched, Awaits, ConsentInv, SessionsSound, Live
<1>5. /\ \A t \in TransferIds : t # p.id => sessions'[t] = sessions[t]
      /\ sessions'[p.id].phase = "Approved"
      /\ Awaits(p.id) /\ sessions[p.id].req = p.req
  BY <1>1, <1>2, <1>3, <1>4 DEF ConsentInv, TypeOK, ManagerTypeOK, Session, Matched
<1>6. AsksNothing
  <2> DEFINE Silent  == {a \in Action : a.type # "RequestApproval"}
             session == sessions[p.id]
             status  == StatusResponse(p.id, session.quiet, FALSE, FALSE)
             listing == IF session.dir = "Receive" THEN ListingOf(p.id, session) ELSE <<>>
  <2>1. session \in Session
    BY <1>2, SessionTyped DEF ConsentInv, TypeOK
  <2>2. PlainAction \subseteq Silent /\ ActionFor(session.req) \subseteq Silent
    BY DEF PlainAction, ActionFor, Action
  <2>3. /\ status \in Seq(PlainAction)
        /\ ListingOf(p.id, session) \in Seq(ActionFor(session.req))
    BY <1>2, <2>1, StatusPlain, ListingFor
  <2>4. <<>> \in Seq(Silent)
    OBVIOUS
  <2> HIDE DEF Silent
  <2>5. status \in Seq(Silent) /\ listing \in Seq(Silent)
    BY <2>2, <2>3, <2>4, SeqMonotonic
  <2>6. actions' = status \o listing
    BY <1>3, <1>4
  <2> HIDE DEF status, listing
  <2>7. actions' \in Seq(Silent)
    BY <2>5, <2>6, ConcatProperties
  <2>8. \A i \in DOMAIN actions' : actions'[i] \in Silent
    BY <2>7, LenProperties, ElementOfSeq
  <2> QED
    BY <2>8 DEF Silent, AsksNothing
<1>7. /\ PendingRequests' = PendingRequests \ {p.req} /\ pending' \subseteq pending
      /\ \A q \in pending' : q.req # p.req
  BY PendingShrinks DEF PendingWithout
<1>8. DOMAIN actions = {} /\ Asked' = Asked /\ job.kind = "None"
  BY DEF Asked, BookInv, JobAgrees, NoJob
<1>9. PromptsMatched'
  <2>1. ASSUME NEW q \in pending' PROVE Matched(q)'
    <3>1. Matched(q) /\ q.req # p.req /\ q.id \in TransferIds
      BY <1>1, <1>2, <1>7
    <3>2. q.id # p.id
      BY <1>5, <3>1 DEF Matched
    <3> QED
      BY <1>5, <3>1, <3>2 DEF Matched, Awaits
  <2> QED
    BY <1>7, <2>1 DEF BookInv, PromptsMatched
<1>10. RequestsFresh'
  <2>1. \A t \in TransferIds : Collecting(t)' => Collecting(t) /\ sessions'[t] = sessions[t]
    BY <1>5 DEF Collecting
  <2> QED
    BY <1>3, <1>6, <1>7, <1>8, <2>1 DEF BookInv, RequestsFresh, AsksNothing
<1>11. SessionsAsked'
  <2> SUFFICES ASSUME NEW t \in TransferIds, Awaits(t)'
               PROVE  [req |-> sessions'[t].req, id |-> t] \in pending'
    BY DEF SessionsAsked
  <2>1. t # p.id /\ sessions'[t] = sessions[t] /\ Awaits(t)
    BY <1>5 DEF Awaits
  <2>2. [req |-> sessions[t].req, id |-> t] \in pending
    BY <1>8, <2>1 DEF BookInv, SessionsAsked
  <2>3. sessions[t].req # p.req
    BY <1>2, <1>5, <2>1 DEF ConsentInv, SessionsSound, Live, Awaits
  <2> QED
    BY <2>1, <2>2, <2>3 DEF PendingWithout
<1>12. DeadlinesAgree'
  <2>1. ApprovedIds' = ApprovedIds \cup {p.id}
    BY <1>2, <1>5 DEF ApprovedIds
  <2>2. idle = ApprovedIds /\ stale \subseteq idle /\ late \subseteq PendingRequests
        /\ p.req \notin late
    BY <1>8 DEF BookInv, DeadlinesAgree, InTime
  <2> QED
    BY <1>7, <2>1, <2>2 DEF DeadlinesAgree
<1>13. JobAgrees' /\ (Alive' => registry' = PendingRequests')
  BY <1>7 DEF BookInv, JobAgrees, Alive
<1>14. InactiveIsIdle'
  <2>1. Alive /\ LiveSessions # {}
    BY <1>2, <1>5 DEF Alive, LiveSessions, Live, Awaits
  <2> QED
    BY <1>8, <2>1 DEF BookInv, InactiveIsIdle
<1> QED
  BY <1>9, <1>10, <1>11, <1>12, <1>13, <1>14 DEF BookInv

(* A shutdown closes the books first and ends the sessions afterwards.     *)
LEMMA BookShutdown ==
    ASSUME ConsentInv, BookInv, RecvShutdown
    PROVE  BookInv'
<1>1. /\ worker = "recv" /\ worker' = "dispatch" /\ job'.kind = "Shutdown" /\ pending' = {}
      /\ registry' = registry \ PendingRequests
      /\ late' = {} /\ idle' = {} /\ stale' = {}
      /\ UNCHANGED <<sessions, nextRequestId, actions, fs, active, shown>>
  BY DEF RecvShutdown, managerVars, historyVars
<1>2. /\ PendingRequests' = {} /\ Asked' = Asked /\ DOMAIN actions = {}
      /\ job.kind = "None" /\ registry = PendingRequests
  BY <1>1 DEF PendingRequests, Asked, ConsentInv, ListTakenUp, BookInv, JobAgrees, NoJob, Alive
<1>3. PromptsMatched' /\ SessionsAsked' /\ DeadlinesAgree' /\ JobAgrees'
  BY <1>1, <1>2 DEF PromptsMatched, SessionsAsked, DeadlinesAgree, JobAgrees
<1>4. RequestsFresh'
  BY <1>1, <1>2 DEF BookInv, RequestsFresh, Collecting
<1>5. LiveSessions' = LiveSessions
  BY <1>1 DEF LiveSessions, Live
<1>6. (Alive' => registry' = PendingRequests') /\ InactiveIsIdle'
  BY <1>1, <1>2, <1>5 DEF BookInv, InactiveIsIdle, Alive
<1> QED
  BY <1>3, <1>4, <1>6 DEF BookInv

(* Ending the sessions one by one, with nothing pending any more.          *)
LEMMA BookRejectNext ==
    ASSUME ConsentInv, BookInv, RejectNext
    PROVE  BookInv'
<1>1. PICK id \in LiveSessions : RejectSession(id)
  BY DEF RejectNext
<1>2. /\ worker = "dispatch" /\ job.kind = "Shutdown"
      /\ UNCHANGED <<worker, job, pending, late, idle, stale, fs, active, registry, shown>>
  BY DEF RejectNext, Drained, workerVars, controlVars, historyVars
<1>3. id \in TransferIds /\ Live(id)
  BY DEF LiveSessions
<1>4. /\ \A t \in TransferIds : t # id => sessions'[t] = sessions[t]
      /\ sessions'[id] = Absent /\ AsksNothing /\ nextRequestId' = nextRequestId
  <2>1. EndSession(id, Farewell(id, TRUE))
    BY <1>1, <1>3 DEF RejectSession
  <2> QED
    BY <1>3, <2>1, EndMoves DEF ConsentInv, TypeOK, OnlyMoves
<1>5. pending = {} /\ PendingRequests' = PendingRequests /\ Asked' = Asked
  BY <1>2 DEF BookInv, JobAgrees, PendingRequests, Asked
<1>6. PromptsMatched' /\ SessionsAsked' /\ DeadlinesAgree' /\ JobAgrees'
  BY <1>2, <1>5 DEF PromptsMatched, SessionsAsked, DeadlinesAgree, JobAgrees, BookInv
<1>7. RequestsFresh'
  <2>1. \A t \in TransferIds : Collecting(t)' => Collecting(t) /\ sessions'[t] = sessions[t]
    BY <1>4 DEF Collecting, Absent
  <2> QED
    BY <1>4, <1>5, <2>1 DEF BookInv, RequestsFresh, AsksNothing
<1>8. (Alive' => registry' = PendingRequests') /\ InactiveIsIdle'
  BY <1>2, <1>3, <1>5 DEF BookInv, InactiveIsIdle, Alive, LiveSessions
<1> QED
  BY <1>6, <1>7, <1>8 DEF BookInv

(* An approved transfer that was idle too long ends with its deadline.     *)
LEMMA BookExpireTransfer ==
    ASSUME ConsentInv, BookInv, NEW id \in TransferIds, ExpireTransfer(id)
    PROVE  BookInv'
<1>1. /\ worker = "dispatch" /\ job.kind = "Tick" /\ id \in job.dueIdle
      /\ idle' = idle \ {id} /\ stale' = stale \ {id} /\ RejectSession(id)
      /\ job' = [job EXCEPT !.dueIdle = @ \ {id}] /\ actions = <<>>
      /\ UNCHANGED <<worker, pending, late, fs, active, registry, shown>>
  BY DEF ExpireTransfer, Drained, controlVars, historyVars
<1>2. job'.kind = "Tick" /\ job'.dueIdle = job.dueIdle \ {id}
  BY <1>1 DEF ConsentInv, TypeOK, WorkerTypeOK, Job
<1>3. idle = ApprovedIds /\ job.dueIdle \subseteq idle
  BY <1>1 DEF BookInv, DeadlinesAgree
<1>4. sessions[id].phase = "Approved"
  BY <1>1, <1>3 DEF ApprovedIds
<1>5. /\ \A t \in TransferIds : t # id => sessions'[t] = sessions[t]
      /\ sessions'[id] = Absent /\ AsksNothing /\ nextRequestId' = nextRequestId
  <2>1. EndSession(id, Farewell(id, TRUE))
    BY <1>1, <1>4 DEF RejectSession, Live
  <2> QED
    BY <2>1, EndMoves DEF ConsentInv, TypeOK, OnlyMoves
<1>6. PendingRequests' = PendingRequests /\ Asked' = Asked /\ DOMAIN actions = {}
  BY <1>1 DEF PendingRequests, Asked
<1>7. PromptsMatched'
  <2>1. ASSUME NEW p \in pending PROVE Matched(p)'
    <3>1. Matched(p) /\ p.id \in TransferIds
      BY <1>1 DEF BookInv, PromptsMatched, ConsentInv, TypeOK, WorkerTypeOK
    <3>2. p.id # id
      BY <1>4, <3>1 DEF Matched, Awaits
    <3> QED
      BY <1>5, <3>1, <3>2 DEF Matched, Awaits
  <2> QED
    BY <1>1, <2>1 DEF BookInv, PromptsMatched
<1>8. RequestsFresh'
  <2>1. \A t \in TransferIds : Collecting(t)' => Collecting(t) /\ sessions'[t] = sessions[t]
    BY <1>5 DEF Collecting, Absent
  <2> QED
    BY <1>5, <1>6, <2>1 DEF BookInv, RequestsFresh, AsksNothing
<1>9. SessionsAsked'
  <2>1. \A t \in TransferIds : Awaits(t)' => Awaits(t) /\ sessions'[t] = sessions[t]
    BY <1>5 DEF Awaits, Absent
  <2> QED
    BY <1>1, <1>6, <2>1 DEF BookInv, SessionsAsked
<1>10. DeadlinesAgree'
  <2>1. ApprovedIds' = ApprovedIds \ {id}
    BY <1>5 DEF ApprovedIds, Absent
  <2> QED
    BY <1>1, <1>2, <1>3, <1>6, <2>1 DEF BookInv, DeadlinesAgree
<1>11. JobAgrees' /\ (Alive' => registry' = PendingRequests')
  BY <1>1, <1>2, <1>6 DEF BookInv, JobAgrees, Alive
<1>12. InactiveIsIdle'
  <2>1. Alive /\ LiveSessions # {}
    BY <1>1, <1>4 DEF Alive, LiveSessions, Live
  <2> QED
    BY <1>1, <2>1 DEF BookInv, InactiveIsIdle
<1> QED
  BY <1>7, <1>8, <1>9, <1>10, <1>11, <1>12 DEF BookInv

(* The end of a message or tick: the deadlines are brought up to date, and *)
(* the worker is active exactly if a session is left.                      *)
LEMMA BookFinish ==
    ASSUME ConsentInv, StagingInv, BookInv, FinishProtocol \/ FinishApproval \/ FinishTick
    PROVE  BookInv'
<1>1. /\ worker = "dispatch" /\ worker' = "recv" /\ actions = <<>> /\ job' = NoJob
      /\ job.kind # "Shutdown" /\ active' = (LiveSessions # {})
      /\ UNCHANGED <<managerVars, pending, late, fs, registry, shown>>
  BY DEF FinishProtocol, FinishApproval, FinishTick, Drained, historyVars
<1>2. /\ job'.kind = "None" /\ DOMAIN actions = {} /\ PendingRequests' = PendingRequests
      /\ Asked' = Asked
  BY <1>1 DEF NoJob, PendingRequests, Asked
<1>3. \A p \in pending : Matched(p) /\ p.id \in TransferIds
  BY <1>1 DEF BookInv, PromptsMatched, ConsentInv, TypeOK, WorkerTypeOK
<1>4. PromptsMatched'
  BY <1>1, <1>3 DEF BookInv, PromptsMatched, Matched, Awaits, managerVars
<1>5. RequestsFresh' /\ SessionsAsked'
  BY <1>1, <1>2 DEF BookInv, RequestsFresh, SessionsAsked, Collecting, Awaits, managerVars
<1>6. idle' = ApprovedIds /\ stale' \subseteq idle'
  <2>1. CASE FinishProtocol
    <3>1. /\ job.kind = "Protocol"
          /\ idle' = IF Live(job.id) THEN idle ELSE idle \ {job.id}
          /\ stale' \subseteq stale /\ (~Live(job.id) => job.id \notin stale')
      BY <2>1 DEF FinishProtocol, Drained
    <3>2. /\ \A t \in TransferIds \ {job.id} : t \in idle <=> t \in ApprovedIds
          /\ job.id \in ApprovedIds => job.id \in idle
          /\ job.id \in idle /\ Live(job.id) => job.id \in ApprovedIds
          /\ stale \subseteq idle
      BY <3>1 DEF BookInv, DeadlinesAgree
    <3>3. idle \subseteq TransferIds /\ ApprovedIds \subseteq TransferIds
          /\ (~Live(job.id) => job.id \notin ApprovedIds)
      BY DEF ConsentInv, TypeOK, WorkerTypeOK, ApprovedIds, Live
    <3> QED
      BY <3>1, <3>2, <3>3
  <2>2. CASE FinishApproval
    BY <2>2 DEF FinishApproval, Drained, BookInv, DeadlinesAgree
  <2>3. CASE FinishTick
    BY <2>3 DEF FinishTick, Drained, BookInv, DeadlinesAgree
  <2> QED
    BY <2>1, <2>2, <2>3
<1>7. DeadlinesAgree'
  <2>1. ApprovedIds' = ApprovedIds
    BY <1>1 DEF ApprovedIds, managerVars
  <2> QED
    BY <1>1, <1>2, <1>6, <2>1 DEF BookInv, DeadlinesAgree
<1>8. JobAgrees' /\ (Alive' => registry' = PendingRequests')
  BY <1>1, <1>2 DEF BookInv, JobAgrees, Alive, NoJob
<1>9. InactiveIsIdle'
  <2> SUFFICES ASSUME LiveSessions = {}
               PROVE  registry = {} /\ \A id \in TransferIds : fs[id].owner = 0
    BY <1>1 DEF InactiveIsIdle, LiveSessions, Live, managerVars
  <2>1. \A id \in TransferIds : ~Live(id)
    BY DEF LiveSessions
  <2>2. pending = {}
    BY <1>3, <2>1 DEF Matched, Awaits, Live
  <2>3. registry = {}
    BY <1>1, <2>2 DEF BookInv, Alive, PendingRequests
  <2>4. \A id \in TransferIds : fs[id].owner = 0
    BY <1>2, <2>1 DEF StagingInv, EntrySound, Owns, Live
  <2> QED
    BY <2>3, <2>4
<1> QED
  BY <1>4, <1>5, <1>7, <1>8, <1>9 DEF BookInv

(* Deadlines pass, and the tick takes note of those that have passed.      *)
LEMMA BookTime ==
    ASSUME BookInv, TimePasses \/ Tick
    PROVE  BookInv'
<1>1. /\ UNCHANGED <<managerVars, pending, idle, fs, active, registry, shown>>
      /\ \/ UNCHANGED <<worker, job>>
         \/ /\ worker = "recv" /\ worker' = "dispatch" /\ job'.kind = "Tick"
            /\ job'.dueIdle = stale
      /\ stale' \subseteq idle /\ late' \subseteq PendingRequests
  BY DEF TimePasses, Tick, TickJob, PromptAges, TransferAges, controlVars, historyVars,
     BookInv, DeadlinesAgree
<1>2. job.kind = "None" \/ UNCHANGED <<worker, job>>
  BY <1>1 DEF BookInv, JobAgrees, NoJob
<1>3. /\ PendingRequests' = PendingRequests /\ Asked' = Asked /\ ApprovedIds' = ApprovedIds
      /\ LiveSessions' = LiveSessions /\ (Alive' => Alive)
  BY <1>1 DEF PendingRequests, Asked, ApprovedIds, LiveSessions, Live, managerVars, Alive
<1> USE <1>1 DEF managerVars
<1>4. PromptsMatched'
  BY DEF BookInv, PromptsMatched, Matched, Awaits, Live
<1>5. RequestsFresh' /\ SessionsAsked'
  BY <1>2, <1>3 DEF BookInv, RequestsFresh, SessionsAsked, Collecting, Awaits
<1>6. DeadlinesAgree'
  BY <1>2, <1>3 DEF BookInv, DeadlinesAgree, Live
<1>7. JobAgrees' /\ (Alive' => registry' = PendingRequests')
  BY <1>2, <1>3 DEF BookInv, JobAgrees
<1>8. InactiveIsIdle'
  BY <1>2, <1>3 DEF BookInv, InactiveIsIdle
<1> QED
  BY <1>4, <1>5, <1>6, <1>7, <1>8 DEF BookInv

(* Whatever is received.                                                   *)
LEMMA BookRecv ==
    ASSUME ConsentInv, StagingInv, BookInv, RecvNext
    PROVE  BookInv'
<1>1. CASE RecvProtocol
  BY <1>1, BookProtocol
<1>2. CASE RecvStaleApproval
  BY <1>2, BookFrame DEF RecvStaleApproval, workerVars, historyVars
<1>3. CASE RecvShutdown
  BY <1>3, BookShutdown
<1>4. CASE RecvLateApproval \/ RecvApproval
  <2>1. worker = "recv" /\ worker' = "dispatch" /\ actions = <<>> /\ job.kind = "None"
    BY <1>4 DEF RecvLateApproval, RecvApproval, ConsentInv, ListTakenUp, BookInv, JobAgrees,
       NoJob
  <2>2. UNCHANGED <<idle, stale, fs, active, shown>>
    BY <1>4 DEF RecvLateApproval, RecvApproval, historyVars
  <2>3. CASE RecvLateApproval
    <3>1. PICK p \in pending :
            /\ pending' = PendingWithout({p.req}) /\ late' = late \ {p.req}
            /\ registry' = registry \ {p.req} /\ Reject(p.req)
            /\ job'.kind = "Approval" /\ job'.approved = {}
      BY <2>3 DEF RecvLateApproval
    <3> QED
      BY <2>1, <2>2, <3>1, BookWithdraw
  <2>4. CASE RecvApproval
    <3>1. PICK p \in pending :
            /\ InTime(p.req) /\ pending' = PendingWithout({p.req})
            /\ registry' = registry \ {p.req}
            /\ job'.kind = "Approval"
            /\ \/ Approve(p.req) /\ job'.approved = {p.id}
               \/ Reject(p.req) /\ job'.approved = {}
      <4> PICK approve : approve = Head(chan).approve
        OBVIOUS
      <4>1. PICK p \in pending :
              /\ InTime(p.req) /\ pending' = PendingWithout({p.req})
              /\ registry' = registry \ {p.req}
              /\ IF approve THEN Approve(p.req) ELSE Reject(p.req)
              /\ job' = [kind |-> "Approval", approved |-> IF approve THEN {p.id} ELSE {}]
        BY <2>4 DEF RecvApproval
      <4>2. job'.kind = "Approval" /\ job'.approved = IF approve THEN {p.id} ELSE {}
        BY <4>1
      <4> QED
        BY <4>1, <4>2
    <3>2. late' = late /\ late' = late \ {p.req}
      BY <2>4, <3>1 DEF RecvApproval, InTime
    <3> QED
      BY <2>1, <2>2, <3>1, <3>2, BookWithdraw, BookGrant
  <2> QED
    BY <1>4, <2>3, <2>4
<1> QED
  BY <1>1, <1>2, <1>3, <1>4 DEF RecvNext

(* Whatever the worker does next.                                          *)
LEMMA BookWork ==
    ASSUME ConsentInv, StagingInv, BookInv, WorkNext
    PROVE  BookInv'
<1>1. CASE ClearDismissed
  BY <1>1, BookClear
<1>2. CASE DispatchRequest
  BY <1>2, BookRequest
<1>3. CASE DispatchWrite \/ DispatchExecute \/ DispatchAbort
  BY <1>3, BookDispatch
<1>4. CASE DispatchFails \/ FinishShutdown
  BY <1>4, BookStop DEF DispatchFails, FinishShutdown, historyVars
<1>5. CASE FinishProtocol \/ FinishApproval \/ FinishTick
  BY <1>5, BookFinish
<1>6. CASE RejectNext
  BY <1>6, BookRejectNext
<1>7. ASSUME NEW req \in PendingRequests, ExpirePrompt(req)
      PROVE  BookInv'
  <2>1. PICK p \in pending : p.req = req
    BY <1>7 DEF PendingRequests
  <2>2. /\ worker = "dispatch" /\ worker' = "dispatch" /\ actions = <<>> /\ job.kind = "Tick"
        /\ pending' = PendingWithout({p.req}) /\ late' = late \ {p.req}
        /\ registry' = registry \ {p.req} /\ Reject(p.req)
        /\ UNCHANGED <<idle, stale, fs, active, shown>>
        /\ job' = [job EXCEPT !.due = @ \ {req}]
    BY <1>7, <2>1 DEF ExpirePrompt, Drained, controlVars, historyVars
  <2>3. job'.kind = "Tick" /\ job'.dueIdle = job.dueIdle
    BY <2>2 DEF ConsentInv, TypeOK, WorkerTypeOK, Job
  <2> QED
    BY <2>2, <2>3, BookWithdraw
<1>8. ASSUME NEW id \in TransferIds, ExpireTransfer(id)
      PROVE  BookInv'
  BY <1>8, BookExpireTransfer
<1>9. CASE ResetActive \/ ResetQueued \/ CloseReceiver
  BY <1>9, BookExit
<1> QED
  BY <1>1, <1>2, <1>3, <1>4, <1>5, <1>6, <1>7, <1>8, <1>9 DEF WorkNext

(* No step leaves the books wrong.                                         *)
LEMMA BookStep ==
    ConsentInv /\ StagingInv /\ ShutdownDrains /\ BookInv /\ [Next]_vars => BookInv'
<1> SUFFICES ASSUME ConsentInv, StagingInv, ShutdownDrains, BookInv, [Next]_vars
             PROVE  BookInv'
  OBVIOUS
<1>1. CASE UNCHANGED vars
  BY <1>1, BookFrame DEF vars, workerVars, controlVars, historyVars
<1>2. CASE \/ ReaderNext \/ (\E c \in Clients : ClientNext(c)) \/ Destroy
           \/ (\E k \in Closers : CloserNext(k)) \/ GateNext
  <2>1. UNCHANGED <<managerVars, worker, job, pending, late, idle, stale, active, fs, shown>>
    BY <1>2 DEF ReaderNext, ReadCommand, CountQueued, RecheckAccepting, UncountQueued,
       SendCommand, SendCommandFails, ReaderEof, ClientNext, Respond, SendApproval,
       SendApprovalFails, Destroy, CloserNext, SendShutdown, SendShutdownFails,
       ClearRegistry, GateNext, Quiesce, LoadActive, LoadQueued, Resume, workerVars,
       controlVars, historyVars
  <2>2. Alive => registry' = registry
    BY <1>2 DEF ReaderNext, ReadCommand, CountQueued, RecheckAccepting, UncountQueued,
       SendCommand, SendCommandFails, ReaderEof, ClientNext, Respond, SendApproval,
       SendApprovalFails, Destroy, CloserNext, SendShutdown, SendShutdownFails,
       ClearRegistry, GateNext, Quiesce, LoadActive, LoadQueued, Resume, ShutdownDrains
  <2> QED
    BY <2>1, <2>2, BookFrame
<1>3. CASE RecvNext
  BY <1>3, BookRecv
<1>4. CASE WorkNext
  BY <1>4, BookWork
<1>5. CASE TimePasses \/ Tick
  BY <1>5, BookTime
<1> QED
  BY <1>1, <1>2, <1>3, <1>4, <1>5 DEF Next, Terminated

(* The worker's books are right in every state.                            *)
LEMMA BookIsInvariant == Spec => []BookInv
<1>1. Init => BookInv
  BY BookInit
<1>2. ConsentInv /\ StagingInv /\ ShutdownDrains /\ BookInv /\ [Next]_vars => BookInv'
  BY BookStep
<1> QED
  BY <1>1, <1>2, ConsentIsInvariant, StagingIsInvariant, ShutdownDrainsCorrect, PTL DEF Spec

(* Between two messages every session that waits has its prompt, every     *)
(* visible prompt its session, and every approved transfer its deadline.   *)
THEOREM BookkeepingCorrect == Spec => []BookkeepingAgrees
<1>1. ConsentInv /\ BookInv => BookkeepingAgrees
  <2> SUFFICES ASSUME ConsentInv, BookInv, worker = "recv"
               PROVE  /\ pending = {[req |-> sessions[id].req, id |-> id] :
                           id \in {i \in TransferIds : sessions[i].phase = "AwaitApproval"}}
                      /\ registry = PendingRequests
                      /\ idle = {id \in TransferIds : sessions[id].phase = "Approved"}
    BY DEF BookkeepingAgrees
  <2>1. job.kind = "None" /\ DOMAIN actions = {}
    BY DEF BookInv, JobAgrees, NoJob, ConsentInv, ListTakenUp
  <2>2. registry = PendingRequests /\ idle = ApprovedIds
    BY <2>1 DEF BookInv, Alive, DeadlinesAgree
  <2>3. pending \subseteq [req : Nat, id : TransferIds]
    BY DEF ConsentInv, TypeOK, WorkerTypeOK
  <2>4. \A p \in pending : Awaits(p.id) /\ p = [req |-> sessions[p.id].req, id |-> p.id]
    BY <2>3 DEF BookInv, PromptsMatched, Matched
  <2>5. \A id \in TransferIds : Awaits(id) => [req |-> sessions[id].req, id |-> id] \in pending
    BY <2>1 DEF BookInv, SessionsAsked
  <2> QED
    BY <2>2, <2>3, <2>4, <2>5 DEF Awaits, ApprovedIds
<1> QED
  BY <1>1, ConsentIsInvariant, BookIsInvariant, PTL

(* If the counter can hold what it counts, has_work() sees every prompt,   *)
(* session, command, action and staged file of a living worker.            *)
THEOREM WorkIsVisibleCorrect ==
    ASSUME Capacity + 2 < CounterSize
    PROVE  Spec => []WorkIsVisible
<1>1. CountInv /\ BookInv => WorkIsVisible
  <2> SUFFICES ASSUME CountInv, BookInv, Alive, ~active, queued = 0
               PROVE  /\ registry = {} /\ LiveSessions = {} /\ actions = <<>>
                      /\ \A i \in DOMAIN chan : chan[i].kind # "Protocol"
                      /\ \A id \in TransferIds : fs[id].owner = 0
    BY DEF WorkIsVisible, Busy
  <2>1. /\ Cardinality(QueuedCommands) \in Nat
        /\ Cardinality(QueuedCommands) = 0 <=> QueuedCommands = {}
        /\ queued = Cardinality(QueuedCommands) + InFlight
    BY CountFacts
  <2>2. Cardinality(QueuedCommands) = 0 /\ job.kind # "Protocol"
    BY <2>1 DEF InFlight
  <2> QED
    BY <2>1, <2>2 DEF QueuedCommands, BookInv, InactiveIsIdle
<1> QED
  BY <1>1, CountIsInvariant, BookIsInvariant, PTL

------------------------------------------------------------------------------
(* The actor implements TransferConsent.  What is open to the promise is   *)
(* what is pending to the worker.                                          *)

ImplInv == ConsentInv /\ StagingInv /\ BookInv

(* Pending prompts have been shown and are undecided.                      *)
LEMMA OpenIsPending ==
    ASSUME ImplInv
    PROVE  /\ PendingRequests \subseteq Asked /\ PendingRequests \cap Granted = {}
           /\ Consent!Open = PendingRequests /\ late \subseteq PendingRequests
<1>1. PendingRequests \subseteq Asked /\ late \subseteq PendingRequests
  BY DEF ImplInv, BookInv, RequestsFresh, DeadlinesAgree
<1>2. \A r \in PendingRequests : r \notin Granted
  BY DEF ImplInv, ConsentInv, PromptsSound, Answerable, Decided, PendingRequests
<1> QED
  BY <1>1, <1>2 DEF Consent!Open

(* Steps that tell the user nothing.                                       *)
LEMMA ConsentStutters ==
    ASSUME UNCHANGED <<pending, late, shown, decided, executed>>
    PROVE  UNCHANGED Consent!vars
BY DEF Consent!vars, Asked, Granted, PendingRequests

(* A prompt that goes without a grant is withdrawn.                        *)
LEMMA ConsentWithdraws ==
    ASSUME ImplInv, NEW r \in PendingRequests, pending' = PendingWithout({r}),
           late' = late \ {r}, UNCHANGED <<shown, executed>>, Granted' = Granted
    PROVE  Consent!Next
<1>1. PendingRequests' = PendingRequests \ {r}
  BY PendingShrinks
<1>2. Asked' = Asked
  BY DEF Asked
<1>3. r \in Asked /\ r \notin Granted /\ r \in Consent!Open
  BY OpenIsPending
<1>4. Asked' \ (Granted' \cup PendingRequests') = (Asked \ (Granted \cup PendingRequests)) \cup {r}
  BY <1>1, <1>2, <1>3
<1>5. Consent!Withdraw(r)
  BY <1>2, <1>3, <1>4 DEF Consent!Withdraw
<1> QED
  BY <1>3, <1>5 DEF Consent!Next

(* A worker that gives up withdraws all that is open.                      *)
LEMMA ConsentStops ==
    ASSUME ImplInv, pending' = {}, late' = {}, UNCHANGED <<shown, decided>>,
           NEW begun \in SUBSET Granted, executed' = executed \cup begun
    PROVE  Consent!Next
<1>1. PendingRequests' = {} /\ Asked' = Asked /\ Granted' = Granted
  BY DEF PendingRequests, Asked, Granted
<1>2. PendingRequests \subseteq Asked /\ PendingRequests \cap Granted = {}
      /\ Consent!Open = PendingRequests
  BY OpenIsPending
<1>3. Asked' \ (Granted' \cup PendingRequests')
      = (Asked \ (Granted \cup PendingRequests)) \cup Consent!Open
  BY <1>1, <1>2
<1>4. Consent!Stop
  BY <1>1, <1>3 DEF Consent!Stop
<1> QED
  BY <1>4 DEF Consent!Next

(* The worker's message steps.                                             *)
LEMMA ConsentReceives ==
    ASSUME ImplInv, RecvNext
    PROVE  [Consent!Next]_(Consent!vars)
<1>1. CASE RecvProtocol \/ RecvStaleApproval
  BY <1>1, ConsentStutters DEF RecvProtocol, RecvStaleApproval, workerVars, historyVars
<1>2. CASE RecvShutdown
  <2>1. executed' = executed \cup {} /\ {} \in SUBSET Granted
    BY <1>2 DEF RecvShutdown, historyVars
  <2> QED
    BY <1>2, <2>1, ConsentStops DEF RecvShutdown, historyVars
<1>3. CASE RecvLateApproval
  <2>1. PICK p \in pending : pending' = PendingWithout({p.req}) /\ late' = late \ {p.req}
    BY <1>3 DEF RecvLateApproval
  <2>2. p.req \in PendingRequests /\ UNCHANGED <<shown, executed>> /\ Granted' = Granted
    BY <1>3 DEF RecvLateApproval, PendingRequests, historyVars, Granted
  <2> QED
    BY <2>1, <2>2, ConsentWithdraws
<1>4. CASE RecvApproval
  <2> PICK approve : approve = Head(chan).approve
    OBVIOUS
  <2>1. PICK p \in pending :
          /\ InTime(p.req) /\ pending' = PendingWithout({p.req})
          /\ decided' = decided \cup {[req |-> p.req, approve |-> approve]}
    BY <1>4 DEF RecvApproval
  <2>2. UNCHANGED <<late, shown, consented, executed>>
    BY <1>4 DEF RecvApproval
  <2>3. approve \in BOOLEAN
    BY <1>4, HeadMessageTyped DEF RecvApproval, ImplInv, ConsentInv, TypeOK
  <2>4. p.req \in PendingRequests /\ p.req \notin late
    BY <2>1 DEF PendingRequests, InTime
  <2>5. CASE approve
    <3>1. Granted' = Granted \cup {p.req}
      BY <2>1, <2>2, <2>3, <2>5, HistoryGrows
    <3>2. PendingRequests' = PendingRequests \ {p.req} /\ Asked' = Asked
      BY <2>1, <2>2, PendingShrinks DEF Asked
    <3>3. p.req \in Consent!Open \ late
      BY <2>4, OpenIsPending
    <3>4. Asked' \ (Granted' \cup PendingRequests') = Asked \ (Granted \cup PendingRequests)
      BY <2>4, <3>1, <3>2
    <3>5. Consent!Grant(p.req)
      BY <2>2, <3>1, <3>2, <3>3, <3>4 DEF Consent!Grant
    <3> QED
      BY <3>3, <3>5 DEF Consent!Next
  <2>6. CASE ~approve
    <3>1. Granted' = Granted
      BY <2>1, <2>2, <2>3, <2>6, HistoryGrows
    <3>2. late' = late \ {p.req}
      BY <2>2, <2>4
    <3> QED
      BY <2>1, <2>2, <2>4, <3>1, <3>2, ConsentWithdraws
  <2> QED
    BY <2>5, <2>6
<1> QED
  BY <1>1, <1>2, <1>3, <1>4 DEF RecvNext

(* Putting the question, and using the grant.                              *)
LEMMA ConsentDispatches ==
    ASSUME ImplInv, DispatchRequest \/ DispatchExecute \/ DispatchFails \/ FinishShutdown
    PROVE  [Consent!Next]_(Consent!vars)
<1> PICK a : a = Head(actions)
  OBVIOUS
<1>1. CASE DispatchRequest
  <2> DEFINE s == [req |-> a.req, paths |-> a.paths]
             p == [req |-> a.req, id |-> a.id]
  <2>1. /\ shown' = shown \cup {s} /\ s.req = a.req
        /\ pending' = pending \cup {p} /\ p.req = a.req
        /\ a.type = "RequestApproval" /\ actions # <<>>
        /\ UNCHANGED <<late, decided, executed>>
    BY <1>1 DEF DispatchRequest, Dispatching
  <2> HIDE DEF s, p
  <2>2. Asked' = Asked \cup {a.req} /\ PendingRequests' = PendingRequests \cup {a.req}
        /\ Granted' = Granted
    BY <2>1 DEF Asked, PendingRequests, Granted
  <2>3. a.req \notin Asked
    <3>1. 1 \in DOMAIN actions /\ actions[1] = a
      BY <2>1, LenProperties, EmptySeq DEF ImplInv, ConsentInv, TypeOK, ManagerTypeOK
    <3> QED
      BY <2>1, <3>1 DEF ImplInv, BookInv, RequestsFresh
  <2>4. Asked' \ (Granted' \cup PendingRequests') = Asked \ (Granted \cup PendingRequests)
    BY <2>2, <2>3
  <2>5. Consent!Ask(a.req) /\ a.req \in Asked' \ Asked
    BY <2>1, <2>2, <2>3, <2>4 DEF Consent!Ask
  <2> QED
    BY <2>5 DEF Consent!Next
<1>2. CASE DispatchExecute
  <2>1. /\ executed' = executed \cup {a.req} /\ UNCHANGED <<pending, late, shown, decided>>
        /\ actions # <<>> /\ a.type \in {"Execute", "Complete"}
    BY <1>2 DEF DispatchExecute, Dispatching
  <2>2. a.req \in Granted
    BY <2>1, HeadActionSound DEF ImplInv, ConsentInv, Consented, SoundAction
  <2>3. Asked' = Asked /\ Granted' = Granted /\ PendingRequests' = PendingRequests
    BY <2>1 DEF Asked, Granted, PendingRequests
  <2>4. Consent!Use(a.req)
    BY <2>1, <2>2, <2>3 DEF Consent!Use
  <2> QED
    BY <2>2, <2>4 DEF Consent!Next
<1>3. CASE DispatchFails
  <2>1. /\ pending' = {} /\ late' = {} /\ UNCHANGED <<shown, decided>>
        /\ actions # <<>> /\ a.type \in {"Execute", "Complete", "Abort"}
        /\ executed' = IF a.type = "Abort" THEN executed ELSE executed \cup {a.req}
    BY <1>3 DEF DispatchFails, DropWorkerState
  <2>2. a.type # "Abort" => a.req \in Granted
    BY <2>1, HeadActionSound DEF ImplInv, ConsentInv, Consented, SoundAction
  <2>3. \E begun \in SUBSET Granted : executed' = executed \cup begun
    <3>1. CASE a.type = "Abort"
      <4>1. executed' = executed \cup {} /\ {} \in SUBSET Granted
        BY <2>1, <3>1
      <4> QED
        BY <4>1
    <3>2. CASE a.type # "Abort"
      <4>1. executed' = executed \cup {a.req} /\ {a.req} \in SUBSET Granted
        BY <2>1, <2>2, <3>2
      <4> QED
        BY <4>1
    <3> QED
      BY <3>1, <3>2
  <2> QED
    BY <2>1, <2>3, ConsentStops
<1>4. CASE FinishShutdown
  <2>1. executed' = executed \cup {} /\ {} \in SUBSET Granted
    BY <1>4 DEF FinishShutdown, historyVars
  <2> QED
    BY <1>4, <2>1, ConsentStops DEF FinishShutdown, DropWorkerState, historyVars
<1> QED
  BY <1>1, <1>2, <1>3, <1>4

(* Whatever the worker does next.                                          *)
LEMMA ConsentWorks ==
    ASSUME ImplInv, WorkNext
    PROVE  [Consent!Next]_(Consent!vars)
<1>1. CASE DispatchRequest \/ DispatchExecute \/ DispatchFails \/ FinishShutdown
  BY <1>1, ConsentDispatches
<1>2. CASE \/ DispatchWrite \/ DispatchAbort \/ FinishProtocol \/ FinishApproval
           \/ RejectNext \/ (\E id \in TransferIds : ExpireTransfer(id)) \/ FinishTick
           \/ ResetActive \/ ResetQueued \/ CloseReceiver
  BY <1>2, ConsentStutters DEF DispatchWrite, DispatchAbort, FinishProtocol, FinishApproval,
     RejectNext, ExpireTransfer, FinishTick, ResetActive, ResetQueued, CloseReceiver,
     workerVars, historyVars
<1>3. ASSUME NEW req \in PendingRequests, ExpirePrompt(req)
      PROVE  Consent!Next
  BY <1>3, ConsentWithdraws DEF ExpirePrompt, historyVars, Granted
<1>4. CASE ClearDismissed
  <2> PICK reqs : /\ reqs = {r \in PendingRequests :
                               ~IsApprovalPending(r) /\ [req |-> r, id |-> job.id] \in pending}
                  /\ pending' = PendingWithout(reqs) /\ late' = late \ reqs
    BY <1>4 DEF ClearDismissed
  <2>1. UNCHANGED <<shown, decided, executed>> /\ Granted' = Granted
    BY <1>4 DEF ClearDismissed, historyVars, Granted
  <2>2. CASE reqs = {}
    <3>1. pending' = pending /\ late' = late
      BY <2>2 DEF PendingWithout
    <3> QED
      BY <2>1, <3>1, ConsentStutters
  <2>3. CASE reqs # {}
    <3>1. PICK r : r \in reqs
      BY <2>3
    <3>2. ASSUME NEW q \in reqs PROVE q = r
      <4>1. [req |-> r, id |-> job.id] = [req |-> q, id |-> job.id]
        BY <3>1, <3>2 DEF ImplInv, BookInv, PromptsMatched
      <4> QED
        BY <4>1
    <3>3. reqs = {r} /\ r \in PendingRequests
      BY <3>1, <3>2
    <3> QED
      BY <2>1, <3>3, ConsentWithdraws
  <2> QED
    BY <2>2, <2>3
<1> QED
  BY <1>1, <1>2, <1>3, <1>4 DEF WorkNext

(* Every step of the actor is a step of the promise, or none.              *)
LEMMA ConsentSimulated == ImplInv /\ [Next]_vars => [Consent!Next]_(Consent!vars)
<1> SUFFICES ASSUME ImplInv, [Next]_vars PROVE [Consent!Next]_(Consent!vars)
  OBVIOUS
<1>1. CASE UNCHANGED vars
  BY <1>1, ConsentStutters DEF vars, workerVars, historyVars
<1>2. CASE \/ ReaderNext \/ (\E c \in Clients : ClientNext(c)) \/ Destroy
           \/ (\E k \in Closers : CloserNext(k)) \/ GateNext \/ Tick
           \/ (\E id \in TransferIds : TransferAges(id))
  <2>1. UNCHANGED <<pending, late, shown, decided, executed>>
    BY <1>2 DEF ReaderNext, ReadCommand, CountQueued, RecheckAccepting, UncountQueued,
       SendCommand, SendCommandFails, ReaderEof, ClientNext, Respond, SendApproval,
       SendApprovalFails, Destroy, CloserNext, SendShutdown, SendShutdownFails,
       ClearRegistry, GateNext, Quiesce, LoadActive, LoadQueued, Resume, Tick,
       TransferAges, workerVars, historyVars
  <2> QED
    BY <2>1, ConsentStutters
<1>3. CASE RecvNext
  BY <1>3, ConsentReceives
<1>4. CASE WorkNext
  BY <1>4, ConsentWorks
<1>5. ASSUME NEW req \in PendingRequests, PromptAges(req)
      PROVE  Consent!Next
  <2>1. req \in Consent!Open
    BY OpenIsPending
  <2>2. late' = late \cup {req} /\ UNCHANGED <<pending, shown, decided, executed>>
    BY <1>5 DEF PromptAges, historyVars
  <2>3. Asked' = Asked /\ Granted' = Granted /\ PendingRequests' = PendingRequests
    BY <2>2 DEF Asked, Granted, PendingRequests
  <2>4. Consent!Lapse(req)
    BY <2>1, <2>2, <2>3 DEF Consent!Lapse
  <2> QED
    BY <2>1, <2>4 DEF Consent!Next
<1> QED
  BY <1>1, <1>2, <1>3, <1>4, <1>5 DEF Next, Terminated, TimePasses

(* The actor keeps the promise made to the user, for every number of       *)
(* transfers, clients and messages.                                        *)
THEOREM ConsentImplemented == Spec => KeepsConsent
<1>1. Init => Consent!Init
  <2> SUFFICES ASSUME Init PROVE Consent!Init
    OBVIOUS
  <2>1. Asked = {} /\ Granted = {} /\ late = {} /\ executed = {}
    BY DEF Init, Asked, Granted
  <2> QED
    BY <2>1 DEF Consent!Init
<1>2. ImplInv /\ [Next]_vars => [Consent!Next]_(Consent!vars)
  BY ConsentSimulated
<1>3. ConsentInv /\ StagingInv /\ BookInv => ImplInv
  BY DEF ImplInv
<1> QED
  BY <1>1, <1>2, <1>3, ConsentIsInvariant, StagingIsInvariant, BookIsInvariant, PTL
     DEF Spec, KeepsConsent, Consent!Spec

------------------------------------------------------------------------------
(* The actor implements TransferOutline: work begins in submit() only.     *)

(* The commands that are queued, before and after a message comes or goes. *)
LEMMA QueuedAfter ==
    ASSUME TypeOK
    PROVE  /\ \A m \in Message : chan' = Append(chan, m) =>
                (QueuedCommands' # {} <=> QueuedCommands # {} \/ m.kind = "Protocol")
           /\ chan' = Tail(chan) /\ chan # <<>> /\ QueuedCommands' # {} => QueuedCommands # {}
<1>1. chan \in Seq(Message)
  BY DEF TypeOK, ControlTypeOK
<1>2. ASSUME NEW m \in Message, chan' = Append(chan, m)
      PROVE  QueuedCommands' # {} <=> QueuedCommands # {} \/ m.kind = "Protocol"
  <2>1. /\ DOMAIN chan = 1..Len(chan) /\ Len(chan) \in Nat
        /\ DOMAIN chan' = 1..(Len(chan) + 1)
        /\ \A i \in 1..Len(chan) : chan'[i] = chan[i]
        /\ chan'[Len(chan) + 1] = m
    BY <1>1, <1>2
  <2>2. \A i \in 1..(Len(chan) + 1) : i \in 1..Len(chan) \/ i = Len(chan) + 1
    BY <2>1
  <2>3. Len(chan) + 1 \in 1..(Len(chan) + 1) /\ 1..Len(chan) \subseteq 1..(Len(chan) + 1)
    BY <2>1
  <2> QED
    BY <2>1, <2>2, <2>3 DEF QueuedCommands
<1>3. ASSUME chan' = Tail(chan), chan # <<>>, QueuedCommands' # {}
      PROVE  QueuedCommands # {}
  <2>1. PICK i \in DOMAIN chan' : chan'[i].kind = "Protocol"
    BY <1>3 DEF QueuedCommands
  <2>2. i + 1 \in DOMAIN chan /\ chan[i + 1] = chan'[i]
    BY <1>1, <1>3, <2>1
  <2> QED
    BY <2>1, <2>2 DEF QueuedCommands
<1> QED
  BY <1>2, <1>3

(* A step that brings no work in.                                          *)
LEMMA OutlineEnds ==
    ASSUME Alive' => Alive, Alive' /\ Committed' => Committed, accepting' = accepting
    PROVE  [Outline!Next]_(Outline!vars)
<1>5. {Committed, Committed', ~Alive, ~Alive'} \subseteq BOOLEAN
  BY DEF Committed
<1>1. CASE Alive' /\ (Committed' <=> Committed)
  BY <1>1, <1>5 DEF Outline!vars
<1>2. CASE Alive' /\ ~Committed'
  BY <1>2 DEF Outline!Next, Outline!End
<1>3. CASE ~Alive' /\ ~Alive
  BY <1>3 DEF Outline!vars, Committed
<1>4. CASE ~Alive' /\ Alive
  BY <1>4 DEF Outline!Next, Outline!Return, Committed
<1> QED
  BY <1>1, <1>2, <1>3, <1>4

(* A step that does not touch what the worker holds.                       *)
LEMMA CommittedFrame ==
    ASSUME UNCHANGED <<worker, job, sessions, actions, fs, registry, chan, reader>>
    PROVE  Alive' = Alive /\ Committed' = Committed
BY DEF Alive, Committed, QueuedCommands, LiveSessions, Live

(* The reader: only the second test of submit() lets a command through.    *)
LEMMA OutlineReader ==
    ASSUME TypeOK, ReaderNext
    PROVE  [Outline!Next]_(Outline!vars)
<1>1. CASE RecheckAccepting
  <2>1. /\ reader = "recheck" /\ reader' = AfterRecheck
        /\ UNCHANGED <<worker, job, sessions, actions, fs, registry, chan, accepting>>
    BY <1>1 DEF RecheckAccepting, managerVars, workerVars, controlVars
  <2>2. /\ Alive' = Alive /\ accepting' = accepting
        /\ Committed => Committed'
        /\ Committed' => Committed \/ (Alive /\ accepting)
        /\ Committed' => Alive'
    BY <2>1 DEF Alive, Committed, QueuedCommands, LiveSessions, Live, AfterRecheck
  <2>3. CASE Committed' /\ ~Committed
    <3>1. {Committed, Committed', ~Alive, ~Alive', accepting} \subseteq BOOLEAN
      BY DEF Committed, TypeOK, ControlTypeOK
    <3> QED
      BY <2>2, <2>3, <3>1 DEF Outline!Next, Outline!Admit
  <2>4. CASE Committed' => Committed
    BY <2>2, <2>4, OutlineEnds
  <2> QED
    BY <2>3, <2>4
<1>2. CASE SendCommand
  <2>1. /\ reader = "send"
        /\ UNCHANGED <<worker, accepting>>
    BY <1>2 DEF SendCommand, workerVars
  <2>2. Alive' = Alive /\ (Alive => Committed)
    BY <2>1 DEF Alive, Committed
  <2> QED
    BY <2>1, <2>2, OutlineEnds
<1>3. CASE ReaderEof
  <2>1. /\ accepting' = FALSE
        /\ reader = "run" /\ reader' = "closed"
        /\ UNCHANGED <<worker, job, sessions, actions, fs, registry, chan>>
    BY <1>3 DEF ReaderEof, managerVars, workerVars
  <2>2. Alive' = Alive /\ Committed' = Committed
    BY <2>1 DEF Alive, Committed, QueuedCommands, LiveSessions, Live
  <2>3. accepting \in BOOLEAN
    BY DEF TypeOK, ControlTypeOK
  <2> QED
    BY <2>1, <2>2, <2>3 DEF Outline!Next, Outline!Switch, Outline!vars
<1>4. CASE \/ \E cmd \in Commands : ReadCommand(cmd)
           \/ CountQueued \/ UncountQueued \/ SendCommandFails
  <2>1. /\ reader' # "send" /\ accepting' = accepting
        /\ UNCHANGED <<worker, job, sessions, actions, fs, registry, chan>>
    BY <1>4 DEF ReadCommand, CountQueued, UncountQueued, SendCommandFails,
        managerVars, workerVars, controlVars
  <2>2. Alive' = Alive /\ (Committed' => Committed)
    BY <2>1 DEF Alive, Committed, QueuedCommands, LiveSessions, Live
  <2> QED
    BY <2>1, <2>2, OutlineEnds
<1> QED
  BY <1>1, <1>2, <1>3, <1>4 DEF ReaderNext

(* Clients, shutdown callers and the relaunch gate bring nothing in.       *)
LEMMA OutlineCallers ==
    ASSUME TypeOK,
           \/ \E c \in Clients : ClientNext(c)
           \/ Destroy \/ GateNext \/ \E k \in Closers : CloserNext(k)
    PROVE  [Outline!Next]_(Outline!vars)
<1>1. CASE \/ \E c \in Clients : SendApproval(c)
           \/ \E k \in Closers : SendShutdown(k)
  <2>1. /\ accepting' = accepting
        /\ UNCHANGED <<worker, job, sessions, actions, fs, registry, reader>>
    BY <1>1 DEF SendApproval, SendShutdown, managerVars, workerVars
  <2>2. \E m \in Message : m.kind # "Protocol" /\ chan' = Append(chan, m)
    <3>1. ASSUME NEW c \in Clients, SendApproval(c)
          PROVE  \E m \in Message : m.kind # "Protocol" /\ chan' = Append(chan, m)
      <4> DEFINE m == [kind |-> "Approval", by |-> c, req |-> client[c].req,
                       approve |-> client[c].approve]
      <4>1. client[c].req \in Nat /\ client[c].approve \in BOOLEAN
        BY DEF TypeOK, CallerTypeOK, Caller
      <4>2. m \in Message /\ m.kind # "Protocol"
        BY <4>1 DEF Message
      <4> QED
        BY <3>1, <4>2 DEF SendApproval
    <3>2. ASSUME NEW k \in Closers, SendShutdown(k)
          PROVE  \E m \in Message : m.kind # "Protocol" /\ chan' = Append(chan, m)
      <4> DEFINE m == [kind |-> "Shutdown", by |-> k]
      <4>1. m \in Message /\ m.kind # "Protocol"
        BY DEF Message
      <4> QED
        BY <3>2, <4>1 DEF SendShutdown
    <3> QED
      BY <1>1, <3>1, <3>2
  <2>3. QueuedCommands' # {} <=> QueuedCommands # {}
    BY <2>2, QueuedAfter
  <2>4. Alive' = Alive /\ (Committed' => Committed)
    BY <2>1, <2>3 DEF Alive, Committed, LiveSessions, Live
  <2> QED
    BY <2>1, <2>4, OutlineEnds
<1>2. CASE \E k \in Closers : ClearRegistry(k)
  <2>1. /\ accepting' = accepting /\ registry' = {}
        /\ UNCHANGED <<worker, job, sessions, actions, fs, reader, chan>>
    BY <1>2 DEF ClearRegistry, managerVars, workerVars, controlVars
  <2>2. Alive' = Alive /\ (Committed' => Committed)
    BY <2>1 DEF Alive, Committed, QueuedCommands, LiveSessions, Live
  <2> QED
    BY <2>1, <2>2, OutlineEnds
<1>3. CASE \/ \E c \in Clients : SendApprovalFails(c)
           \/ \E c \in Clients, req \in registry, approve \in BOOLEAN : Respond(c, req, approve)
           \/ \E k \in Closers : SendShutdownFails(k)
           \/ Destroy \/ GateNext
  <2>1. /\ accepting' \in BOOLEAN
        /\ UNCHANGED <<worker, job, sessions, actions, fs, registry, chan, reader>>
    BY <1>3 DEF SendApprovalFails, Respond, SendShutdownFails, Destroy, GateNext, Quiesce,
        LoadActive, LoadQueued, Resume, managerVars, workerVars, controlVars, TypeOK,
        ControlTypeOK
  <2>2. Alive' = Alive /\ Committed' = Committed
    BY <2>1, CommittedFrame
  <2>3. accepting \in BOOLEAN
    BY DEF TypeOK, ControlTypeOK
  <2> QED
    BY <2>1, <2>2, <2>3 DEF Outline!Next, Outline!Switch, Outline!vars
<1> QED
  BY <1>1, <1>2, <1>3 DEF ClientNext, CloserNext

(* A rejected session was there, and a live one at that.                   *)
LEMMA RejectedWasLive ==
    LiveSessions' # {} \/ actions' # <<>> =>
      /\ \A id \in TransferIds : RejectSession(id) => LiveSessions # {}
      /\ \A req : Reject(req) \/ Approve(req) => LiveSessions # {}
<1>1. ASSUME NEW id \in TransferIds, RejectSession(id),
             LiveSessions' # {} \/ actions' # <<>>
      PROVE  LiveSessions # {}
  BY <1>1 DEF RejectSession, Answer, LiveSessions, Live
<1>2. ASSUME NEW req, Reject(req) \/ Approve(req),
             LiveSessions' # {} \/ actions' # <<>>
      PROVE  LiveSessions # {}
  <2>1. CASE SessionForRequest(req) # {}
    BY <2>1 DEF SessionForRequest, LiveSessions, Live
  <2>2. CASE SessionForRequest(req) = {}
    BY <1>2, <2>2 DEF Reject, Approve, IsApprovalPending, Answer, LiveSessions, Live
  <2> QED
    BY <2>1, <2>2
<1> QED
  BY <1>1, <1>2

(* A message is received: what the worker makes of it was there before.    *)
LEMMA OutlineReceives ==
    ASSUME TypeOK, RecvNext
    PROVE  [Outline!Next]_(Outline!vars)
<1>1. /\ chan # <<>> /\ chan' = Tail(chan) /\ accepting' = accepting
      /\ UNCHANGED <<fs, reader>> /\ Alive /\ Alive'
  BY DEF RecvNext, RecvProtocol, RecvStaleApproval, RecvLateApproval, RecvApproval,
      RecvShutdown, callerVars, workerVars, Alive
<1>2. QueuedCommands' # {} => QueuedCommands # {}
  BY <1>1, QueuedAfter
<1>3. CASE RecvProtocol
  <2>1. QueuedCommands # {}
    <3>1. Head(chan).kind = "Protocol" /\ chan \in Seq(Message)
      BY <1>3 DEF RecvProtocol, TypeOK, ControlTypeOK
    <3>2. 1 \in DOMAIN chan /\ Head(chan) = chan[1]
      BY <1>1, <3>1
    <3> QED
      BY <3>1, <3>2 DEF QueuedCommands
  <2>2. Committed
    BY <1>1, <2>1 DEF Committed
  <2> QED
    BY <1>1, <2>2, OutlineEnds
<1>4. CASE RecvStaleApproval
  <2>1. UNCHANGED <<worker, job, sessions, actions, registry>>
    BY <1>4 DEF RecvStaleApproval, managerVars, workerVars
  <2>2. Committed' => Committed
    BY <1>1, <1>2, <2>1 DEF Committed, LiveSessions, Live
  <2> QED
    BY <1>1, <2>2, OutlineEnds
<1>5. CASE RecvLateApproval \/ RecvApproval
  <2>1. /\ job'.kind # "Protocol" /\ registry' \subseteq registry
        /\ LiveSessions' # {} \/ actions' # <<>> => LiveSessions # {}
    <3>1. /\ job'.kind = "Approval" /\ registry' \subseteq registry
          /\ \E req : Reject(req) \/ Approve(req)
      <4>1. CASE RecvLateApproval
        BY <4>1 DEF RecvLateApproval
      <4>2. CASE RecvApproval
        BY <4>2 DEF RecvApproval
      <4> QED
        BY <1>5, <4>1, <4>2
    <3> QED
      BY <3>1, RejectedWasLive
  <2>2. Committed' => Committed
    BY <1>1, <1>2, <2>1 DEF Committed
  <2> QED
    BY <1>1, <2>2, OutlineEnds
<1>6. CASE RecvShutdown
  <2>1. /\ job'.kind # "Protocol" /\ registry' \subseteq registry
        /\ UNCHANGED <<sessions, actions>>
    BY <1>6 DEF RecvShutdown, managerVars
  <2>2. Committed' => Committed
    BY <1>1, <1>2, <2>1 DEF Committed, LiveSessions, Live
  <2> QED
    BY <1>1, <2>2, OutlineEnds
<1> QED
  BY <1>3, <1>4, <1>5, <1>6 DEF RecvNext

(* The worker on its own: it has work in hand, or makes less of it.        *)
LEMMA OutlineWorks ==
    ASSUME TypeOK, WorkNext
    PROVE  [Outline!Next]_(Outline!vars)
<1>1. accepting' = accepting /\ reader' = reader /\ (Alive' => Alive)
  BY DEF WorkNext, ClearDismissed, DispatchWrite, DispatchRequest, DispatchExecute,
      DispatchAbort, DispatchFails, FinishProtocol, FinishApproval, RejectNext,
      FinishShutdown, ExpirePrompt, ExpireTransfer, FinishTick, ResetActive, ResetQueued,
      CloseReceiver, DropWorkerState, Dispatching, Drained, callerVars, controlVars,
      workerVars, Alive
<1>2. CASE \/ DispatchWrite \/ DispatchRequest \/ DispatchExecute \/ DispatchAbort
  <2>1. Alive /\ actions # <<>>
    BY <1>2 DEF DispatchWrite, DispatchRequest, DispatchExecute, DispatchAbort,
        Dispatching, Alive
  <2>2. Committed
    BY <2>1 DEF Committed
  <2> QED
    BY <1>1, <2>2, OutlineEnds
<1>3. CASE ~Alive'
  BY <1>1, <1>3, OutlineEnds
<1>4. CASE Alive' /\ (ClearDismissed \/ FinishProtocol \/ FinishApproval \/ FinishTick)
  <2>1. /\ job'.kind = "Protocol" => job.kind = "Protocol"
        /\ registry' \subseteq registry
        /\ UNCHANGED <<sessions, actions, fs, chan>>
    <3>1. CASE ClearDismissed
      BY <3>1 DEF ClearDismissed, managerVars, controlVars
    <3>2. CASE FinishProtocol \/ FinishApproval \/ FinishTick
      <4>1. job' = NoJob /\ UNCHANGED <<registry, managerVars, fs, chan>>
        BY <3>2 DEF FinishProtocol, FinishApproval, FinishTick
      <4> QED
        BY <4>1 DEF NoJob, managerVars
    <3> QED
      BY <1>4, <3>1, <3>2
  <2>2. Committed' => Committed
    BY <1>1, <1>4, <2>1 DEF Committed, QueuedCommands, LiveSessions, Live
  <2> QED
    BY <1>1, <2>2, OutlineEnds
<1>5. CASE \/ RejectNext
           \/ \E req \in PendingRequests : ExpirePrompt(req)
           \/ \E id \in TransferIds : ExpireTransfer(id)
  <2>1. job.kind \in {"Shutdown", "Tick"} /\ job'.kind = job.kind
    <3>1. job \in Job
      BY DEF TypeOK, WorkerTypeOK
    <3> QED
      BY <1>5, <3>1 DEF RejectNext, ExpirePrompt, ExpireTransfer, Drained, Job, workerVars
  <2>2. LiveSessions' # {} \/ actions' # <<>> => LiveSessions # {}
    BY <1>5, RejectedWasLive DEF RejectNext, ExpirePrompt, ExpireTransfer, LiveSessions
  <2>3. /\ registry' \subseteq registry
        /\ UNCHANGED <<fs, chan>>
    BY <1>5 DEF RejectNext, ExpirePrompt, ExpireTransfer, workerVars, controlVars
  <2>4. Committed' => Committed
    BY <1>1, <2>1, <2>2, <2>3 DEF Committed, QueuedCommands
  <2> QED
    BY <1>1, <2>4, OutlineEnds
<1>6. DispatchFails \/ FinishShutdown \/ ResetActive \/ ResetQueued \/ CloseReceiver => ~Alive'
  BY DEF DispatchFails, FinishShutdown, ResetActive, ResetQueued, CloseReceiver,
      DropWorkerState, Alive
<1> QED
  BY <1>2, <1>3, <1>4, <1>5, <1>6 DEF WorkNext

(* Every step of the actor is one of its outline, or none at all.          *)
LEMMA OutlineSimulated == TypeOK /\ [Next]_vars => [Outline!Next]_(Outline!vars)
<1> SUFFICES ASSUME TypeOK, [Next]_vars PROVE [Outline!Next]_(Outline!vars)
  OBVIOUS
<1>1. CASE UNCHANGED vars \/ TimePasses \/ Tick \/ Terminated
  <2>1. /\ UNCHANGED <<sessions, actions, fs, registry, chan, reader, accepting>>
        /\ job' = job \/ job'.kind = "Tick"
        /\ Alive' = Alive
    BY <1>1 DEF vars, TimePasses, PromptAges, TransferAges, Tick, TickJob, Terminated,
        managerVars, workerVars, controlVars, callerVars, Alive
  <2>2. Committed' => Committed
    BY <2>1 DEF Committed, QueuedCommands, LiveSessions, Live
  <2> QED
    BY <2>1, <2>2, OutlineEnds
<1> QED
  BY <1>1, OutlineReader, OutlineCallers, OutlineReceives, OutlineWorks DEF Next

(* The actor is what the session map takes it to be (submit, quiesce).     *)
THEOREM OutlineImplemented == Spec => KeepsOutline
<1>1. Init => Outline!Init
  BY DEF Init, ManagerInit, Outline!Init, Committed, QueuedCommands, LiveSessions, Live,
      Absent, Closed, NoJob, Alive
<1> QED
  BY <1>1, OutlineSimulated, TypeCorrect, PTL DEF Spec, KeepsOutline, Outline!Spec

(* One look at both of its parts tells has_work() of everything that is    *)
(* committed; what it can miss it misses between two looks (has_work).     *)
THEOREM CommittedIsBusy ==
    ASSUME Capacity + 2 < CounterSize
    PROVE  Spec => [](Committed => Busy)
<1>1. CountInv /\ WorkIsVisible => (Committed => Busy)
  <2> SUFFICES ASSUME CountInv, WorkIsVisible, Committed, ~Busy PROVE FALSE
    OBVIOUS
  <2>1. Alive /\ queued = 0 /\ (reader = "send" \/ job.kind = "Protocol")
    BY DEF WorkIsVisible, Busy, Committed, QueuedCommands
  <2>2. /\ Cardinality(QueuedCommands) \in Nat
        /\ queued = Cardinality(QueuedCommands) + InFlight
    BY <2>1, CountFacts
  <2> QED
    BY <2>1, <2>2 DEF InFlight
<1> QED
  BY <1>1, CountIsInvariant, WorkIsVisibleCorrect, PTL

(* While the switch is off, whatever has no work gets none: no session, no *)
(* prompt, no command and no staged file (quiesce, submit).                *)
THEOREM QuiesceHolds ==
    Spec => [][~accepting /\ ~Committed => ~Committed']_vars
<1>1. [Outline!Next]_(Outline!vars) => (~accepting /\ ~Committed => ~Committed')
  BY DEF Outline!Next, Outline!Switch, Outline!Admit, Outline!End, Outline!Return,
      Outline!vars
<1>2. TypeOK /\ [Next]_vars => [~accepting /\ ~Committed => ~Committed']_vars
  BY <1>1, OutlineSimulated
<1> QED
  BY <1>2, TypeCorrect, PTL DEF Spec

(* A token that was withdrawn stays withdrawn, however long its answers    *)
(* are on their way: every step of the promise keeps it so (respond).      *)
THEOREM WithdrawnStays == Spec => WithdrawnForGood
<1>1. [Consent!Next]_(Consent!vars)
      => Asked \ (Granted \cup PendingRequests)
           \subseteq (Asked \ (Granted \cup PendingRequests))'
  BY DEF Consent!Next, Consent!Ask, Consent!Lapse, Consent!Grant, Consent!Withdraw,
      Consent!Use, Consent!Stop, Consent!Open, Consent!vars
<1>2. ImplInv /\ [Next]_vars
      => [Asked \ (Granted \cup PendingRequests)
            \subseteq (Asked \ (Granted \cup PendingRequests))']_vars
  BY <1>1, ConsentSimulated
<1>3. ConsentInv /\ StagingInv /\ BookInv => ImplInv
  BY DEF ImplInv
<1> QED
  BY <1>2, <1>3, ConsentIsInvariant, StagingIsInvariant, BookIsInvariant, PTL
     DEF Spec, WithdrawnForGood
=============================================================================
