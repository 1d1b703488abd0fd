------------------------- MODULE TtyTransferManager -------------------------
(***************************************************************************)
(* The authorization state machine of cterm-app: which file-transfer       *)
(* sessions (OSC 5113) are open on one terminal, which of them the user    *)
(* has consented to, and the list of actions every call returns.           *)
(*                                                                         *)
(* Each public method is one TLA+ action.  It leaves the list it returns   *)
(* in `actions', from where the transfer actor (module TtyTransferActor)   *)
(* takes them one by one.  Payload bytes, statuses and metadata are        *)
(* abstracted away; file ids and requested paths are model values.         *)
(***************************************************************************)
EXTENDS Integers, Sequences, FiniteSets

CONSTANTS
    TransferIds,      \* session ids the peer may choose
    FileIds,          \* file ids inside a session
    Paths,            \* local paths a command may name
    NoFile,           \* command.file_id = None
    NoPath,           \* command.name = None, or not a valid protocol path
    NoSize,           \* command.size = None
    MaxActiveSessions,
    MaxReceivePaths

ASSUME BoundsAssumption ==
    /\ MaxActiveSessions \in Nat \ {0}
    /\ MaxReceivePaths \in Nat

ASSUME OptionAssumption ==
    /\ NoFile \notin FileIds
    /\ NoPath \notin Paths
    /\ NoSize \notin Nat

VARIABLES
    sessions,         \* id -> open session, or Absent
    nextRequestId,    \* next consent token
    actions           \* work returned by the last call and not yet taken up

managerVars == <<sessions, nextRequestId, actions>>

Directions == {"Send", "Receive"}

Phases == {"Absent", "CollectReceivePaths", "AwaitApproval", "Approved"}

Operations == {"Send", "Receive", "Cancel", "File", "Data", "EndData",
               "Finish", "Finished", "Status"}

(* A decoded protocol command.                                             *)
Command == [op    : Operations,
            id    : TransferIds,
            file  : FileIds \cup {NoFile},
            path  : Paths \cup {NoPath},
            size  : Nat \cup {NoSize},
            quiet : 0..2]

(* A receive request kept until the user decides: a valid File command.    *)
Wanted == [file : FileIds, path : Paths]

Session == [phase    : Phases,
            dir      : Directions,
            quiet    : 0..2,
            req      : Nat,
            expected : Nat,
            wanted   : Seq(Wanted)]

Absent == [phase |-> "Absent", dir |-> "Send", quiet |-> 0, req |-> 0,
           expected |-> 0, wanted |-> <<>>]

(* What a call can ask its caller to do.  Execute and Complete carry the   *)
(* token of the session they come from, Write whether it announces the end *)
(* of its session; the code knows both only implicitly.                    *)
Action ==
    [type : {"RequestApproval"}, id : TransferIds, req : Nat, paths : Seq(Paths)]
    \cup [type : {"Write"}, id : TransferIds, ends : BOOLEAN]
    \cup [type : {"Execute"}, id : TransferIds, req : Nat, dir : Directions,
          op : Operations, path : Paths \cup {NoPath}]
    \cup [type : {"Complete"}, id : TransferIds, req : Nat]
    \cup [type : {"Abort"}, id : TransferIds]

------------------------------------------------------------------------------

Live(id) == sessions[id].phase # "Absent"

LiveSessions == {id \in TransferIds : Live(id)}

(* At most one session answers to a token, and only while it waits.        *)
SessionForRequest(req) ==
    {id \in TransferIds : /\ sessions[id].phase = "AwaitApproval"
                          /\ sessions[id].req = req}

IsApprovalPending(req) == SessionForRequest(req) # {}

StatusResponse(id, quiet, isError, ends) ==
    IF quiet >= 2 \/ (quiet = 1 /\ ~isError)
    THEN <<>>
    ELSE <<[type |-> "Write", id |-> id, ends |-> ends]>>

ErrorResponse(cmd) == StatusResponse(cmd.id, cmd.quiet, TRUE, FALSE)

(* Fault: the prompt leaves out the last path.                             *)
RequestWithoutLastPath(id, session) ==
    [type  |-> "RequestApproval", id |-> id, req |-> session.req,
     paths |-> [i \in 1..(Len(session.wanted) - 1) |-> session.wanted[i].path]]

Request(id, session) ==
    [type  |-> "RequestApproval", id |-> id, req |-> session.req,
     paths |-> [i \in DOMAIN session.wanted |-> session.wanted[i].path]]

AuthorizedCommand(id, session, op, path) ==
    [type |-> "Execute", id |-> id, req |-> session.req, dir |-> session.dir,
     op |-> op, path |-> path]

AbortOf(id) == <<[type |-> "Abort", id |-> id]>>

(* Fault: an approved session leaves its staging behind.                   *)
FarewellWithoutAbort(id, isError) ==
    StatusResponse(id, sessions[id].quiet, isError, TRUE)

(* Fault: the peer is told before the staging is dropped.                  *)
FarewellAbortLast(id, isError) ==
    StatusResponse(id, sessions[id].quiet, isError, TRUE)
    \o IF sessions[id].phase = "Approved" THEN AbortOf(id) ELSE <<>>

(* What ends session id: an approved one is aborted before the peer knows. *)
Farewell(id, isError) ==
    (IF sessions[id].phase = "Approved" THEN AbortOf(id) ELSE <<>>)
    \o StatusResponse(id, sessions[id].quiet, isError, TRUE)

CommandShapeIsValid(cmd) ==
    \/ cmd.op = "File" /\ cmd.file # NoFile /\ cmd.path # NoPath
    \/ cmd.op \in {"Data", "EndData"} /\ cmd.file # NoFile
    \/ cmd.op \in {"Finish", "Finished"}

Closes(dir, op) ==
    \/ dir = "Send" /\ op = "Finish"
    \/ dir = "Receive" /\ op = "Finished"

Permitted(dir, cmd) ==
    /\ CommandShapeIsValid(cmd)
    /\ \/ cmd.op \in {"File", "Data", "EndData"}
       \/ Closes(dir, cmd.op)

------------------------------------------------------------------------------

ManagerInit ==
    /\ sessions = [id \in TransferIds |-> Absent]
    /\ nextRequestId = 1
    /\ actions = <<>>

(* Return `reply' and change nothing.                                      *)
Answer(reply) ==
    /\ actions' = reply
    /\ UNCHANGED <<sessions, nextRequestId>>

(* Forget session id and return `reply'.                                   *)
EndSession(id, reply) ==
    /\ sessions' = [sessions EXCEPT ![id] = Absent]
    /\ actions' = reply
    /\ UNCHANGED nextRequestId

(* EEXIST, ENOSPC, EINVAL (no path count) and E2BIG.                       *)
StartRefused(cmd, dir) ==
    \/ Live(cmd.id)
    \/ Cardinality(LiveSessions) >= MaxActiveSessions
    \/ dir = "Receive" /\ cmd.size \notin 0..MaxReceivePaths

NewSession(cmd, dir) ==
    LET expected == IF dir = "Receive" THEN cmd.size ELSE 0
    IN [phase    |-> IF expected # 0 THEN "CollectReceivePaths" ELSE "AwaitApproval",
        dir      |-> dir,
        quiet    |-> cmd.quiet,
        req      |-> nextRequestId,
        expected |-> expected,
        wanted   |-> <<>>]

Start(cmd, dir) ==
    \/ StartRefused(cmd, dir) /\ Answer(ErrorResponse(cmd))
    \/ /\ ~StartRefused(cmd, dir)
       /\ LET session == NewSession(cmd, dir)
          IN /\ sessions' = [sessions EXCEPT ![cmd.id] = session]
             /\ actions' = IF session.phase = "AwaitApproval"
                           THEN <<Request(cmd.id, session)>>
                           ELSE <<>>
       /\ nextRequestId' = nextRequestId + 1

Cancel(cmd) ==
    \/ ~Live(cmd.id) /\ Answer(ErrorResponse(cmd))
    \/ /\ Live(cmd.id)
       /\ EndSession(cmd.id, Farewell(cmd.id, FALSE))

(* A malformed or duplicate path request ends the session; the last        *)
(* expected one turns it into a consent request for exactly those paths.   *)
CollectReceivePath(cmd) ==
    LET session   == sessions[cmd.id]
        isValid   == cmd.op = "File" /\ cmd.file # NoFile /\ cmd.path # NoPath
        duplicate == \E i \in DOMAIN session.wanted : session.wanted[i].file = cmd.file
        grown     == [session EXCEPT
                        !.wanted = Append(@, [file |-> cmd.file, path |-> cmd.path])]
    IN \/ /\ ~isValid \/ duplicate
          /\ EndSession(cmd.id, Farewell(cmd.id, TRUE))
       \/ /\ isValid /\ ~duplicate
          /\ Len(grown.wanted) # session.expected
          /\ sessions' = [sessions EXCEPT ![cmd.id] = grown]
          /\ actions' = <<>>
          /\ UNCHANGED nextRequestId
       \/ /\ isValid /\ ~duplicate
          /\ Len(grown.wanted) = session.expected
          /\ sessions' = [sessions EXCEPT
                            ![cmd.id] = [grown EXCEPT !.phase = "AwaitApproval"]]
          /\ actions' = <<Request(cmd.id, grown)>>
          /\ UNCHANGED nextRequestId

CommandOfApproved(cmd) ==
    LET session == sessions[cmd.id]
        execute == <<AuthorizedCommand(cmd.id, session, cmd.op, cmd.path)>>
    IN \/ /\ ~Permitted(session.dir, cmd)
          /\ EndSession(cmd.id, Farewell(cmd.id, TRUE))
       \/ /\ Permitted(session.dir, cmd)
          /\ Closes(session.dir, cmd.op)
          /\ EndSession(cmd.id, execute)
       \/ /\ Permitted(session.dir, cmd)
          /\ ~Closes(session.dir, cmd.op)
          /\ Answer(execute)

(* Fault: a session that still waits for consent executes commands.        *)
ContinueUngated(cmd) ==
    \/ ~Live(cmd.id) /\ Answer(ErrorResponse(cmd))
    \/ sessions[cmd.id].phase = "CollectReceivePaths" /\ CollectReceivePath(cmd)
    \/ sessions[cmd.id].phase \in {"AwaitApproval", "Approved"} /\ CommandOfApproved(cmd)

ContinueSession(cmd) ==
    LET session == sessions[cmd.id]
    IN \/ ~Live(cmd.id) /\ Answer(ErrorResponse(cmd))
       \/ session.phase = "CollectReceivePaths" /\ CollectReceivePath(cmd)
       \/ /\ session.phase = "AwaitApproval"
          /\ EndSession(cmd.id, Farewell(cmd.id, TRUE))
       \/ session.phase = "Approved" /\ CommandOfApproved(cmd)

Handle(cmd) ==
    \/ cmd.op \in Directions /\ Start(cmd, cmd.op)
    \/ cmd.op = "Cancel" /\ Cancel(cmd)
    \/ cmd.op \notin Directions \cup {"Cancel"} /\ ContinueSession(cmd)

ListingOf(id, session) ==
    [i \in DOMAIN session.wanted |->
        AuthorizedCommand(id, session, "File", session.wanted[i].path)]
    \o <<[type |-> "Complete", id |-> id, req |-> session.req]>>

Approve(req) ==
    \/ ~IsApprovalPending(req) /\ Answer(<<>>)
    \/ \E id \in SessionForRequest(req) :
         LET session == sessions[id]
         IN /\ sessions' = [sessions EXCEPT ![id].phase = "Approved", ![id].wanted = <<>>]
            /\ actions' = StatusResponse(id, session.quiet, FALSE, FALSE)
                          \o IF session.dir = "Receive" THEN ListingOf(id, session) ELSE <<>>
            /\ UNCHANGED nextRequestId

(* End one session for a daemon reason; Abort comes before the error.      *)
RejectSession(id) ==
    \/ ~Live(id) /\ Answer(<<>>)
    \/ /\ Live(id)
       /\ EndSession(id, Farewell(id, TRUE))

(* deny() is reject() with another status text.                            *)
Reject(req) ==
    \/ ~IsApprovalPending(req) /\ Answer(<<>>)
    \/ \E id \in SessionForRequest(req) : RejectSession(id)

ManagerTypeOK ==
    /\ sessions \in [TransferIds -> Session]
    /\ nextRequestId \in Nat \ {0}
    /\ actions \in Seq(Action)
=============================================================================
