------------------------------- MODULE PtyBridge -------------------------------
(***************************************************************************)
(* The threads between a session and the pseudo-terminal of its child: the *)
(* reader task, which also submits file-transfer commands to their actor,  *)
(* the writer thread behind its bounded queue, and the actor's worker that *)
(* streams a file to the child.  They wait for each other in a circle that *)
(* the child closes: it may stop reading for as long as it likes, and it   *)
(* stops when nobody reads what it writes.                                 *)
(*                                                                         *)
(* Abstracted: what the chunks say, except that one asks a question or     *)
(* carries a command; the buffer of the kernel on the child's input.       *)
(***************************************************************************)
EXTENDS Naturals, Sequences

CONSTANTS
    OutCap,       \* chunks of output the pseudo-terminal holds
    QueueCap,     \* WRITE_QUEUE_CAP
    CommandCap,   \* COMMAND_QUEUE_CAPACITY
    Packets       \* packets of the file that is streamed

ASSUME BridgeAssumption ==
    /\ OutCap \in Nat \ {0} /\ QueueCap \in Nat \ {0} /\ CommandCap \in Nat \ {0}
    /\ Packets \in Nat \ {0}

VARIABLES
    child,        \* the child runs
    output,       \* what it has written and nobody has read
    reader,       \* reader task: "read", "submit", "close" or "done"
    commands,     \* number of commands in the actor's channel
    actor,        \* the actor: "idle", "streams" or "gone"
    late,         \* the deadline of what the actor streams has passed
    sent,         \* packets the worker has handed over
    writes,       \* the queue of the writer thread
    writer,       \* the writer thread: it waits, or has a message, or is gone
    seen          \* packets the child has read

bridgeVars ==
    <<child, output, reader, commands, actor, late, sent, writes, writer, seen>>

Idle == <<"idle">>
Gone == <<"gone">>
Other == <<"other", 0>>
Packet(n) == <<"packet", n>>

BridgeInit ==
    /\ child = TRUE /\ output = <<>>
    /\ reader = "read" /\ commands = 0
    /\ actor = "idle" /\ late = FALSE /\ sent = 0
    /\ writes = <<>> /\ writer = Idle /\ seen = 0

------------------------------------------------------------------------------
Full == Len(writes) >= QueueCap

(* send(): never waits, what does not fit is lost.                         *)
Send(message) ==
    writes' = IF writer = Gone \/ Full THEN writes ELSE Append(writes, message)

(* Keyboard input of some client (write_input).                            *)
Input ==
    /\ Send(Other)
    /\ UNCHANGED <<child, output, reader, commands, actor, late, sent, writer, seen>>

------------------------------------------------------------------------------
(* The child, which owes nothing to anybody.                               *)
ChildWrites(kind) ==
    /\ child /\ Len(output) < OutCap
    /\ output' = Append(output, kind)
    /\ UNCHANGED <<child, reader, commands, actor, late, sent, writes, writer, seen>>

ChildReads ==
    /\ child /\ writer \notin {Idle, Gone}
    /\ seen' = IF writer[1] = "packet" THEN writer[2] ELSE seen
    /\ writer' = Idle
    /\ UNCHANGED <<child, output, reader, commands, actor, late, sent, writes>>

ChildExits ==
    /\ child
    /\ child' = FALSE
    /\ UNCHANGED <<output, reader, commands, actor, late, sent, writes, writer, seen>>

------------------------------------------------------------------------------
(* The writer thread: the write ends when the child has read it, or with   *)
(* an error when there is no child any more.                               *)
WriterTakes ==
    /\ writer = Idle /\ writes # <<>>
    /\ writer' = Head(writes) /\ writes' = Tail(writes)
    /\ UNCHANGED <<child, output, reader, commands, actor, late, sent, seen>>

WriterFails ==
    /\ ~child /\ writer \notin {Idle, Gone}
    /\ writer' = Gone /\ writes' = <<>>
    /\ UNCHANGED <<child, output, reader, commands, actor, late, sent, seen>>

------------------------------------------------------------------------------
(* The reader task.  The answer to a question goes to the queue at once;   *)
(* a command waits for room in the actor's channel, and if the actor is    *)
(* gone an error goes to the queue.                                        *)
Read ==
    /\ reader = "read" /\ output # <<>>
    /\ output' = Tail(output)
    /\ CASE Head(output) = "query" -> Send(Other) /\ UNCHANGED reader
         [] Head(output) = "command" -> reader' = "submit" /\ UNCHANGED writes
    /\ UNCHANGED <<child, commands, actor, late, sent, writer, seen>>

Submit ==
    /\ reader = "submit"
    /\ \/ /\ actor # "gone" /\ commands < CommandCap
          /\ commands' = commands + 1
          /\ UNCHANGED writes
       \/ actor = "gone" /\ Send(Other) /\ UNCHANGED commands
    /\ reader' = "read"
    /\ UNCHANGED <<child, output, actor, late, sent, writer, seen>>

(* The end of the output: the actor is told to stop, which it learns after *)
(* the commands that wait already, and waited for.                         *)
EndOfOutput ==
    /\ reader = "read" /\ output = <<>> /\ ~child
    /\ reader' = "close"
    /\ UNCHANGED <<child, output, commands, actor, late, sent, writes, writer, seen>>

Close ==
    /\ reader = "close" /\ actor # "streams" /\ commands = 0
    /\ reader' = "done" /\ actor' = "gone"
    /\ UNCHANGED <<child, output, commands, late, sent, writes, writer, seen>>

------------------------------------------------------------------------------
(* The actor answers a command, which may get lost as any answer, or sets  *)
(* its worker to stream the file; it takes nothing from its channel before *)
(* the worker is back.                                                     *)
TakeCommand ==
    /\ actor = "idle" /\ commands > 0
    /\ commands' = commands - 1

Answer ==
    /\ TakeCommand
    /\ Send(Other)
    /\ UNCHANGED <<child, output, reader, actor, late, sent, writer, seen>>

BeginStream ==
    /\ TakeCommand
    /\ sent = 0
    /\ actor' = "streams"
    /\ late' = FALSE
    /\ UNCHANGED <<child, output, reader, sent, writes, writer, seen>>

(* send_with_backpressure(): tries again until there is room, the writer   *)
(* is gone or the deadline has passed; without success the actor ends.     *)
(* Fault: packets are sent as everything else is.                          *)
HandOverAnyway ==
    /\ actor = "streams" /\ sent < Packets
    /\ Send(Packet(sent + 1))
    /\ sent' = sent + 1
    /\ UNCHANGED <<child, output, reader, commands, actor, late, writer, seen>>

HandOver ==
    /\ actor = "streams" /\ sent < Packets
    /\ writer # Gone /\ ~Full
    /\ writes' = Append(writes, Packet(sent + 1))
    /\ sent' = sent + 1
    /\ UNCHANGED <<child, output, reader, commands, actor, late, writer, seen>>

(* Fault: the deadline is not looked at.                                   *)
HopelessWithout == writer = Gone

Hopeless == writer = Gone \/ (Full /\ late)

GiveUp ==
    /\ actor = "streams" /\ sent < Packets /\ Hopeless
    /\ actor' = "gone" /\ commands' = 0
    /\ UNCHANGED <<child, output, reader, late, sent, writes, writer, seen>>

EndStream ==
    /\ actor = "streams" /\ sent = Packets
    /\ actor' = "idle"
    /\ UNCHANGED <<child, output, reader, commands, late, sent, writes, writer, seen>>

Deadline ==
    /\ actor = "streams" /\ ~late
    /\ late' = TRUE
    /\ UNCHANGED <<child, output, reader, commands, actor, sent, writes, writer, seen>>

------------------------------------------------------------------------------
ReaderStep == Read \/ Submit \/ EndOfOutput \/ Close

ActorStep == Answer \/ BeginStream \/ HandOver \/ GiveUp \/ EndStream

WriterStep == WriterTakes \/ WriterFails

BridgeNext ==
    \/ \E kind \in {"query", "command"} : ChildWrites(kind)
    \/ Input \/ ChildReads \/ ChildExits
    \/ ReaderStep \/ ActorStep \/ WriterStep \/ Deadline

(* Tasks and threads that can go on do so, and time passes; the child is   *)
(* free.                                                                   *)
BridgeFairness ==
    /\ WF_bridgeVars(ReaderStep) /\ WF_bridgeVars(ActorStep)
    /\ WF_bridgeVars(WriterStep) /\ WF_bridgeVars(Deadline)

BridgeSpec == BridgeInit /\ [][BridgeNext]_bridgeVars

------------------------------------------------------------------------------
(* Every variable of the bridge has its type; channel and queue stay       *)
(* within their capacities, also when the actor or the writer is gone.     *)
BridgeTypeOK ==
    LET messages == {Other} \cup {Packet(n) : n \in 1..Packets} IN
    /\ child \in BOOLEAN /\ late \in BOOLEAN
    /\ output \in Seq({"query", "command"}) /\ Len(output) <= OutCap
    /\ reader \in {"read", "submit", "close", "done"}
    /\ commands \in 0..CommandCap
    /\ actor \in {"idle", "streams", "gone"}
    /\ sent \in 0..Packets /\ seen \in 0..sent
    /\ writes \in Seq(messages) /\ Len(writes) <= QueueCap
    /\ writer \in messages \cup {Idle, Gone}

(* What is on its way from the session to the child.                       *)
OnItsWay == IF writer \in {Idle, Gone} THEN writes ELSE <<writer>> \o writes

(* As long as the writer works, the packets on their way to the child are  *)
(* the next ones it has not read, each once and in order, up to the last   *)
(* one the worker believes it has sent; whatever else overflows the queue, *)
(* a streamed file has no holes (send_with_backpressure).                  *)
StreamHasNoGap ==
    writer # Gone =>
      /\ \A i \in DOMAIN OnItsWay :
           OnItsWay[i][1] = "packet" => OnItsWay[i][2] \in (seen + 1)..sent
      /\ \A i, j \in DOMAIN OnItsWay :
           i < j /\ OnItsWay[i][1] = "packet" /\ OnItsWay[j][1] = "packet"
             => OnItsWay[i][2] < OnItsWay[j][2]
      /\ \A n \in (seen + 1)..sent : \E i \in DOMAIN OnItsWay : OnItsWay[i] = Packet(n)

(* The child reads the file as it was sent: a packet that reaches it is    *)
(* the one after the last that did, whatever it reads in between.          *)
ReadsInOrder == [][seen' \in {seen, seen + 1}]_bridgeVars

(* A child that stops reading, or dies, holds neither the worker that      *)
(* streams to it nor the reader task for ever, although they wait for each *)
(* other (the deadline of send_with_backpressure).                         *)
StreamedResponseReturns ==
    /\ actor = "streams" ~> actor # "streams"
    /\ reader \in {"submit", "close"} ~> reader \in {"read", "done"}
=============================================================================
