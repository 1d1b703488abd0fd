------------------------------ MODULE DaemonServer ------------------------------
(***************************************************************************)
(* Daemon processes that come and go around one socket path, and the       *)
(* clients that find, start, use and stop them.  Starting, stopping and    *)
(* relaunching are sequences of system calls on two files, the socket and  *)
(* the PID file, which no lock protects.  A daemon has one identity for    *)
(* its life, also across a relaunch (exec keeps the process).              *)
(*                                                                         *)
(* Abstracted: the sessions are members of a set (module SessionLifecycle  *)
(* takes their map apart), versions and authentication, TCP and Windows.   *)
(***************************************************************************)
EXTENDS Naturals, FiniteSets

CONSTANTS
    Daemons,      \* processes, each started once
    Clients,      \* frontends, each connects once
    Sessions,     \* session ids; one no daemon knows stands for a new one
    SshSessions,  \* those without a file descriptor that survives exec
    NoDaemon,     \* nobody; no file
    Stale,        \* the listener of a daemon that is long dead
    Retries       \* attempts after an auto-start (20)

ASSUME DaemonAssumption ==
    /\ NoDaemon \notin Daemons /\ Stale \notin Daemons /\ NoDaemon # Stale
    /\ Retries \in Nat \ {0}

VARIABLES
    socket,       \* whose listener the socket path names
    pc,           \* how far each daemon is
    sessions,     \* the sessions of each daemon
    exited,       \* the sessions whose processes have ended by themselves
    checks,       \* count readings still to come, by daemon and reader
    deciding,     \* daemons where a reader found no session and has not said so
    notified,     \* daemons that have been told to stop and still serve
    conn,         \* how far a client is, to which daemon, its attempts left
    streaming,    \* clients that stream the output of a session
    ahead,        \* history: starters past their test when a daemon began to listen
    rivalled,     \* history: daemons another one got in the way of since exec
    overrun,      \* history: a path was taken from a daemon that runs
    forced,       \* history: daemons that were shut down with force
    reaped        \* history: daemons whose last session the clean-up removed

sessionVars == <<sessions, exited>>
stopVars    == <<checks, deciding, notified, forced>>
clientVars  == <<conn, streaming>>
vars == <<socket, pc, sessions, exited, checks, deciding, notified, conn, streaming,
          ahead, rivalled, overrun, forced, reaped>>

(* A graceful shutdown accepts nothing more but keeps the listener open    *)
(* until the connections have ended.                                       *)
Listening(d) == d \in Daemons /\ pc[d] \in {"serving", "wedged", "draining"}

Starting == {"probe", "unlink", "bind", "listen"}

Off == [at |-> "off", to |-> NoDaemon, left |-> 1]

Init ==
    /\ socket \in {NoDaemon, Stale}
    /\ pc = [d \in Daemons |-> "unborn"]
    /\ sessions = [d \in Daemons |-> {}]
    /\ exited = {}
    /\ checks = {} /\ deciding = {} /\ notified = {}
    /\ conn = [c \in Clients |-> [Off EXCEPT !.at = "dial", !.left = Retries + 1]]
    /\ streaming = {}
    /\ ahead = [d \in Daemons |-> {}]
    /\ rivalled = {}
    /\ overrun = FALSE
    /\ forced = {}
    /\ reaped = {}

------------------------------------------------------------------------------
(* History: d touches the files while these, with the sessions of their    *)
(* last image, are away from the path.                                     *)
Meanwhile(d) ==
    {x \in Daemons \ {d} : pc[x] \in Starting \cup {"exec"} /\ sessions[x] # {}}

Disturbs(d) ==
    rivalled' = {x \in rivalled \cup Meanwhile(d) : x # d \/ pc'[d] \in Starting}

Goto(d, p) == pc' = [pc EXCEPT ![d] = p]

SetSessions(d, S) ==
    /\ sessions' = [sessions EXCEPT ![d] = S]
    /\ exited' = exited \ (sessions[d] \ S)

(* The end of a process is the end of its sessions.                        *)
Dies(d) == Goto(d, "dead") /\ SetSessions(d, {})

(* What is counted, cleaned up or decided no longer matters.               *)
Forget(d) ==
    /\ checks' = {k \in checks : k[1] # d}
    /\ deciding' = deciding \ {d}
    /\ notified' = notified \ {d}
    /\ forced' = forced \ {d}
    /\ reaped' = reaped \ {d}

(* With the process image go its connections and what it had decided.      *)
Cut(d) ==
    LET cut == {c \in Clients : conn[c].at = "on" /\ conn[c].to = d} IN
    /\ conn' = [c \in Clients |-> IF c \in cut THEN Off ELSE conn[c]]
    /\ streaming' = streaming \ cut
    /\ Forget(d)
    /\ ahead' = [ahead EXCEPT ![d] = {}]

StartStep(d, from) ==
    /\ pc[d] = from
    /\ UNCHANGED <<stopVars, clientVars, reaped>>

(* is_socket_stale(): only a refused connection counts; a daemon that      *)
(* accepts but never answers is alive.                                     *)
(* Fault: a daemon that does not answer is taken for dead.                 *)
AnswersHandshake(d) == d \in Daemons /\ pc[d] = "serving"

Answers(d) == Listening(d)

(* Fault: a path that does not exist is removed all the same.              *)
AfterProbeUnchecked == "unlink"

AfterProbe == IF socket = NoDaemon THEN "bind" ELSE "unlink"

(* The sessions of a relaunch have been restored before the path is looked *)
(* at, and are lost if somebody else answers there.                        *)
Probe(d) ==
    /\ StartStep(d, "probe")
    /\ IF Answers(socket) THEN Dies(d)
       ELSE Goto(d, AfterProbe) /\ UNCHANGED sessionVars
    /\ Disturbs(d)
    /\ UNCHANGED <<socket, ahead, overrun>>

(* The path may name another socket by now, or nothing, which is an error. *)
Unlink(d) ==
    /\ StartStep(d, "unlink")
    /\ socket' = NoDaemon
    /\ IF socket = NoDaemon THEN Dies(d) ELSE Goto(d, "bind") /\ UNCHANGED sessionVars
    /\ Disturbs(d)
    /\ ahead' = [x \in Daemons |-> ahead[x] \ {d}]
    /\ overrun' = (overrun \/ \E x \in Daemons :
                      socket = x /\ (pc[x] = "listen" \/ d \in ahead[x]))

(* Fault: whatever is at the path is replaced.                             *)
BindableAlways == TRUE

Bindable == socket = NoDaemon

Bind(d) ==
    /\ StartStep(d, "bind")
    /\ IF Bindable
       THEN socket' = d /\ Goto(d, "listen") /\ UNCHANGED sessionVars
       ELSE Dies(d) /\ UNCHANGED socket
    /\ Disturbs(d)
    /\ UNCHANGED <<ahead, overrun>>

(* Until here a connection to the bound socket is refused.                 *)
Listen(d) ==
    /\ StartStep(d, "listen")
    /\ Goto(d, "serving")
    /\ Disturbs(d)
    /\ ahead' = [ahead EXCEPT ![d] = {x \in Daemons : pc[x] = "unlink"}]
    /\ UNCHANGED <<socket, sessionVars, overrun>>

------------------------------------------------------------------------------
(* The graceful shutdown waits for the streams and closes the listener;    *)
(* then the path is removed, whoever's socket it names.                    *)
Drain(d) ==
    /\ pc[d] = "serving"
    /\ Goto(d, "draining")
    /\ Forget(d)
    /\ UNCHANGED <<socket, sessionVars, clientVars, ahead, rivalled, overrun>>

StopServing(d) == d \in notified /\ Drain(d)

(* SIGTERM or SIGINT: the same, whatever sessions there are.               *)
Signal(d) == d \notin notified /\ Drain(d)

Streams(d) == {c \in streaming : conn[c].to = d}

CloseListener(d) ==
    /\ pc[d] = "draining" /\ Streams(d) = {}
    /\ Goto(d, "leaving")
    /\ UNCHANGED <<socket, sessionVars, stopVars, clientVars, ahead, rivalled, overrun, reaped>>

RemoveSocket(d) ==
    /\ pc[d] = "leaving"
    /\ socket' = NoDaemon
    /\ Dies(d) /\ Cut(d)
    /\ Disturbs(d)
    /\ overrun' = (overrun \/ socket \in Daemons \ {d})

(* A daemon hangs, or is killed and leaves its files behind.               *)
Hang(d) ==
    /\ pc[d] = "serving"
    /\ Goto(d, "wedged")
    /\ Forget(d)
    /\ UNCHANGED <<socket, sessionVars, clientVars, ahead, rivalled, overrun>>

Crash(d) ==
    /\ Listening(d)
    /\ Dies(d) /\ Cut(d)
    /\ socket' = IF socket = d THEN Stale ELSE socket
    /\ UNCHANGED <<rivalled, overrun>>

------------------------------------------------------------------------------
(* A client with an open connection to a daemon that runs.                 *)
On(c, d) == conn[c].at = "on" /\ conn[c].to = d /\ pc[d] = "serving"

(* perform_relaunch(): with the session map frozen, both files go and the  *)
(* process image is replaced, if there is a session that can be kept.  If  *)
(* the exec fails the daemon goes on without a path to its socket.         *)
Relaunch(c, d) ==
    /\ On(c, d) /\ sessions[d] \ SshSessions # {}
    /\ socket' = NoDaemon
    /\ Goto(d, "exec")
    /\ Disturbs(d)
    /\ UNCHANGED <<sessionVars, stopVars, clientVars, ahead, overrun, reaped>>

ExecFails(d) ==
    /\ pc[d] = "exec"
    /\ Goto(d, "serving")
    /\ rivalled' = rivalled \ {d}
    /\ overrun' = TRUE
    /\ UNCHANGED <<socket, sessionVars, stopVars, clientVars, ahead, reaped>>

(* SSH sessions are dropped; of the others those whose restore fails, or   *)
(* all if the state cannot be read.                                        *)
Exec(d) ==
    /\ pc[d] = "exec"
    /\ Goto(d, "probe")
    /\ \E restored \in SUBSET (sessions[d] \ SshSessions) : SetSessions(d, restored)
    /\ Cut(d)
    /\ UNCHANGED <<socket, rivalled, overrun>>

------------------------------------------------------------------------------
(* The clean-up after it removed something, the end of the last stream and *)
(* the shutdown request each read the session count; who reads zero        *)
(* notifies in a later step, without another look (had_sessions is true    *)
(* wherever it is read).  Once the daemon has been notified no reading     *)
(* changes anything, so that none is kept.                                 *)
ToRead(d, reader) ==
    checks' = IF d \in notified THEN checks ELSE checks \cup {<<d, reader>>}

Decide(d) == deciding' = deciding \cup ({d} \ notified)

Judge(d) == IF sessions[d] = {} THEN Decide(d) ELSE UNCHANGED deciding

(* The clean-up task, every minute.                                        *)
(* Fault: the cleaned ones are not counted.                                *)
ReapQuietly(d) ==
    /\ pc[d] = "serving" /\ sessions[d] \cap exited # {}
    /\ SetSessions(d, sessions[d] \ exited)
    /\ reaped' = IF sessions'[d] = {} THEN reaped \cup {d} ELSE reaped
    /\ UNCHANGED <<socket, pc, stopVars, clientVars, ahead, rivalled, overrun>>

Reap(d) ==
    /\ pc[d] = "serving" /\ <<d, "cleaner">> \notin checks
    /\ sessions[d] \cap exited # {}
    /\ SetSessions(d, sessions[d] \ exited)
    /\ ToRead(d, "cleaner")
    /\ reaped' = IF sessions'[d] = {} THEN reaped \cup {d} ELSE reaped
    /\ UNCHANGED <<socket, pc, deciding, notified, forced, clientVars, ahead, rivalled,
                   overrun>>

ReadCount(d, reader) ==
    /\ <<d, reader>> \in checks /\ pc[d] = "serving"
    /\ checks' = checks \ {<<d, reader>>}
    /\ Judge(d)
    /\ UNCHANGED <<socket, pc, sessionVars, notified, forced, clientVars, ahead, rivalled,
                   overrun, reaped>>

Notify(d) ==
    /\ d \in deciding /\ pc[d] = "serving"
    /\ checks' = {k \in checks : k[1] # d}
    /\ deciding' = deciding \ {d}
    /\ notified' = notified \cup {d}
    /\ forced' = forced \ {d}
    /\ UNCHANGED <<socket, pc, sessionVars, clientVars, ahead, rivalled, overrun, reaped>>

ChildExits(d, s) ==
    /\ s \in sessions[d] \ exited
    /\ exited' = exited \cup {s}
    /\ UNCHANGED <<socket, pc, sessions, stopVars, clientVars, ahead, rivalled,
                   overrun, reaped>>

------------------------------------------------------------------------------
(* connect_path(): one attempt, an auto-start if nobody answered, and      *)
(* further attempts.                                                       *)
First(c) == conn[c].left > Retries

GoesOff(c) == conn' = [conn EXCEPT ![c] = Off]

Set(c, at, to, left) == conn' = [conn EXCEPT ![c] = [at |-> at, to |-> to, left |-> left]]

(* Fault: one attempt too many.                                            *)
MissLate(c) ==
    IF First(c) THEN Set(c, "spawn", NoDaemon, conn[c].left)
    ELSE IF conn[c].left = 0 THEN GoesOff(c)
    ELSE Set(c, "dial", NoDaemon, conn[c].left - 1)

Miss(c) ==
    IF First(c) THEN Set(c, "spawn", NoDaemon, conn[c].left)
    ELSE IF conn[c].left = 1 THEN GoesOff(c)
    ELSE Set(c, "dial", NoDaemon, conn[c].left - 1)

Dial(c) ==
    /\ conn[c].at = "dial"
    /\ IF Listening(socket) THEN Set(c, "hello", socket, conn[c].left) ELSE Miss(c)
    /\ UNCHANGED <<socket, pc, sessionVars, stopVars, streaming, ahead, rivalled,
                   overrun, reaped>>

(* The first attempt gives up at once on a daemon that accepts but does    *)
(* not answer; the further ones go on.  One that drains answers with an    *)
(* error if it had accepted before.                                        *)
Hello(c) ==
    /\ conn[c].at = "hello"
    /\ LET d == conn[c].to IN
         \/ pc[d] = "serving" /\ Set(c, "on", d, 1)
         \/ pc[d] \in {"wedged", "draining"} /\ First(c) /\ GoesOff(c)
         \/ pc[d] # "serving" /\ ~(pc[d] = "wedged" /\ First(c)) /\ Miss(c)
    /\ UNCHANGED <<socket, pc, sessionVars, stopVars, streaming, ahead, rivalled,
                   overrun, reaped>>

Spawn(c) ==
    /\ conn[c].at = "spawn"
    /\ \/ GoesOff(c) /\ UNCHANGED pc
       \/ /\ Set(c, "dial", NoDaemon, Retries)
          /\ \E d \in Daemons : pc[d] = "unborn" /\ Goto(d, "probe")
    /\ UNCHANGED <<socket, sessionVars, stopVars, streaming, ahead, rivalled,
                   overrun, reaped>>

------------------------------------------------------------------------------
(* The requests of a connected client.                                     *)
Create(c, d, s) ==
    /\ On(c, d) /\ \A x \in Daemons : s \notin sessions[x]
    /\ SetSessions(d, sessions[d] \cup {s})
    /\ reaped' = reaped \ {d}
    /\ UNCHANGED <<socket, pc, stopVars, clientVars, ahead, rivalled, overrun>>

Destroy(c, d, s) ==
    /\ On(c, d) /\ s \in sessions[d]
    /\ SetSessions(d, sessions[d] \ {s})
    /\ UNCHANGED <<socket, pc, stopVars, clientVars, ahead, rivalled, overrun, reaped>>

Attach(c, d) ==
    /\ On(c, d) /\ sessions[d] # {} /\ c \notin streaming
    /\ streaming' = streaming \cup {c}
    /\ UNCHANGED <<socket, pc, sessionVars, stopVars, conn, ahead, rivalled, overrun, reaped>>

(* The end of the last stream of a daemon makes it look at its sessions.   *)
CloseStream(c, d) ==
    /\ conn[c].at = "on" /\ conn[c].to = d
    /\ streaming' = streaming \ {c}
    /\ IF Streams(d) = {c} /\ pc[d] = "serving"
       THEN ToRead(d, "stream") ELSE UNCHANGED checks
    /\ UNCHANGED <<socket, pc, sessionVars, deciding, notified, forced, ahead, rivalled,
                   overrun, reaped>>

Detach(c, d) == c \in streaming /\ CloseStream(c, d) /\ UNCHANGED conn

Leave(c, d) == CloseStream(c, d) /\ GoesOff(c)

Shutdown(c, d) ==
    /\ On(c, d)
    /\ Judge(d)
    /\ UNCHANGED <<socket, pc, sessionVars, checks, notified, forced, clientVars, ahead,
                   rivalled, overrun, reaped>>

(* With force: the listed sessions are destroyed first.                    *)
ForcedShutdown(c, d) ==
    /\ On(c, d)
    /\ SetSessions(d, {})
    /\ Decide(d)
    /\ forced' = forced \cup ({d} \ notified)
    /\ UNCHANGED <<socket, pc, checks, notified, clientVars, ahead, rivalled, overrun, reaped>>

------------------------------------------------------------------------------
Start(d) == Probe(d) \/ Unlink(d) \/ Bind(d) \/ Listen(d)

Stop(d) ==
    \/ \E reader \in {"cleaner", "stream"} : ReadCount(d, reader)
    \/ Notify(d) \/ StopServing(d) \/ CloseListener(d) \/ RemoveSocket(d)

Connecting(c) == Dial(c) \/ Hello(c) \/ Spawn(c)

Request(c, d) ==
    \/ \E s \in Sessions : Create(c, d, s) \/ Destroy(c, d, s)
    \/ Attach(c, d) \/ Detach(c, d) \/ Leave(c, d)
    \/ Shutdown(c, d) \/ ForcedShutdown(c, d) \/ Relaunch(c, d)

Next ==
    \/ \E d \in Daemons : Start(d) \/ Stop(d) \/ Reap(d) \/ Hang(d) \/ Crash(d)
                         \/ Signal(d) \/ Exec(d) \/ ExecFails(d)
    \/ \E c \in Clients : Connecting(c) \/ \E d \in Daemons : Request(c, d)
    \/ \E d \in Daemons, s \in Sessions : ChildExits(d, s)

Spec == Init /\ [][Next]_vars

(* A process that runs reads the count after a clean-up, says what it      *)
(* found and, once notified, leaves its accept loop.                       *)
Fairness ==
    \A d \in Daemons :
      /\ WF_vars(ReadCount(d, "cleaner")) /\ WF_vars(Notify(d))
      /\ WF_vars(StopServing(d))

FairSpec == Spec /\ Fairness
=============================================================================
