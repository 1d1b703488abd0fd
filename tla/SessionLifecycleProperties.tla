---------------------- MODULE SessionLifecycleProperties ----------------------
(***************************************************************************)
(* What the session map, its clean-up and the relaunch gate guarantee.     *)
(***************************************************************************)
EXTENDS SessionLifecycle

GateType ==
    [pc    : {"free", "cleanup", "quiesce", "check", "held", "resume"},
     todo  : SUBSET Sessions,
     quiet : SUBSET Sessions,
     seen  : SUBSET Sessions,
     dead  : SUBSET Sessions,
     busy  : BOOLEAN]

ActorTypeOK ==
    /\ ssh \in [Sessions -> {"connecting", "linked", "attached", "over"}]
    /\ pty \in [Sessions -> {"none", "up", "exited"}]
    /\ reader \in [Sessions -> {"none", "startOpen", "startClosed", "idle", "count",
                                "recheck", "uncount", "send", "eof"}]
    /\ flag \in [Sessions -> BOOLEAN]
    /\ ctl \in [Sessions -> {"none", "open", "closed"}]
    /\ worker \in [Sessions -> {"none", "recv", "work", "exitActive", "exitQueued",
                                "exitRx", "gone"}]
    /\ chan \in [Sessions -> Seq({"command"} \cup Closers)]
    /\ \A s \in Sessions : Len(chan[s]) <= Capacity
    /\ active \in [Sessions -> BOOLEAN]
    /\ queued \in [Sessions -> 0..(CounterSize - 1)]
    /\ closer \in [Sessions -> [Closers -> {"no", "called", "sending", "waiting", "done"}]]

MapTypeOK ==
    /\ place \in [Sessions -> {"new", "mapped", "removed"}]
    /\ draining \in SUBSET Sessions
    /\ gate \in GateType
    /\ gate.todo \cup gate.quiet \cup gate.seen \cup gate.dead \subseteq Mapped

(* Every variable has its type.  The sessions a clean-up or a relaunch has *)
(* yet to visit are still in the map when it comes to them: nobody creates *)
(* or destroys sessions beside the holder of the gate.                     *)
LifecycleTypeOK == ActorTypeOK /\ MapTypeOK

------------------------------------------------------------------------------
(* What an actor has in hand.                                              *)

CommandsOf(c) == {i \in DOMAIN c : c[i] = "command"}

MessagesOf(c) == {c[i] : i \in DOMAIN c}

Midway(s) == reader[s] \in {"recheck", "uncount", "send"}

(* Transfer work of a session, from the moment submit() lets a command     *)
(* pass: on its way to the queue, in it, in the worker's hands, or a       *)
(* transfer that waits for consent or data.                                *)
Working(s) ==
    /\ Alive(s)
    /\ \/ reader[s] = "send"
       \/ CommandsOf(chan[s]) # {}
       \/ worker[s] = "work"
       \/ active[s]

(* No command is on its way: whatever work there is, `active' shows.       *)
Settled(s) ==
    Alive(s) => /\ reader[s] # "send"
                /\ CommandsOf(chan[s]) = {}
                /\ worker[s] = "recv"

(* No command of session s can become work any more: its reader has not    *)
(* passed a test of the switch, and will not, or the second one fails.     *)
Sealed(s) ==
    /\ flag[s] => reader[s] = "eof"
    /\ reader[s] \in {"count", "recheck"} => ctl[s] # "open"

------------------------------------------------------------------------------
(* Safety.                                                                 *)

(* A session that is neither in the map nor marked as draining has no      *)
(* command on its way, however its destruction, its clean-up, its EOF and  *)
(* its SSH connection interleave with submit() and the worker; and one     *)
(* whose destruction is over has no work at all (destroy_session,          *)
(* cleanup_dead_sessions).                                                 *)
NoCommandLeftBehind ==
    \A s \in Sessions \ (Mapped \cup draining) :
        /\ Settled(s)
        /\ closer[s]["destroy"] = "done" => ~Working(s)

(* While the guard is held nothing drains and no command is on its way     *)
(* anywhere, and no reader that had passed its test and no SSH session     *)
(* that gets its controller only now brings any.  Work that is there all   *)
(* the same is in `active' (RelaunchTransferGuard, start_reader).          *)
HeldMeansSettled ==
    At("held") => draining = {} /\ \A s \in Sessions : Settled(s)

(* A session that has left the map never gets new work, although its       *)
(* reader, its connection task and relaunches that fail go on              *)
(* (destroy_session, cleanup_dead_sessions, resume_tty_transfers).         *)
RemovedStaysShut ==
    [][\A s \in Sessions : place[s] = "removed" /\ ~Working(s) => ~Working(s)']_vars

ActorSound(s) ==
    /\ place[s] = "new" => reader[s] = "none" /\ ssh[s] = "over"
    /\ ssh[s] # "over" => reader[s] = "none"
    /\ reader[s] \in {"none", "startOpen", "startClosed"} => ctl[s] = "none"
    /\ reader[s] \in {"count", "recheck", "uncount", "send"} => ctl[s] # "none"
    /\ ctl[s] = "none" => /\ worker[s] = "none"
                          /\ chan[s] = <<>>
                          /\ ~active[s] /\ queued[s] = 0
    /\ worker[s] = "none" => ctl[s] = "none"
    /\ ctl[s] = "none" => \A k \in Closers : closer[s][k] \notin {"sending", "waiting"}
    /\ closer[s]["eof"] # "no" => reader[s] = "eof"
    /\ Alive(s) => \A k \in MessagesOf(chan[s]) \cap Closers : closer[s][k] = "waiting"

(* For as long as the worker lives `queued' is what it should be.          *)
CountExact(s) ==
    Alive(s) => queued[s] = Cardinality(CommandsOf(chan[s]))
                            + (IF worker[s] = "work" THEN 1 ELSE 0)
                            + (IF Midway(s) THEN 1 ELSE 0)

RemovedSound(s) ==
    /\ s \in draining \/ closer[s]["destroy"] # "no" => place[s] = "removed"
    /\ place[s] = "removed" => Sealed(s)
    /\ place[s] = "removed" /\ s \notin draining => Settled(s)
    /\ closer[s]["destroy"] = "done" => ~Working(s)

CleanupSound ==
    /\ At("cleanup") \/ gate.quiet \cup gate.dead = {}
    /\ At("cleanup") \/ At("check") \/ gate.seen = {}
    /\ \A s \in gate.quiet \cup gate.seen \cup gate.dead : Sealed(s)
    /\ \A s \in gate.dead : Settled(s)

RelaunchSound ==
    /\ At("free") => gate.todo = {}
    /\ At("quiesce") => \A s \in Mapped \ gate.todo : Sealed(s)
    /\ At("check") \/ At("held") => \A s \in Mapped : Sealed(s)
    /\ At("check") /\ ~gate.busy =>
          draining = {} /\ \A s \in Mapped \ gate.todo : Settled(s)
    /\ At("held") => draining = {} /\ \A s \in Mapped : Settled(s)

(* Why the three promises above are kept by every step: a session that is  *)
(* removed, about to be reaped or checked by a relaunch has been sealed    *)
(* first, and no step but a resume of the gate's holder unseals one; what  *)
(* an exact count of zero then says stays true.                            *)
LifecycleInv ==
    /\ LifecycleTypeOK
    /\ \A s \in Sessions : ActorSound(s)
    /\ \A s \in Sessions : CountExact(s)
    /\ \A s \in Sessions : RemovedSound(s)
    /\ CleanupSound
    /\ RelaunchSound

------------------------------------------------------------------------------
(* What the code says and does not keep.                                   *)

(* `connecting' "keeps the session from being reaped as dead during        *)
(* connect": a clean-up takes no session whose connection task has         *)
(* connected and is about to attach the PTY (spawn_ssh_connect).           *)
ConnectingNotReaped ==
    [][Reap => \A s \in gate.dead : ssh[s] # "linked"]_vars

(* The guard "keeps new OSC 5113 work quiesced until relaunch either execs *)
(* successfully or returns an error": afterwards every running session of  *)
(* the map takes commands again (resume_tty_transfers, start_reader).      *)
ErrorResumesAll ==
    At("free") => \A s \in Mapped :
        IsRunning(s) /\ reader[s] \notin {"none", "startOpen", "startClosed", "eof"}
        => flag[s] /\ ctl[s] # "closed"

------------------------------------------------------------------------------
(* What does hold next to each of these.                                   *)

(* A session is safe from the clean-up for as long as it really connects:  *)
(* what a pass takes is past the flag (spawn_ssh_connect).                 *)
ConnectingSpared ==
    [][Reap => \A s \in gate.dead : ~Connecting(s)]_vars

(* A session that takes no command, be it dead, destroyed or quiesced,     *)
(* takes none again but by a resume that finds it in the map, or by a      *)
(* restore after exec; its own reader and its connection task, which have  *)
(* the session's old switch in hand, bring nothing back                    *)
(* (resume_tty_transfers, start_reader).                                   *)
OnlyResumeUnseals ==
    [][\A s \in Sessions :
         place[s] # "new" /\ Sealed(s) /\ ~Sealed(s)' => ResumeOne(s) \/ Exec]_vars

(* Every running local session of the map takes commands whenever the gate *)
(* is free, however many relaunches have failed or clean-ups have passed:  *)
(* only an SSH session may be forgotten (resume_tty_transfers).            *)
LocalsResume ==
    At("free") => \A s \in Mapped \cap LocalSessions :
        IsRunning(s) /\ reader[s] # "eof" => flag[s] /\ ctl[s] # "closed"

(* What the actor of session s shows the session map.                      *)
ActorOutline(s) == INSTANCE TransferOutline WITH
    open <- ctl[s] = "open",
    work <- Working(s),
    gone <- ~Alive(s)

(* The actors of this module are the outline that module TtyTransferActor  *)
(* keeps: until exec replaces it, an actor gets work by a submit that      *)
(* finds its switch on and in no other way, and what destruction, EOF,     *)
(* clean-up and relaunch do to it an actor can bear (submit, shutdown).    *)
ActorsKeepOutline ==
    [][\A s \in Sessions : ctl[s] # "none" =>
         Exec \/ ActorOutline(s)!Next \/ UNCHANGED <<ctl[s], Working(s), Alive(s)>>]_vars

------------------------------------------------------------------------------
(* Liveness.  A command that was let through is queued or refused, and the *)
(* worker gets on with its queue; transfers end, because prompts and idle  *)
(* transfers expire; spawned tasks go on; who holds the gate gets on with  *)
(* it; a lock that is free again and again is obtained in the end, and     *)
(* clean-up comes round every minute.  Nothing is assumed of children,     *)
(* readers, SSH connections or clients.                                    *)

Fairness ==
    /\ \A s \in Sessions :
         /\ WF_vars(Submitting(s))
         /\ WF_vars(WorkerTask(s))
         /\ WF_vars(EndTransfers(s))
         /\ WF_vars(DrainActor(s) \/ Undrain(s))
         /\ \A k \in Closers : WF_vars(SendShutdown(s, k) \/ SendShutdownFails(s, k))
    /\ SF_vars(BeginCleanup)
    /\ WF_vars(Cleanup)
    /\ WF_vars(Relaunch)

(* Relaunches are asked for now and then, not for ever.                    *)
RelaunchesEnd == <>[][~BeginRelaunch]_vars

FairSpec == Spec /\ Fairness /\ RelaunchesEnd

(* A destroyed session does not block relaunches for ever.                 *)
DrainingEnds == \A s \in Sessions : s \in draining ~> s \notin draining

Dead(s) == s \in Mapped /\ ~IsRunning(s)

(* A worker that has returned and a count that was left behind.            *)
Haunted(s) ==
    worker[s] = "gone" /\ queued[s] # 0 /\ reader[s] \in {"idle", "eof"}

(* A session that is dead is removed by a clean-up pass in the end, also   *)
(* when transfers, a dying worker, EOF or relaunches get in between,       *)
(* unless a count is left behind that nobody takes back                    *)
(* (cleanup_dead_sessions, run_worker).                                    *)
DeadReaped ==
    \A s \in Sessions : Dead(s) ~> ~Dead(s) \/ Haunted(s)

=============================================================================
