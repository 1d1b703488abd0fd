------------------------- MODULE DaemonServerProperties -------------------------
(***************************************************************************)
(* What daemons guarantee to each other, to their clients and sessions.    *)
(***************************************************************************)
EXTENDS DaemonServer

Processes ==
    {"unborn", "serving", "wedged", "exec", "draining", "leaving", "dead"} \cup Starting

(* Every variable has its type; a client never has fewer than one attempt  *)
(* left, only a connected one streams, and sessions belong to one daemon   *)
(* that runs (connect_path, stream_output).                                *)
DaemonTypeOK ==
    /\ socket \in Daemons \cup {NoDaemon, Stale}
    /\ pc \in [Daemons -> Processes]
    /\ sessions \in [Daemons -> SUBSET Sessions]
    /\ exited \subseteq UNION {sessions[d] : d \in Daemons}
    /\ reaped \cup deciding \cup notified \cup forced \cup rivalled \subseteq Daemons
    /\ checks \subseteq Daemons \X {"cleaner", "stream"}
    /\ overrun \in BOOLEAN
    /\ conn \in [Clients ->
         [at : {"dial", "hello", "spawn", "on", "off"},
          to : Daemons \cup {NoDaemon}, left : 1..(Retries + 1)]]
    /\ ahead \in [Daemons -> SUBSET Daemons]
    /\ streaming \subseteq {c \in Clients : conn[c].at = "on"}
    /\ \A d \in Daemons : pc[d] \in {"unborn", "dead"} => sessions[d] = {}
    /\ \A d, x \in Daemons : d # x => sessions[d] \cap sessions[x] = {}

(* A starting daemon takes the path away from one that accepts connections *)
(* only if it had already made its test when that one began to listen: a   *)
(* daemon that runs, wedged or draining, cannot be pushed out by a later   *)
(* one (run_unix_socket_server, is_socket_stale).                          *)
LiveSocketKept ==
    [][\A d, x \in Daemons :
         socket = d /\ Listening(d) /\ socket' # d /\ pc[x] = "unlink" /\ pc'[x] # pc[x]
           => x \in ahead[d]]_vars

(* Who accepts connections can be reached, and is the only one: the path   *)
(* names it.  Three things end this, and nothing else: an exec that failed *)
(* after the path was given up, a starter that had made its test before    *)
(* another one listened, and an exit that came after a successor's start   *)
(* (perform_relaunch, run_unix_socket_server).                             *)
PathNamesTheDaemon ==
    overrun \/ \A d \in Daemons : Listening(d) => socket = d

(* A relaunch that fails keeps every session.  One that succeeds keeps     *)
(* what it could restore: the new image gives up, and takes its sessions   *)
(* with it, only if another daemon started or exited while it was away     *)
(* from the path (perform_relaunch, run_server).                           *)
RelaunchKeepsSessions ==
    [][\A d \in Daemons :
         /\ pc[d] = "exec" /\ pc'[d] # "probe" => sessions'[d] = sessions[d]
         /\ pc[d] \in Starting =>
              sessions'[d] = sessions[d] \/ (pc'[d] = "dead" /\ d \in rivalled)]_vars

(* Without force nobody tells a daemon to stop while it has a session, as  *)
(* the request says ("force shutdown even with active sessions"; shutdown, *)
(* stream_output, the clean-up task).                                      *)
StopSparesSessions ==
    [][\A d \in notified' \ (notified \cup forced) : sessions[d] = {}]_vars

(* A daemon whose last session was cleaned up after its process had exited *)
(* stops, unless it gets a new one, without any client asking for it       *)
(* (run_server's clean-up task).                                           *)
ReapedIdleStops ==
    \A d \in Daemons :
      pc[d] = "serving" /\ sessions[d] = {} /\ d \in reaped
        ~> pc[d] # "serving" \/ sessions[d] # {}

=============================================================================
