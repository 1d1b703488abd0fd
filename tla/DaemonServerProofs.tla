--------------------------- MODULE DaemonServerProofs ---------------------------
(***************************************************************************)
(* Who may take the path from whom, whom it names, and what becomes of     *)
(* sessions that are relaunched: for any number of daemons, clients,       *)
(* sessions and attempts.  Four facts about the path make the promises     *)
(* inductive; there is one lemma for every action.                         *)
(***************************************************************************)
EXTENDS DaemonServerProperties, TLAPS

(* A daemon that replaces its image has given its path up.                 *)
PathGivenUp == \A d \in Daemons : pc[d] = "exec" => socket # d

(* Who is about to remove the socket of a daemon that listens had made its *)
(* test before.                                                            *)
AheadSound ==
    \A d, x \in Daemons :
      socket = d /\ pc[d] \in {"serving", "wedged", "draining"} /\ pc[x] = "unlink"
        => x \in ahead[d]

(* While nobody gets in its way, a relaunching daemon finds the path free. *)
PathFree ==
    \A d \in Daemons :
      pc[d] \in Starting \cup {"exec"} /\ sessions[d] # {} /\ d \notin rivalled =>
        \/ pc[d] \in {"exec", "probe", "bind"} /\ socket = NoDaemon
        \/ pc[d] = "listen" /\ socket = d

(* Who has bound the path keeps it, unless it is taken from him.           *)
PathNamed ==
    ~overrun => \A d \in Daemons :
      pc[d] \in {"listen", "serving", "wedged", "draining"} => socket = d

DaemonInv ==
    DaemonTypeOK /\ PathNamed /\ PathGivenUp /\ AheadSound /\ PathFree

(* Before the first daemon there is at most a stale socket.                *)
LEMMA InitSound == Init => DaemonInv
<1> SUFFICES ASSUME Init  PROVE DaemonInv
  OBVIOUS
<1>1. DaemonTypeOK
  <2>1. 1..(Retries + 1) # {} /\ Retries + 1 \in 1..(Retries + 1)
    BY DaemonAssumption
  <2>2. conn \in [Clients ->
          [at : {"dial", "hello", "spawn", "on", "off"},
           to : Daemons \cup {NoDaemon}, left : 1..(Retries + 1)]]
    BY <2>1 DEF Init, Off
  <2>3. /\ exited \subseteq UNION {sessions[d] : d \in Daemons}
        /\ streaming \subseteq {c \in Clients : conn[c].at = "on"}
    BY DEF Init
  <2>4. pc \in [Daemons -> Processes] /\ socket \in Daemons \cup {NoDaemon, Stale}
    BY DEF Init, Processes
  <2>5. /\ sessions \in [Daemons -> SUBSET Sessions]
        /\ ahead \in [Daemons -> SUBSET Daemons]
    BY DEF Init
  <2> QED
    BY <2>2, <2>3, <2>4, <2>5 DEF Init, DaemonTypeOK
<1>2. PathNamed
  BY DEF Init, PathNamed
<1>3. PathGivenUp /\ AheadSound /\ PathFree
  BY DEF Init, PathGivenUp, AheadSound, PathFree, Starting
<1> QED
  BY <1>1, <1>2, <1>3 DEF DaemonInv

(* A start that finds an answer ends; one that finds none goes on.         *)
LEMMA ProbeSound ==
    ASSUME DaemonInv, NEW d \in Daemons, Probe(d)
    PROVE  DaemonInv'
<1>1. DaemonTypeOK'
  BY DaemonAssumption DEF Probe, AfterProbe, StartStep, Answers, Listening, Dies,
      Disturbs, Meanwhile, Goto, SetSessions, sessionVars, stopVars, clientVars,
      DaemonInv, DaemonTypeOK, Processes, Starting
<1>2. PathNamed'
  BY DaemonAssumption DEF Probe, AfterProbe, StartStep, Answers, Listening, Dies,
      Disturbs, Meanwhile, Goto, SetSessions, sessionVars, stopVars, clientVars,
      DaemonInv, DaemonTypeOK, PathNamed, PathGivenUp, AheadSound
<1>3. PathGivenUp'
  BY DaemonAssumption DEF Probe, AfterProbe, StartStep, Answers, Listening, Dies,
      Disturbs, Meanwhile, Goto, SetSessions, sessionVars, stopVars, clientVars,
      DaemonInv, DaemonTypeOK, PathGivenUp
<1>4. AheadSound'
  BY DaemonAssumption DEF Probe, AfterProbe, StartStep, Answers, Listening, Dies,
      Disturbs, Meanwhile, Goto, SetSessions, sessionVars, stopVars, clientVars,
      DaemonInv, DaemonTypeOK, PathGivenUp, AheadSound
<1>5. PathFree'
  BY DaemonAssumption DEF Probe, AfterProbe, StartStep, Answers, Listening, Dies,
      Disturbs, Meanwhile, Goto, SetSessions, sessionVars, stopVars, clientVars,
      DaemonInv, DaemonTypeOK, PathFree, Starting
<1> QED
  BY <1>1, <1>2, <1>3, <1>4, <1>5 DEF DaemonInv

(* Removing the path disturbs whoever relaunches.                          *)
LEMMA UnlinkSound ==
    ASSUME DaemonInv, NEW d \in Daemons, Unlink(d)
    PROVE  DaemonInv'
<1>1. DaemonTypeOK'
  BY DaemonAssumption DEF Unlink, StartStep, Dies, Disturbs, Meanwhile, Goto, SetSessions,
      sessionVars, stopVars, clientVars, DaemonInv, DaemonTypeOK, Processes, Starting
<1>2. PathNamed'
  <2>1. SUFFICES ASSUME ~overrun', NEW x \in Daemons,
                        pc'[x] \in {"listen", "serving", "wedged", "draining"}
                 PROVE  FALSE
    BY DEF PathNamed
  <2>2. x # d /\ pc'[x] = pc[x] /\ ~overrun
    BY <2>1 DEF Unlink, StartStep, Dies, Goto, DaemonInv, DaemonTypeOK
  <2>3. socket = x
    BY <2>1, <2>2 DEF DaemonInv, PathNamed
  <2>4. pc[x] = "listen" \/ d \in ahead[x]
    BY <2>1, <2>2, <2>3 DEF Unlink, StartStep, DaemonInv, AheadSound
  <2> QED
    BY <2>1, <2>3, <2>4 DEF Unlink
<1>3. PathGivenUp'
  BY DaemonAssumption DEF Unlink, StartStep, Dies, Disturbs, Meanwhile, Goto, SetSessions,
      sessionVars, stopVars, clientVars, DaemonInv, DaemonTypeOK, PathGivenUp
<1>4. AheadSound'
  BY DaemonAssumption DEF Unlink, StartStep, Dies, Disturbs, Meanwhile, Goto, SetSessions,
      sessionVars, stopVars, clientVars, DaemonInv, DaemonTypeOK, PathGivenUp, AheadSound
<1>5. PathFree'
  BY DaemonAssumption DEF Unlink, StartStep, Dies, Disturbs, Meanwhile, Goto, SetSessions,
      sessionVars, stopVars, clientVars, DaemonInv, DaemonTypeOK, PathFree, Starting
<1> QED
  BY <1>1, <1>2, <1>3, <1>4, <1>5 DEF DaemonInv

(* Only a free path can be bound.                                          *)
LEMMA BindSound ==
    ASSUME DaemonInv, NEW d \in Daemons, Bind(d)
    PROVE  DaemonInv'
<1>1. DaemonTypeOK'
  BY DaemonAssumption DEF Bind, Bindable, StartStep, Dies, Disturbs, Meanwhile, Goto,
      SetSessions, sessionVars, stopVars, clientVars, DaemonInv, DaemonTypeOK, Processes,
      Starting
<1>2. PathNamed'
  BY DaemonAssumption DEF Bind, Bindable, StartStep, Dies, Disturbs, Meanwhile, Goto,
      SetSessions, sessionVars, stopVars, clientVars, DaemonInv, DaemonTypeOK, PathNamed,
      PathGivenUp, AheadSound
<1>3. PathGivenUp'
  BY DaemonAssumption DEF Bind, Bindable, StartStep, Dies, Disturbs, Meanwhile, Goto,
      SetSessions, sessionVars, stopVars, clientVars, DaemonInv, DaemonTypeOK, PathGivenUp
<1>4. AheadSound'
  BY DaemonAssumption DEF Bind, Bindable, StartStep, Dies, Disturbs, Meanwhile, Goto,
      SetSessions, sessionVars, stopVars, clientVars, DaemonInv, DaemonTypeOK,
      PathGivenUp, AheadSound
<1>5. PathFree'
  BY DaemonAssumption DEF Bind, Bindable, StartStep, Dies, Disturbs, Meanwhile, Goto,
      SetSessions, sessionVars, stopVars, clientVars, DaemonInv, DaemonTypeOK, PathFree,
      Starting
<1> QED
  BY <1>1, <1>2, <1>3, <1>4, <1>5 DEF DaemonInv

(* Those that have made their test are ahead of the new listener.          *)
LEMMA ListenSound ==
    ASSUME DaemonInv, NEW d \in Daemons, Listen(d)
    PROVE  DaemonInv'
<1>1. DaemonTypeOK'
  BY DaemonAssumption DEF Listen, StartStep, Disturbs, Meanwhile, Goto, SetSessions,
      sessionVars, stopVars, clientVars, DaemonInv, DaemonTypeOK, Processes, Starting
<1>2. PathNamed'
  BY DaemonAssumption DEF Listen, StartStep, Disturbs, Meanwhile, Goto, SetSessions,
      sessionVars, stopVars, clientVars, DaemonInv, DaemonTypeOK, PathNamed, PathGivenUp,
      AheadSound
<1>3. PathGivenUp'
  BY DaemonAssumption DEF Listen, StartStep, Disturbs, Meanwhile, Goto, SetSessions,
      sessionVars, stopVars, clientVars, DaemonInv, DaemonTypeOK, PathGivenUp
<1>4. AheadSound'
  BY DaemonAssumption DEF Listen, StartStep, Disturbs, Meanwhile, Goto, SetSessions,
      sessionVars, stopVars, clientVars, DaemonInv, DaemonTypeOK, PathGivenUp, AheadSound
<1>5. PathFree'
  BY DaemonAssumption DEF Listen, StartStep, Disturbs, Meanwhile, Goto, SetSessions,
      sessionVars, stopVars, clientVars, DaemonInv, DaemonTypeOK, PathFree, Starting
<1> QED
  BY <1>1, <1>2, <1>3, <1>4, <1>5 DEF DaemonInv

(* A daemon that has decided to stop leaves its accept loop.               *)
LEMMA StopServingSound ==
    ASSUME DaemonInv, NEW d \in Daemons, StopServing(d)
    PROVE  DaemonInv'
<1>1. DaemonTypeOK'
  BY DaemonAssumption DEF StopServing, Drain, Forget, Goto, sessionVars, stopVars,
      clientVars, DaemonInv, DaemonTypeOK, Processes, Starting
<1>2. PathNamed'
  BY DaemonAssumption DEF StopServing, Drain, Forget, Goto, sessionVars, stopVars,
      clientVars, DaemonInv, DaemonTypeOK, PathNamed, PathGivenUp, AheadSound
<1>3. PathGivenUp'
  BY DaemonAssumption DEF StopServing, Drain, Forget, Goto, sessionVars, stopVars,
      clientVars, DaemonInv, DaemonTypeOK, PathGivenUp
<1>4. AheadSound'
  BY DaemonAssumption DEF StopServing, Drain, Forget, Goto, sessionVars, stopVars,
      clientVars, DaemonInv, DaemonTypeOK, PathGivenUp, AheadSound
<1>5. PathFree'
  BY DaemonAssumption DEF StopServing, Drain, Forget, Goto, sessionVars, stopVars,
      clientVars, DaemonInv, DaemonTypeOK, PathFree, Starting
<1> QED
  BY <1>1, <1>2, <1>3, <1>4, <1>5 DEF DaemonInv

(* A signalled daemon leaves its accept loop.                              *)
LEMMA SignalSound ==
    ASSUME DaemonInv, NEW d \in Daemons, Signal(d)
    PROVE  DaemonInv'
<1>1. DaemonTypeOK'
  BY DaemonAssumption DEF Signal, Drain, Forget, Goto, sessionVars, stopVars, clientVars,
      DaemonInv, DaemonTypeOK, Processes, Starting
<1>2. PathNamed'
  BY DaemonAssumption DEF Signal, Drain, Forget, Goto, sessionVars, stopVars, clientVars,
      DaemonInv, DaemonTypeOK, PathNamed, PathGivenUp, AheadSound
<1>3. PathGivenUp'
  BY DaemonAssumption DEF Signal, Drain, Forget, Goto, sessionVars, stopVars, clientVars,
      DaemonInv, DaemonTypeOK, PathGivenUp
<1>4. AheadSound'
  BY DaemonAssumption DEF Signal, Drain, Forget, Goto, sessionVars, stopVars, clientVars,
      DaemonInv, DaemonTypeOK, PathGivenUp, AheadSound
<1>5. PathFree'
  BY DaemonAssumption DEF Signal, Drain, Forget, Goto, sessionVars, stopVars, clientVars,
      DaemonInv, DaemonTypeOK, PathFree, Starting
<1> QED
  BY <1>1, <1>2, <1>3, <1>4, <1>5 DEF DaemonInv

(* A daemon without streams closes its listener and leaves the path.       *)
LEMMA CloseListenerSound ==
    ASSUME DaemonInv, NEW d \in Daemons, CloseListener(d)
    PROVE  DaemonInv'
<1>1. DaemonTypeOK'
  BY DaemonAssumption DEF CloseListener, Goto,  sessionVars, stopVars, clientVars,
      DaemonInv, DaemonTypeOK, Processes, Starting
<1>2. PathNamed'
  BY DaemonAssumption DEF CloseListener, Goto,  sessionVars, stopVars, clientVars,
      DaemonInv, DaemonTypeOK, PathNamed, PathGivenUp, AheadSound
<1>3. PathGivenUp'
  BY DaemonAssumption DEF CloseListener, Goto,  sessionVars, stopVars, clientVars,
      DaemonInv, DaemonTypeOK, PathGivenUp
<1>4. AheadSound'
  BY DaemonAssumption DEF CloseListener, Goto,  sessionVars, stopVars, clientVars,
      DaemonInv, DaemonTypeOK, PathGivenUp, AheadSound
<1>5. PathFree'
  BY DaemonAssumption DEF CloseListener, Goto,  sessionVars, stopVars, clientVars,
      DaemonInv, DaemonTypeOK, PathFree, Starting
<1> QED
  BY <1>1, <1>2, <1>3, <1>4, <1>5 DEF DaemonInv

(* An exit removes the path and disturbs whoever relaunches.               *)
LEMMA RemoveSocketSound ==
    ASSUME DaemonInv, NEW d \in Daemons, RemoveSocket(d)
    PROVE  DaemonInv'
<1>1. DaemonTypeOK'
  BY DaemonAssumption DEF RemoveSocket, Dies, Cut, Forget, Off, Disturbs, Meanwhile, Goto,
      SetSessions, sessionVars, stopVars, clientVars, DaemonInv, DaemonTypeOK, Processes,
      Starting
<1>2. PathNamed'
  BY DaemonAssumption DEF RemoveSocket, Dies, Cut, Forget, Off, Disturbs, Meanwhile, Goto,
      SetSessions, sessionVars, stopVars, clientVars, DaemonInv, DaemonTypeOK, PathNamed,
      PathGivenUp, AheadSound
<1>3. PathGivenUp'
  BY DaemonAssumption DEF RemoveSocket, Dies, Cut, Forget, Off, Disturbs, Meanwhile, Goto,
      SetSessions, sessionVars, stopVars, clientVars, DaemonInv, DaemonTypeOK, PathGivenUp
<1>4. AheadSound'
  BY DaemonAssumption DEF RemoveSocket, Dies, Cut, Forget, Off, Disturbs, Meanwhile, Goto,
      SetSessions, sessionVars, stopVars, clientVars, DaemonInv, DaemonTypeOK,
      PathGivenUp, AheadSound
<1>5. PathFree'
  BY DaemonAssumption DEF RemoveSocket, Dies, Cut, Forget, Off, Disturbs, Meanwhile, Goto,
      SetSessions, sessionVars, stopVars, clientVars, DaemonInv, DaemonTypeOK, PathFree,
      Starting
<1> QED
  BY <1>1, <1>2, <1>3, <1>4, <1>5 DEF DaemonInv

(* A hanging daemon still listens.                                         *)
LEMMA HangSound ==
    ASSUME DaemonInv, NEW d \in Daemons, Hang(d)
    PROVE  DaemonInv'
<1>1. DaemonTypeOK'
  BY DaemonAssumption DEF Hang, Forget, Goto, sessionVars, stopVars, clientVars,
      DaemonInv, DaemonTypeOK, Processes, Starting
<1>2. PathNamed'
  BY DaemonAssumption DEF Hang, Forget, Goto, sessionVars, stopVars, clientVars,
      DaemonInv, DaemonTypeOK, PathNamed, PathGivenUp, AheadSound
<1>3. PathGivenUp'
  BY DaemonAssumption DEF Hang, Forget, Goto, sessionVars, stopVars, clientVars,
      DaemonInv, DaemonTypeOK, PathGivenUp
<1>4. AheadSound'
  BY DaemonAssumption DEF Hang, Forget, Goto, sessionVars, stopVars, clientVars,
      DaemonInv, DaemonTypeOK, PathGivenUp, AheadSound
<1>5. PathFree'
  BY DaemonAssumption DEF Hang, Forget, Goto, sessionVars, stopVars, clientVars,
      DaemonInv, DaemonTypeOK, PathFree, Starting
<1> QED
  BY <1>1, <1>2, <1>3, <1>4, <1>5 DEF DaemonInv

(* A crash leaves a stale path.                                            *)
LEMMA CrashSound ==
    ASSUME DaemonInv, NEW d \in Daemons, Crash(d)
    PROVE  DaemonInv'
<1>1. DaemonTypeOK'
  BY DaemonAssumption DEF Crash, Listening, Dies, Cut, Forget, Off, Goto, SetSessions,
      sessionVars, stopVars, clientVars, DaemonInv, DaemonTypeOK, Processes, Starting
<1>2. PathNamed'
  BY DaemonAssumption DEF Crash, Listening, Dies, Cut, Forget, Off, Goto, SetSessions,
      sessionVars, stopVars, clientVars, DaemonInv, DaemonTypeOK, PathNamed, PathGivenUp,
      AheadSound
<1>3. PathGivenUp'
  BY DaemonAssumption DEF Crash, Listening, Dies, Cut, Forget, Off, Goto, SetSessions,
      sessionVars, stopVars, clientVars, DaemonInv, DaemonTypeOK, PathGivenUp
<1>4. AheadSound'
  BY DaemonAssumption DEF Crash, Listening, Dies, Cut, Forget, Off, Goto, SetSessions,
      sessionVars, stopVars, clientVars, DaemonInv, DaemonTypeOK, PathGivenUp, AheadSound
<1>5. PathFree'
  BY DaemonAssumption DEF Crash, Listening, Dies, Cut, Forget, Off, Goto, SetSessions,
      sessionVars, stopVars, clientVars, DaemonInv, DaemonTypeOK, PathFree, Starting
<1> QED
  BY <1>1, <1>2, <1>3, <1>4, <1>5 DEF DaemonInv

(* A relaunch gives the path up.                                           *)
LEMMA RelaunchSound ==
    ASSUME DaemonInv, NEW c \in Clients, NEW d \in Daemons, Relaunch(c, d)
    PROVE  DaemonInv'
<1>1. DaemonTypeOK'
  BY DaemonAssumption DEF Relaunch, On, Disturbs, Meanwhile, Goto, sessionVars, stopVars,
      clientVars, DaemonInv, DaemonTypeOK, Processes, Starting
<1>2. PathNamed'
  BY DaemonAssumption DEF Relaunch, On, Disturbs, Meanwhile, Goto, sessionVars, stopVars,
      clientVars, DaemonInv, DaemonTypeOK, PathNamed, PathGivenUp, AheadSound
<1>3. PathGivenUp'
  BY DaemonAssumption DEF Relaunch, On, Disturbs, Meanwhile, Goto, sessionVars, stopVars,
      clientVars, DaemonInv, DaemonTypeOK, PathGivenUp
<1>4. AheadSound'
  BY DaemonAssumption DEF Relaunch, On, Disturbs, Meanwhile, Goto, sessionVars, stopVars,
      clientVars, DaemonInv, DaemonTypeOK, PathGivenUp, AheadSound
<1>5. PathFree'
  BY DaemonAssumption DEF Relaunch, On, Disturbs, Meanwhile, Goto, sessionVars, stopVars,
      clientVars, DaemonInv, DaemonTypeOK, PathFree, Starting
<1> QED
  BY <1>1, <1>2, <1>3, <1>4, <1>5 DEF DaemonInv

(* A daemon whose exec failed has no path.                                 *)
LEMMA ExecFailsSound ==
    ASSUME DaemonInv, NEW d \in Daemons, ExecFails(d)
    PROVE  DaemonInv'
<1>1. DaemonTypeOK'
  BY DaemonAssumption DEF ExecFails, Goto, sessionVars, stopVars, clientVars, DaemonInv,
      DaemonTypeOK, Processes, Starting
<1>2. PathNamed'
  BY DaemonAssumption DEF ExecFails, Goto, sessionVars, stopVars, clientVars, DaemonInv,
      DaemonTypeOK, PathNamed, PathGivenUp, AheadSound
<1>3. PathGivenUp'
  BY DaemonAssumption DEF ExecFails, Goto, sessionVars, stopVars, clientVars, DaemonInv,
      DaemonTypeOK, PathGivenUp
<1>4. AheadSound'
  BY DaemonAssumption DEF ExecFails, Goto, sessionVars, stopVars, clientVars, DaemonInv,
      DaemonTypeOK, PathGivenUp, AheadSound
<1>5. PathFree'
  BY DaemonAssumption DEF ExecFails, Goto, sessionVars, stopVars, clientVars, DaemonInv,
      DaemonTypeOK, PathFree, Starting
<1> QED
  BY <1>1, <1>2, <1>3, <1>4, <1>5 DEF DaemonInv

(* The new image has the sessions of the old one and none of its decisions.*)
LEMMA ExecSound ==
    ASSUME DaemonInv, NEW d \in Daemons, Exec(d)
    PROVE  DaemonInv'
<1>1. DaemonTypeOK'
  BY DaemonAssumption DEF Exec, Cut, Forget, Off, Goto, SetSessions, sessionVars,
      stopVars, clientVars, DaemonInv, DaemonTypeOK, Processes, Starting
<1>2. PathNamed'
  BY DaemonAssumption DEF Exec, Cut, Forget, Off, Goto, SetSessions, sessionVars,
      stopVars, clientVars, DaemonInv, DaemonTypeOK, PathNamed, PathGivenUp, AheadSound
<1>3. PathGivenUp'
  BY DaemonAssumption DEF Exec, Cut, Forget, Off, Goto, SetSessions, sessionVars,
      stopVars, clientVars, DaemonInv, DaemonTypeOK, PathGivenUp
<1>4. AheadSound'
  BY DaemonAssumption DEF Exec, Cut, Forget, Off, Goto, SetSessions, sessionVars,
      stopVars, clientVars, DaemonInv, DaemonTypeOK, PathGivenUp, AheadSound
<1>5. PathFree'
  BY DaemonAssumption DEF Exec, Cut, Forget, Off, Goto, SetSessions, sessionVars,
      stopVars, clientVars, DaemonInv, DaemonTypeOK, PathFree, Starting
<1> QED
  BY <1>1, <1>2, <1>3, <1>4, <1>5 DEF DaemonInv

(* The clean-up removes what has exited.                                   *)
LEMMA ReapSound ==
    ASSUME DaemonInv, NEW d \in Daemons, Reap(d)
    PROVE  DaemonInv'
<1>1. DaemonTypeOK'
  BY DaemonAssumption DEF Reap, ToRead, SetSessions, sessionVars, stopVars, clientVars,
      DaemonInv, DaemonTypeOK, Processes, Starting
<1>2. PathNamed'
  BY DaemonAssumption DEF Reap, ToRead, SetSessions, sessionVars, stopVars, clientVars,
      DaemonInv, DaemonTypeOK, PathNamed, PathGivenUp, AheadSound
<1>3. PathGivenUp'
  BY DaemonAssumption DEF Reap, ToRead, SetSessions, sessionVars, stopVars, clientVars,
      DaemonInv, DaemonTypeOK, PathGivenUp
<1>4. AheadSound'
  BY DaemonAssumption DEF Reap, ToRead, SetSessions, sessionVars, stopVars, clientVars,
      DaemonInv, DaemonTypeOK, PathGivenUp, AheadSound
<1>5. PathFree'
  BY DaemonAssumption DEF Reap, ToRead, SetSessions, sessionVars, stopVars, clientVars,
      DaemonInv, DaemonTypeOK, PathFree, Starting
<1> QED
  BY <1>1, <1>2, <1>3, <1>4, <1>5 DEF DaemonInv

(* A reader of the count decides to stop only if it reads zero.            *)
LEMMA ReadCountSound ==
    ASSUME DaemonInv, NEW d \in Daemons, NEW reader \in {"cleaner", "stream"},
           ReadCount(d, reader)
    PROVE  DaemonInv'
<1>1. DaemonTypeOK'
  BY DaemonAssumption DEF ReadCount, Judge, Decide, sessionVars, stopVars, clientVars,
      DaemonInv, DaemonTypeOK, Processes, Starting
<1>2. PathNamed'
  BY DaemonAssumption DEF ReadCount, Judge, Decide, sessionVars, stopVars, clientVars,
      DaemonInv, DaemonTypeOK, PathNamed, PathGivenUp, AheadSound
<1>3. PathGivenUp'
  BY DaemonAssumption DEF ReadCount, Judge, Decide, sessionVars, stopVars, clientVars,
      DaemonInv, DaemonTypeOK, PathGivenUp
<1>4. AheadSound'
  BY DaemonAssumption DEF ReadCount, Judge, Decide, sessionVars, stopVars, clientVars,
      DaemonInv, DaemonTypeOK, PathGivenUp, AheadSound
<1>5. PathFree'
  BY DaemonAssumption DEF ReadCount, Judge, Decide, sessionVars, stopVars, clientVars,
      DaemonInv, DaemonTypeOK, PathFree, Starting
<1> QED
  BY <1>1, <1>2, <1>3, <1>4, <1>5 DEF DaemonInv

(* Who has read zero says so.                                              *)
LEMMA NotifySound ==
    ASSUME DaemonInv, NEW d \in Daemons, Notify(d)
    PROVE  DaemonInv'
<1>1. DaemonTypeOK'
  BY DaemonAssumption DEF Notify, sessionVars, stopVars, clientVars, DaemonInv,
      DaemonTypeOK, Processes, Starting
<1>2. PathNamed'
  BY DaemonAssumption DEF Notify, sessionVars, stopVars, clientVars, DaemonInv,
      DaemonTypeOK, PathNamed, PathGivenUp, AheadSound
<1>3. PathGivenUp'
  BY DaemonAssumption DEF Notify, sessionVars, stopVars, clientVars, DaemonInv,
      DaemonTypeOK, PathGivenUp
<1>4. AheadSound'
  BY DaemonAssumption DEF Notify, sessionVars, stopVars, clientVars, DaemonInv,
      DaemonTypeOK, PathGivenUp, AheadSound
<1>5. PathFree'
  BY DaemonAssumption DEF Notify, sessionVars, stopVars, clientVars, DaemonInv,
      DaemonTypeOK, PathFree, Starting
<1> QED
  BY <1>1, <1>2, <1>3, <1>4, <1>5 DEF DaemonInv

(* The end of a child changes no file and no session.                      *)
LEMMA ChildExitsSound ==
    ASSUME DaemonInv, NEW d \in Daemons, NEW s \in Sessions, ChildExits(d, s)
    PROVE  DaemonInv'
<1>1. DaemonTypeOK'
  BY DaemonAssumption DEF ChildExits, sessionVars, stopVars, clientVars, DaemonInv,
      DaemonTypeOK, Processes, Starting
<1>2. PathNamed'
  BY DaemonAssumption DEF ChildExits, sessionVars, stopVars, clientVars, DaemonInv,
      DaemonTypeOK, PathNamed, PathGivenUp, AheadSound
<1>3. PathGivenUp'
  BY DaemonAssumption DEF ChildExits, sessionVars, stopVars, clientVars, DaemonInv,
      DaemonTypeOK, PathGivenUp
<1>4. AheadSound'
  BY DaemonAssumption DEF ChildExits, sessionVars, stopVars, clientVars, DaemonInv,
      DaemonTypeOK, PathGivenUp, AheadSound
<1>5. PathFree'
  BY DaemonAssumption DEF ChildExits, sessionVars, stopVars, clientVars, DaemonInv,
      DaemonTypeOK, PathFree, Starting
<1> QED
  BY <1>1, <1>2, <1>3, <1>4, <1>5 DEF DaemonInv

(* An attempt is over, or the next one begins.                             *)
LEMMA DialSound ==
    ASSUME DaemonInv, NEW c \in Clients, Dial(c)
    PROVE  DaemonInv'
<1>1. DaemonTypeOK'
  BY DaemonAssumption DEF Dial, Listening, Set, Miss, First, GoesOff, Off, sessionVars,
      stopVars, clientVars, DaemonInv, DaemonTypeOK, Processes, Starting
<1>2. PathNamed'
  BY DaemonAssumption DEF Dial, Listening, Set, Miss, First, GoesOff, Off, sessionVars,
      stopVars, clientVars, DaemonInv, DaemonTypeOK, PathNamed, PathGivenUp, AheadSound
<1>3. PathGivenUp'
  BY DaemonAssumption DEF Dial, Listening, Set, Miss, First, GoesOff, Off, sessionVars,
      stopVars, clientVars, DaemonInv, DaemonTypeOK, PathGivenUp
<1>4. AheadSound'
  BY DaemonAssumption DEF Dial, Listening, Set, Miss, First, GoesOff, Off, sessionVars,
      stopVars, clientVars, DaemonInv, DaemonTypeOK, PathGivenUp, AheadSound
<1>5. PathFree'
  BY DaemonAssumption DEF Dial, Listening, Set, Miss, First, GoesOff, Off, sessionVars,
      stopVars, clientVars, DaemonInv, DaemonTypeOK, PathFree, Starting
<1> QED
  BY <1>1, <1>2, <1>3, <1>4, <1>5 DEF DaemonInv

(* A handshake succeeds, or the next attempt begins.                       *)
LEMMA HelloSound ==
    ASSUME DaemonInv, NEW c \in Clients, Hello(c)
    PROVE  DaemonInv'
<1>1. DaemonTypeOK'
  BY DaemonAssumption DEF Hello, Set, Miss, First, GoesOff, Off, sessionVars, stopVars,
      clientVars, DaemonInv, DaemonTypeOK, Processes, Starting
<1>2. PathNamed'
  BY DaemonAssumption DEF Hello, Set, Miss, First, GoesOff, Off, sessionVars, stopVars,
      clientVars, DaemonInv, DaemonTypeOK, PathNamed, PathGivenUp, AheadSound
<1>3. PathGivenUp'
  BY DaemonAssumption DEF Hello, Set, Miss, First, GoesOff, Off, sessionVars, stopVars,
      clientVars, DaemonInv, DaemonTypeOK, PathGivenUp
<1>4. AheadSound'
  BY DaemonAssumption DEF Hello, Set, Miss, First, GoesOff, Off, sessionVars, stopVars,
      clientVars, DaemonInv, DaemonTypeOK, PathGivenUp, AheadSound
<1>5. PathFree'
  BY DaemonAssumption DEF Hello, Set, Miss, First, GoesOff, Off, sessionVars, stopVars,
      clientVars, DaemonInv, DaemonTypeOK, PathFree, Starting
<1> QED
  BY <1>1, <1>2, <1>3, <1>4, <1>5 DEF DaemonInv

(* A new daemon has no sessions.                                           *)
LEMMA SpawnSound ==
    ASSUME DaemonInv, NEW c \in Clients, Spawn(c)
    PROVE  DaemonInv'
<1>1. DaemonTypeOK'
  <2>1. /\ conn' \in [Clients ->
             [at : {"dial", "hello", "spawn", "on", "off"},
              to : Daemons \cup {NoDaemon}, left : 1..(Retries + 1)]]
        /\ streaming' \subseteq {x \in Clients : conn'[x].at = "on"}
    BY DaemonAssumption DEF Spawn, Set, GoesOff, Off, DaemonInv, DaemonTypeOK
  <2>2. /\ pc' \in [Daemons -> Processes]
        /\ \A d \in Daemons : pc'[d] \in {"unborn", "dead"} => sessions[d] = {}
    BY DEF Spawn, Goto, DaemonInv, DaemonTypeOK, Processes, Starting
  <2> QED
    BY <2>1, <2>2 DEF Spawn, sessionVars, stopVars, DaemonInv, DaemonTypeOK
<1>2. PathNamed'
  BY DaemonAssumption DEF Spawn, Set, GoesOff, Off, Goto, sessionVars, stopVars,
      clientVars, DaemonInv, DaemonTypeOK, PathNamed, PathGivenUp, AheadSound
<1>3. PathGivenUp'
  BY DaemonAssumption DEF Spawn, Set, GoesOff, Off, Goto, sessionVars, stopVars,
      clientVars, DaemonInv, DaemonTypeOK, PathGivenUp
<1>4. AheadSound'
  BY DaemonAssumption DEF Spawn, Set, GoesOff, Off, Goto, sessionVars, stopVars,
      clientVars, DaemonInv, DaemonTypeOK, PathGivenUp, AheadSound
<1>5. PathFree'
  BY DaemonAssumption DEF Spawn, Set, GoesOff, Off, Goto, sessionVars, stopVars,
      clientVars, DaemonInv, DaemonTypeOK, PathFree, Starting
<1> QED
  BY <1>1, <1>2, <1>3, <1>4, <1>5 DEF DaemonInv

(* A session is created; where is of no matter for the path.               *)
LEMMA CreateSound ==
    ASSUME DaemonInv, NEW c \in Clients, NEW d \in Daemons, NEW s \in Sessions,
           Create(c, d, s)
    PROVE  DaemonInv'
<1>1. DaemonTypeOK'
  BY DaemonAssumption DEF Create, On, SetSessions, sessionVars, stopVars, clientVars,
      DaemonInv, DaemonTypeOK, Processes, Starting
<1>2. PathNamed'
  BY DaemonAssumption DEF Create, On, SetSessions, sessionVars, stopVars, clientVars,
      DaemonInv, DaemonTypeOK, PathNamed, PathGivenUp, AheadSound
<1>3. PathGivenUp'
  BY DaemonAssumption DEF Create, On, SetSessions, sessionVars, stopVars, clientVars,
      DaemonInv, DaemonTypeOK, PathGivenUp
<1>4. AheadSound'
  BY DaemonAssumption DEF Create, On, SetSessions, sessionVars, stopVars, clientVars,
      DaemonInv, DaemonTypeOK, PathGivenUp, AheadSound
<1>5. PathFree'
  BY DaemonAssumption DEF Create, On, SetSessions, sessionVars, stopVars, clientVars,
      DaemonInv, DaemonTypeOK, PathFree, Starting
<1> QED
  BY <1>1, <1>2, <1>3, <1>4, <1>5 DEF DaemonInv

(* A session is removed.                                                   *)
LEMMA DestroySound ==
    ASSUME DaemonInv, NEW c \in Clients, NEW d \in Daemons, NEW s \in Sessions,
           Destroy(c, d, s)
    PROVE  DaemonInv'
<1>1. DaemonTypeOK'
  BY DaemonAssumption DEF Destroy, On, SetSessions, sessionVars, stopVars, clientVars,
      DaemonInv, DaemonTypeOK, Processes, Starting
<1>2. PathNamed'
  BY DaemonAssumption DEF Destroy, On, SetSessions, sessionVars, stopVars, clientVars,
      DaemonInv, DaemonTypeOK, PathNamed, PathGivenUp, AheadSound
<1>3. PathGivenUp'
  BY DaemonAssumption DEF Destroy, On, SetSessions, sessionVars, stopVars, clientVars,
      DaemonInv, DaemonTypeOK, PathGivenUp
<1>4. AheadSound'
  BY DaemonAssumption DEF Destroy, On, SetSessions, sessionVars, stopVars, clientVars,
      DaemonInv, DaemonTypeOK, PathGivenUp, AheadSound
<1>5. PathFree'
  BY DaemonAssumption DEF Destroy, On, SetSessions, sessionVars, stopVars, clientVars,
      DaemonInv, DaemonTypeOK, PathFree, Starting
<1> QED
  BY <1>1, <1>2, <1>3, <1>4, <1>5 DEF DaemonInv

(* A client that streams is connected.                                     *)
LEMMA AttachSound ==
    ASSUME DaemonInv, NEW c \in Clients, NEW d \in Daemons, Attach(c, d)
    PROVE  DaemonInv'
<1>1. DaemonTypeOK'
  BY DaemonAssumption DEF Attach, On, sessionVars, stopVars, clientVars, DaemonInv,
      DaemonTypeOK, Processes, Starting
<1>2. PathNamed'
  BY DaemonAssumption DEF Attach, On, sessionVars, stopVars, clientVars, DaemonInv,
      DaemonTypeOK, PathNamed, PathGivenUp, AheadSound
<1>3. PathGivenUp'
  BY DaemonAssumption DEF Attach, On, sessionVars, stopVars, clientVars, DaemonInv,
      DaemonTypeOK, PathGivenUp
<1>4. AheadSound'
  BY DaemonAssumption DEF Attach, On, sessionVars, stopVars, clientVars, DaemonInv,
      DaemonTypeOK, PathGivenUp, AheadSound
<1>5. PathFree'
  BY DaemonAssumption DEF Attach, On, sessionVars, stopVars, clientVars, DaemonInv,
      DaemonTypeOK, PathFree, Starting
<1> QED
  BY <1>1, <1>2, <1>3, <1>4, <1>5 DEF DaemonInv

(* A client stops streaming.                                               *)
LEMMA DetachSound ==
    ASSUME DaemonInv, NEW c \in Clients, NEW d \in Daemons, Detach(c, d)
    PROVE  DaemonInv'
<1>1. DaemonTypeOK'
  BY DaemonAssumption DEF Detach, CloseStream, ToRead, Streams, sessionVars, stopVars,
      clientVars, DaemonInv, DaemonTypeOK, Processes, Starting
<1>2. PathNamed'
  BY DaemonAssumption DEF Detach, CloseStream, ToRead, Streams, sessionVars, stopVars,
      clientVars, DaemonInv, DaemonTypeOK, PathNamed, PathGivenUp, AheadSound
<1>3. PathGivenUp'
  BY DaemonAssumption DEF Detach, CloseStream, ToRead, Streams, sessionVars, stopVars,
      clientVars, DaemonInv, DaemonTypeOK, PathGivenUp
<1>4. AheadSound'
  BY DaemonAssumption DEF Detach, CloseStream, ToRead, Streams, sessionVars, stopVars,
      clientVars, DaemonInv, DaemonTypeOK, PathGivenUp, AheadSound
<1>5. PathFree'
  BY DaemonAssumption DEF Detach, CloseStream, ToRead, Streams, sessionVars, stopVars,
      clientVars, DaemonInv, DaemonTypeOK, PathFree, Starting
<1> QED
  BY <1>1, <1>2, <1>3, <1>4, <1>5 DEF DaemonInv

(* A client that goes does not stream any more.                            *)
LEMMA LeaveSound ==
    ASSUME DaemonInv, NEW c \in Clients, NEW d \in Daemons, Leave(c, d)
    PROVE  DaemonInv'
<1>1. DaemonTypeOK'
  BY DaemonAssumption DEF Leave, CloseStream, ToRead, Streams, GoesOff, Off, sessionVars,
      stopVars, clientVars, DaemonInv, DaemonTypeOK, Processes, Starting
<1>2. PathNamed'
  BY DaemonAssumption DEF Leave, CloseStream, ToRead, Streams, GoesOff, Off, sessionVars,
      stopVars, clientVars, DaemonInv, DaemonTypeOK, PathNamed, PathGivenUp, AheadSound
<1>3. PathGivenUp'
  BY DaemonAssumption DEF Leave, CloseStream, ToRead, Streams, GoesOff, Off, sessionVars,
      stopVars, clientVars, DaemonInv, DaemonTypeOK, PathGivenUp
<1>4. AheadSound'
  BY DaemonAssumption DEF Leave, CloseStream, ToRead, Streams, GoesOff, Off, sessionVars,
      stopVars, clientVars, DaemonInv, DaemonTypeOK, PathGivenUp, AheadSound
<1>5. PathFree'
  BY DaemonAssumption DEF Leave, CloseStream, ToRead, Streams, GoesOff, Off, sessionVars,
      stopVars, clientVars, DaemonInv, DaemonTypeOK, PathFree, Starting
<1> QED
  BY <1>1, <1>2, <1>3, <1>4, <1>5 DEF DaemonInv

(* A shutdown without force is refused while there are sessions.           *)
LEMMA ShutdownSound ==
    ASSUME DaemonInv, NEW c \in Clients, NEW d \in Daemons, Shutdown(c, d)
    PROVE  DaemonInv'
<1>1. DaemonTypeOK'
  BY DaemonAssumption DEF Shutdown, On, Judge, Decide, sessionVars, stopVars, clientVars,
      DaemonInv, DaemonTypeOK, Processes, Starting
<1>2. PathNamed'
  BY DaemonAssumption DEF Shutdown, On, Judge, Decide, sessionVars, stopVars, clientVars,
      DaemonInv, DaemonTypeOK, PathNamed, PathGivenUp, AheadSound
<1>3. PathGivenUp'
  BY DaemonAssumption DEF Shutdown, On, Judge, Decide, sessionVars, stopVars, clientVars,
      DaemonInv, DaemonTypeOK, PathGivenUp
<1>4. AheadSound'
  BY DaemonAssumption DEF Shutdown, On, Judge, Decide, sessionVars, stopVars, clientVars,
      DaemonInv, DaemonTypeOK, PathGivenUp, AheadSound
<1>5. PathFree'
  BY DaemonAssumption DEF Shutdown, On, Judge, Decide, sessionVars, stopVars, clientVars,
      DaemonInv, DaemonTypeOK, PathFree, Starting
<1> QED
  BY <1>1, <1>2, <1>3, <1>4, <1>5 DEF DaemonInv

(* A forced shutdown destroys the sessions first.                          *)
LEMMA ForcedShutdownSound ==
    ASSUME DaemonInv, NEW c \in Clients, NEW d \in Daemons, ForcedShutdown(c, d)
    PROVE  DaemonInv'
<1>1. DaemonTypeOK'
  BY DaemonAssumption DEF ForcedShutdown, Decide, On, SetSessions, sessionVars, stopVars,
      clientVars, DaemonInv, DaemonTypeOK, Processes, Starting
<1>2. PathNamed'
  BY DaemonAssumption DEF ForcedShutdown, Decide, On, SetSessions, sessionVars, stopVars,
      clientVars, DaemonInv, DaemonTypeOK, PathNamed, PathGivenUp, AheadSound
<1>3. PathGivenUp'
  BY DaemonAssumption DEF ForcedShutdown, Decide, On, SetSessions, sessionVars, stopVars,
      clientVars, DaemonInv, DaemonTypeOK, PathGivenUp
<1>4. AheadSound'
  BY DaemonAssumption DEF ForcedShutdown, Decide, On, SetSessions, sessionVars, stopVars,
      clientVars, DaemonInv, DaemonTypeOK, PathGivenUp, AheadSound
<1>5. PathFree'
  BY DaemonAssumption DEF ForcedShutdown, Decide, On, SetSessions, sessionVars, stopVars,
      clientVars, DaemonInv, DaemonTypeOK, PathFree, Starting
<1> QED
  BY <1>1, <1>2, <1>3, <1>4, <1>5 DEF DaemonInv

------------------------------------------------------------------------------
(* One step of daemons and clients.                                        *)
LEMMA NextSound == DaemonInv /\ [Next]_vars => DaemonInv'
<1> SUFFICES ASSUME DaemonInv, [Next]_vars PROVE DaemonInv'
  OBVIOUS
<1>1. CASE UNCHANGED vars
  BY <1>1 DEF vars, DaemonInv, DaemonTypeOK, PathNamed, PathGivenUp, AheadSound, PathFree
<1>2. ASSUME NEW d \in Daemons,
             Start(d) \/ Stop(d) \/ Reap(d) \/ Hang(d) \/ Crash(d) \/ Signal(d)
               \/ Exec(d) \/ ExecFails(d)
      PROVE  DaemonInv'
  BY <1>2, ProbeSound, UnlinkSound, BindSound, ListenSound, ReadCountSound, NotifySound,
      StopServingSound, CloseListenerSound, RemoveSocketSound, ReapSound, HangSound,
      CrashSound, SignalSound, ExecSound, ExecFailsSound DEF Start, Stop
<1>3. ASSUME NEW c \in Clients, Connecting(c) PROVE DaemonInv'
  BY <1>3, DialSound, HelloSound, SpawnSound DEF Connecting
<1>4. ASSUME NEW c \in Clients, NEW d \in Daemons, Request(c, d) PROVE DaemonInv'
  BY <1>4, CreateSound, DestroySound, AttachSound, DetachSound, LeaveSound, ShutdownSound,
      ForcedShutdownSound, RelaunchSound DEF Request
<1>5. ASSUME NEW d \in Daemons, NEW s \in Sessions, ChildExits(d, s) PROVE DaemonInv'
  BY <1>5, ChildExitsSound
<1> QED
  BY <1>1, <1>2, <1>3, <1>4, <1>5 DEF Next

(* The inductive invariant.                                                *)
THEOREM DaemonSound == Spec => []DaemonInv
<1> QED
  BY InitSound, NextSound, PTL DEF Spec

(* Types; sessions belong to one daemon that runs, attempts do not run out *)
(* below one, only connected clients stream.                               *)
THEOREM DaemonTyped == Spec => []DaemonTypeOK
<1>1. DaemonInv => DaemonTypeOK
  BY DEF DaemonInv
<1> QED
  BY <1>1, DaemonSound, PTL

(* A daemon that accepts connections can be reached, until an exec fails,  *)
(* a start races another or an exit comes late (run_unix_socket_server).   *)
THEOREM OneDaemonAtPath == Spec => []PathNamesTheDaemon
<1>1. DaemonInv => PathNamesTheDaemon
  BY DEF DaemonInv, PathNamed, PathNamesTheDaemon, Listening
<1> QED
  BY <1>1, DaemonSound, PTL

(* A listening daemon loses its path only to one that was ahead of it      *)
(* (run_unix_socket_server).                                               *)
THEOREM ListenerKeepsPath == Spec => LiveSocketKept
<1> DEFINE Kind == \A d, x \in Daemons :
      socket = d /\ Listening(d) /\ socket' # d /\ pc[x] = "unlink" /\ pc'[x] # pc[x]
        => x \in ahead[d]
<1>1. DaemonInv /\ [Next]_vars => [Kind]_vars
  BY DEF DaemonInv, AheadSound, Listening
<1> QED
  BY <1>1, DaemonSound, PTL DEF Spec, LiveSocketKept

(* What becomes of the sessions of a daemon that relaunches or starts.     *)
LEMMA RelaunchStep ==
    ASSUME DaemonInv, [Next]_vars, NEW d \in Daemons, pc[d] \in Starting \cup {"exec"}
    PROVE  /\ pc[d] = "exec" /\ pc'[d] # "probe" => sessions'[d] = sessions[d]
           /\ pc[d] \in Starting =>
                sessions'[d] = sessions[d] \/ (pc'[d] = "dead" /\ d \in rivalled)
<1> DEFINE Goal ==
      /\ pc[d] = "exec" /\ pc'[d] # "probe" => sessions'[d] = sessions[d]
      /\ pc[d] \in Starting =>
           sessions'[d] = sessions[d] \/ (pc'[d] = "dead" /\ d \in rivalled)
<1> USE DEF DaemonInv, DaemonTypeOK
<1> SUFFICES Goal
  OBVIOUS
<1>1. CASE UNCHANGED vars
  BY <1>1 DEF vars
<1>2. ASSUME NEW x \in Daemons,
             Start(x) \/ Stop(x) \/ Reap(x) \/ Hang(x) \/ Crash(x) \/ Signal(x)
               \/ Exec(x) \/ ExecFails(x)
      PROVE  Goal
  <2>1. CASE Start(x)
    <3>1. CASE x = d
      BY <2>1, <3>1, DaemonAssumption DEF PathFree, Start, Probe, AfterProbe, Unlink,
          Bind, Bindable, Listen, StartStep, Answers, Listening, Dies, Goto, SetSessions,
          Starting, sessionVars
    <3>2. CASE x # d
      BY <2>1, <3>2 DEF Start, Probe, Unlink, Bind, Listen, StartStep, Dies, SetSessions,
          sessionVars
    <3> QED
      BY <3>1, <3>2
  <2>2. CASE Stop(x)
    BY <2>2 DEF Stop, ReadCount, Notify, StopServing, CloseListener, RemoveSocket, Drain,
        Dies, SetSessions, sessionVars, Starting
  <2>3. CASE Reap(x) \/ Hang(x) \/ Crash(x) \/ Signal(x)
    BY <2>3 DEF Reap, ToRead, Hang, Crash, Signal, Drain, Listening, Dies, SetSessions,
        sessionVars, Starting
  <2>4. CASE Exec(x) \/ ExecFails(x)
    BY <2>4 DEF Exec, ExecFails, Goto, SetSessions, sessionVars, Starting
  <2> QED
    BY <1>2, <2>1, <2>2, <2>3, <2>4
<1>3. ASSUME NEW c \in Clients, Connecting(c) PROVE sessions' = sessions
  BY <1>3 DEF Connecting, Dial, Hello, Spawn, sessionVars
<1>4. ASSUME NEW c \in Clients, NEW x \in Daemons, Request(c, x)
      PROVE  sessions'[d] = sessions[d]
  BY <1>4 DEF Request, Create, Destroy, Attach, Detach, Leave, CloseStream, Shutdown,
      ForcedShutdown, Relaunch, On, SetSessions, sessionVars, Starting
<1>5. ASSUME NEW x \in Daemons, NEW s \in Sessions, ChildExits(x, s)
      PROVE  sessions' = sessions
  BY <1>5 DEF ChildExits
<1> QED
  BY <1>1, <1>2, <1>3, <1>4, <1>5 DEF Next

(* A relaunch that fails keeps all sessions, a new image those it has      *)
(* restored, unless another daemon got in its way, for any number of       *)
(* daemons (perform_relaunch, run_server).                                 *)
THEOREM RelaunchKeeps == Spec => RelaunchKeepsSessions
<1> DEFINE Kind == \A d \in Daemons :
      /\ pc[d] = "exec" /\ pc'[d] # "probe" => sessions'[d] = sessions[d]
      /\ pc[d] \in Starting =>
           sessions'[d] = sessions[d] \/ (pc'[d] = "dead" /\ d \in rivalled)
<1>1. DaemonInv /\ [Next]_vars => [Kind]_vars
  BY RelaunchStep
<1> QED
  BY <1>1, DaemonSound, PTL DEF Spec, RelaunchKeepsSessions
=============================================================================
