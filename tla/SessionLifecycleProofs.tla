------------------------- MODULE SessionLifecycleProofs -------------------------
(***************************************************************************)
(* LifecycleInv is inductive, and the safety promises of the session map   *)
(* follow from it.  First the length and the count of a queue; then, for   *)
(* every step a session takes by itself, its whole effect (Effect), from   *)
(* which the invariant, RemovedStaysShut and OnlyResumeUnseals all follow; *)
(* then one lemma for every step of the gate's holder.  At the end three   *)
(* smaller invariants: what a clean-up has judged does not connect, local  *)
(* sessions are never forgotten, and a session has no controller before    *)
(* its reader; with the last one every actor keeps its outline.            *)
(***************************************************************************)
EXTENDS SessionLifecycleProperties, FiniteSetTheorems, SequenceTheorems, TLAPS

Messages == {"command"} \cup Closers

------------------------------------------------------------------------------
(* The commands of a queue.                                                *)

(* They are finitely many, at most as many as there are messages.          *)
LEMMA CommandsFinite ==
    ASSUME NEW c \in Seq(Messages)
    PROVE  /\ IsFiniteSet(CommandsOf(c))
           /\ Cardinality(CommandsOf(c)) \in Nat
           /\ Cardinality(CommandsOf(c)) <= Len(c)
           /\ Cardinality(CommandsOf(c)) = 0 <=> CommandsOf(c) = {}
<1>1. DOMAIN c = 1..Len(c) /\ Len(c) \in Nat
  BY LenProperties
<1>2. IsFiniteSet(1..Len(c)) /\ Cardinality(1..Len(c)) = Len(c)
  BY <1>1, FS_Interval
<1>3. CommandsOf(c) \in SUBSET (1..Len(c))
  BY <1>1 DEF CommandsOf
<1>4. IsFiniteSet(CommandsOf(c)) /\ Cardinality(CommandsOf(c)) <= Cardinality(1..Len(c))
  BY <1>2, <1>3, FS_Subset
<1> QED
  BY <1>2, <1>4, FS_CardinalityType, FS_EmptySet

(* An empty queue has none.                                                *)
LEMMA CommandsEmpty == CommandsOf(<<>>) = {} /\ Cardinality(CommandsOf(<<>>)) = 0
<1>1. CommandsOf(<<>>) = {}
  BY DEF CommandsOf
<1> QED
  BY <1>1, FS_EmptySet

(* A message put into the queue counts if it is a command.                 *)
LEMMA CommandsAppend ==
    ASSUME NEW c \in Seq(Messages), NEW m \in Messages
    PROVE  /\ Append(c, m) \in Seq(Messages)
           /\ Len(Append(c, m)) = Len(c) + 1
           /\ Cardinality(CommandsOf(Append(c, m)))
              = Cardinality(CommandsOf(c)) + (IF m = "command" THEN 1 ELSE 0)
           /\ m # "command" => CommandsOf(Append(c, m)) = CommandsOf(c)
<1> DEFINE n == Len(c) + 1
<1>1. /\ Append(c, m) \in Seq(Messages) /\ Len(Append(c, m)) = n
      /\ \A i \in 1..Len(c) : Append(c, m)[i] = c[i]
      /\ Append(c, m)[n] = m
  BY AppendProperties
<1>2. /\ DOMAIN c = 1..Len(c) /\ Len(c) \in Nat
      /\ DOMAIN Append(c, m) = 1..n
  BY <1>1, LenProperties
<1>3. CommandsOf(Append(c, m))
      = IF m = "command" THEN CommandsOf(c) \cup {n} ELSE CommandsOf(c)
  BY <1>1, <1>2 DEF CommandsOf
<1>4. n \notin CommandsOf(c)
  BY <1>2 DEF CommandsOf
<1>5. IsFiniteSet(CommandsOf(c)) /\ Cardinality(CommandsOf(c)) \in Nat
  BY CommandsFinite
<1>6. Cardinality(CommandsOf(c) \cup {n}) = Cardinality(CommandsOf(c)) + 1
  BY <1>4, <1>5, FS_AddElement
<1> QED
  BY <1>1, <1>3, <1>5, <1>6

(* A message taken off the queue no longer does: the others move up.       *)
LEMMA CommandsTail ==
    ASSUME NEW c \in Seq(Messages), c # <<>>
    PROVE  /\ Head(c) \in Messages
           /\ Tail(c) \in Seq(Messages)
           /\ Len(Tail(c)) = Len(c) - 1
           /\ Cardinality(CommandsOf(c))
              = Cardinality(CommandsOf(Tail(c))) + (IF Head(c) = "command" THEN 1 ELSE 0)
           /\ Head(c) = "command" => CommandsOf(c) # {}
<1> DEFINE rest == CommandsOf(c) \ {1}
           f == [i \in CommandsOf(Tail(c)) |-> i + 1]
<1>1. /\ DOMAIN c = 1..Len(c) /\ Len(c) \in Nat \ {0}
      /\ Tail(c) \in Seq(Messages)
      /\ Len(Tail(c)) = Len(c) - 1
      /\ DOMAIN Tail(c) = 1..(Len(c) - 1)
      /\ \A i \in 1..(Len(c) - 1) : Tail(c)[i] = c[i + 1]
      /\ Head(c) = c[1] /\ Head(c) \in Messages
  <2>1. Len(c) \in Nat \ {0} /\ DOMAIN c = 1..Len(c)
    BY LenProperties, EmptySeq
  <2>2. /\ Tail(c) \in Seq(Messages) /\ Len(Tail(c)) = Len(c) - 1
        /\ \A i \in 1..Len(Tail(c)) : Tail(c)[i] = c[i + 1]
    BY HeadTailProperties
  <2>3. Head(c) = c[1] /\ Head(c) \in Messages
    BY HeadTailProperties
  <2> QED
    BY <2>1, <2>2, <2>3, LenProperties
<1>2. f \in [CommandsOf(Tail(c)) -> rest]
  BY <1>1 DEF CommandsOf
<1>3. \A i, j \in CommandsOf(Tail(c)) : f[i] = f[j] => i = j
  BY <1>1 DEF CommandsOf
<1>4. \A j \in rest : \E i \in CommandsOf(Tail(c)) : f[i] = j
  <2> TAKE j \in rest
  <2>1. j \in 2..Len(c) /\ c[j] = "command"
    BY <1>1 DEF CommandsOf
  <2>2. j - 1 \in 1..(Len(c) - 1) /\ (j - 1) + 1 = j
    BY <1>1, <2>1
  <2>3. Tail(c)[j - 1] = c[j]
    BY <1>1, <2>2
  <2>4. j - 1 \in CommandsOf(Tail(c))
    BY <1>1, <2>1, <2>2, <2>3 DEF CommandsOf
  <2> QED
    BY <2>2, <2>4
<1>5. f \in Bijection(CommandsOf(Tail(c)), rest)
  BY <1>2, <1>3, <1>4 DEF Bijection, Injection, Surjection, IsInjective
<1>6. IsFiniteSet(CommandsOf(Tail(c))) /\ Cardinality(CommandsOf(Tail(c))) \in Nat
  BY <1>1, CommandsFinite
<1>7. Cardinality(rest) = Cardinality(CommandsOf(Tail(c)))
  BY <1>5, <1>6, FS_Bijection DEF ExistsBijection
<1>8. IsFiniteSet(CommandsOf(c)) /\ Cardinality(CommandsOf(c)) \in Nat
  BY CommandsFinite
<1>9. Cardinality(rest) = IF 1 \in CommandsOf(c) THEN Cardinality(CommandsOf(c)) - 1
                                                 ELSE Cardinality(CommandsOf(c))
  BY <1>8, FS_RemoveElement
<1>10. 1 \in CommandsOf(c) <=> Head(c) = "command"
  BY <1>1 DEF CommandsOf
<1> QED
  BY <1>1, <1>6, <1>7, <1>8, <1>9, <1>10

(* The same of all messages.                                               *)
LEMMA MessagesOfQueues ==
    /\ MessagesOf(<<>>) = {}
    /\ \A c \in Seq(Messages), m \in Messages :
          MessagesOf(Append(c, m)) = MessagesOf(c) \cup {m}
    /\ \A c \in Seq(Messages) : c # <<>> =>
          /\ Head(c) \in MessagesOf(c)
          /\ MessagesOf(Tail(c)) \subseteq MessagesOf(c)
<1>1. MessagesOf(<<>>) = {}
  BY DEF MessagesOf
<1>2. ASSUME NEW c \in Seq(Messages), NEW m \in Messages
      PROVE  MessagesOf(Append(c, m)) = MessagesOf(c) \cup {m}
  <2>1. /\ DOMAIN c = 1..Len(c) /\ Len(c) \in Nat
        /\ DOMAIN Append(c, m) = 1..(Len(c) + 1)
        /\ \A i \in 1..Len(c) : Append(c, m)[i] = c[i]
        /\ Append(c, m)[Len(c) + 1] = m
    BY AppendProperties, LenProperties
  <2> QED
    BY <2>1 DEF MessagesOf
<1>3. ASSUME NEW c \in Seq(Messages), c # <<>>
      PROVE  /\ Head(c) \in MessagesOf(c)
             /\ MessagesOf(Tail(c)) \subseteq MessagesOf(c)
  <2>1. Len(c) \in Nat \ {0} /\ DOMAIN c = 1..Len(c)
    BY <1>3, LenProperties, EmptySeq
  <2>2. /\ Tail(c) \in Seq(Messages) /\ Len(Tail(c)) = Len(c) - 1
        /\ \A i \in 1..Len(Tail(c)) : Tail(c)[i] = c[i + 1]
        /\ Head(c) = c[1]
    BY <1>3, HeadTailProperties
  <2>3. DOMAIN Tail(c) = 1..(Len(c) - 1)
    BY <2>2, LenProperties
  <2> QED
    BY <2>1, <2>2, <2>3 DEF MessagesOf
<1> QED
  BY <1>1, <1>2, <1>3

------------------------------------------------------------------------------
(* What a step of session t by itself may do.                              *)

OthersStay(t) ==
    \A x \in Sessions \ {t} :
      /\ ssh'[x] = ssh[x] /\ reader'[x] = reader[x] /\ flag'[x] = flag[x]
      /\ ctl'[x] = ctl[x] /\ worker'[x] = worker[x] /\ chan'[x] = chan[x]
      /\ active'[x] = active[x] /\ queued'[x] = queued[x] /\ closer'[x] = closer[x]

(* A session that is sealed stays so, and keeps what it has come to.       *)
Kept(t) ==
    Sealed(t) => /\ Sealed(t)'
                 /\ Settled(t) => Settled(t)'
                 /\ ~Working(t) => ~Working(t)'

(* Whoever waits for the end of a destruction hears of it when it is over. *)
Told(t) ==
    /\ closer[t]["destroy"] = "no" <=> closer'[t]["destroy"] = "no"
    /\ closer'[t]["destroy"] = "done" => closer[t]["destroy"] = "done" \/ ~Working(t)'

Effect(t) ==
    /\ ActorTypeOK'
    /\ OthersStay(t)
    /\ ActorSound(t)'
    /\ CountExact(t)'
    /\ Kept(t)
    /\ Told(t)

(* What the invariant says of one session, and of its queue.               *)
LEMMA Known ==
    ASSUME LifecycleInv, NEW t \in Sessions
    PROVE  /\ ActorTypeOK /\ MapTypeOK
           /\ ActorSound(t) /\ CountExact(t) /\ RemovedSound(t)
           /\ Capacity \in Nat \ {0} /\ CounterSize \in Nat /\ CounterSize > Capacity + 2
           /\ chan[t] \in Seq(Messages) /\ Len(chan[t]) \in Nat /\ Len(chan[t]) <= Capacity
           /\ Cardinality(CommandsOf(chan[t])) \in Nat
           /\ Cardinality(CommandsOf(chan[t])) <= Len(chan[t])
           /\ Cardinality(CommandsOf(chan[t])) = 0 <=> CommandsOf(chan[t]) = {}
<1>1. /\ ActorTypeOK /\ MapTypeOK
      /\ ActorSound(t) /\ CountExact(t) /\ RemovedSound(t)
      /\ chan[t] \in Seq(Messages) /\ Len(chan[t]) <= Capacity
  BY DEF LifecycleInv, LifecycleTypeOK, ActorTypeOK, Messages
<1>2. Len(chan[t]) \in Nat
  BY <1>1, LenProperties
<1> QED
  BY <1>1, <1>2, CommandsFinite, LifecycleAssumption

(* If only one session has done something, on its own and with no more     *)
(* than such an effect, the invariant is kept.                             *)
LEMMA EffectSound ==
    ASSUME LifecycleInv, NEW t \in Sessions, Effect(t), MapTypeOK',
           UNCHANGED <<place, draining, gate>>
    PROVE  LifecycleInv'
<1>1. ASSUME NEW x \in Sessions, x # t
      PROVE  /\ ActorSound(x)' /\ CountExact(x)' /\ RemovedSound(x)'
             /\ Sealed(x) <=> Sealed(x)'
             /\ Settled(x) <=> Settled(x)'
  <2>1. /\ ssh'[x] = ssh[x] /\ reader'[x] = reader[x] /\ flag'[x] = flag[x]
        /\ ctl'[x] = ctl[x] /\ worker'[x] = worker[x] /\ chan'[x] = chan[x]
        /\ active'[x] = active[x] /\ queued'[x] = queued[x] /\ closer'[x] = closer[x]
    BY <1>1 DEF Effect, OthersStay
  <2>2. ActorSound(x) /\ CountExact(x) /\ RemovedSound(x)
    BY DEF LifecycleInv
  <2>3. Midway(x)' <=> Midway(x)
    BY <2>1 DEF Midway
  <2>4. (Alive(x)' <=> Alive(x)) /\ (Sealed(x)' <=> Sealed(x))
        /\ (Settled(x)' <=> Settled(x)) /\ (Working(x)' <=> Working(x))
    BY <2>1 DEF Alive, Sealed, Settled, Working
  <2>5. ActorSound(x)'
    BY <2>1, <2>2, <2>4 DEF ActorSound
  <2>6. CountExact(x)'
    BY <2>1, <2>2, <2>3, <2>4 DEF CountExact
  <2>7. RemovedSound(x)'
    BY <2>1, <2>2, <2>4 DEF RemovedSound
  <2> QED
    BY <2>4, <2>5, <2>6, <2>7
<1>2. /\ Sealed(t) => Sealed(t)'
      /\ Sealed(t) /\ Settled(t) => Settled(t)'
  BY DEF Effect, Kept
<1>3. RemovedSound(t)'
  <2>1. RemovedSound(t)
    BY DEF LifecycleInv
  <2>2. CASE closer'[t]["destroy"] = "no"
    BY <1>2, <2>1, <2>2 DEF RemovedSound, Effect, Told
  <2>3. CASE closer'[t]["destroy"] # "no"
    <3>1. closer[t]["destroy"] # "no" /\ place[t] = "removed" /\ Sealed(t)
      BY <2>1, <2>3 DEF RemovedSound, Effect, Told
    <3>2. closer'[t]["destroy"] = "done" => ~Working(t)'
      BY <2>1, <3>1 DEF RemovedSound, Effect, Told, Kept
    <3> QED
      BY <1>2, <2>1, <3>1, <3>2 DEF RemovedSound
  <2> QED
    BY <2>2, <2>3
<1>4. ASSUME NEW x \in Sessions
      PROVE  /\ Sealed(x) => Sealed(x)'
             /\ Sealed(x) /\ Settled(x) => Settled(x)'
  BY <1>1, <1>2
<1>5. Mapped' = Mapped /\ Mapped \subseteq Sessions
  BY DEF Mapped
<1>6. CleanupSound'
  <2>1. CleanupSound /\ gate.quiet \cup gate.seen \cup gate.dead \subseteq Sessions
    BY <1>5 DEF LifecycleInv, LifecycleTypeOK, MapTypeOK
  <2> QED
    BY <1>4, <2>1 DEF CleanupSound, At
<1>7. RelaunchSound'
  <2>1. RelaunchSound
    BY DEF LifecycleInv
  <2> QED
    BY <1>4, <1>5, <2>1 DEF RelaunchSound, At
<1>8. /\ \A x \in Sessions : ActorSound(x)'
      /\ \A x \in Sessions : CountExact(x)'
      /\ \A x \in Sessions : RemovedSound(x)'
  BY <1>1, <1>3 DEF Effect
<1>9. LifecycleTypeOK'
  BY DEF Effect, LifecycleTypeOK
<1> QED
  BY <1>6, <1>7, <1>8, <1>9 DEF LifecycleInv


(* A count that the queue, the worker and the reader together can reach    *)
(* does not wrap.                                                          *)
LEMMA SmallCount ==
    ASSUME NEW m \in Nat, NEW n \in 0..(m - 1)
    PROVE  n % m = n
OBVIOUS

------------------------------------------------------------------------------
(* The SSH connection task, and children.                                  *)

(* The connection task touches no switch.                                  *)
LEMMA SshReturnsEffect ==
    ASSUME LifecycleInv, NEW t \in Sessions, SshReturns(t)
    PROVE  Effect(t)
<1>1. ActorTypeOK' /\ OthersStay(t)
  BY Known DEF SshReturns, Connecting, actorVars, controlVars, mapVars, ActorTypeOK,
     OthersStay
<1>2. /\ place' = place
      /\ pty'[t] = pty[t] /\ reader'[t] = reader[t] /\ flag'[t] = flag[t]
      /\ ctl'[t] = ctl[t] /\ worker'[t] = worker[t] /\ chan'[t] = chan[t]
      /\ active'[t] = active[t] /\ queued'[t] = queued[t] /\ closer'[t] = closer[t]
      /\ Connecting(t)
  BY Known DEF SshReturns, actorVars, controlVars, mapVars, ActorTypeOK
<1>3. ActorSound(t)'
  BY <1>2, Known DEF ActorSound, Alive, Connecting
<1>4. CountExact(t)'
  BY <1>2, Known DEF CountExact, Alive, Midway, ActorSound
<1>5. Kept(t)
  BY <1>2, Known DEF Kept, Sealed, Settled, Working, Alive, ActorSound
<1>6. Told(t)
  BY <1>2, Known DEF Told, Working, Alive
<1> QED
  BY <1>1, <1>3, <1>4, <1>5, <1>6 DEF Effect

(* Nor does the new PTY.                                                   *)
LEMMA SshAttachEffect ==
    ASSUME LifecycleInv, NEW t \in Sessions, SshAttach(t)
    PROVE  Effect(t)
<1>1. ActorTypeOK' /\ OthersStay(t)
  BY Known DEF SshAttach, actorVars, controlVars, mapVars, ActorTypeOK, OthersStay
<1>2. /\ place' = place /\ ssh[t] # "over" /\ ssh'[t] # "over"
      /\ reader'[t] = reader[t] /\ flag'[t] = flag[t]
      /\ ctl'[t] = ctl[t] /\ worker'[t] = worker[t] /\ chan'[t] = chan[t]
      /\ active'[t] = active[t] /\ queued'[t] = queued[t] /\ closer'[t] = closer[t]
  BY Known DEF SshAttach, actorVars, controlVars, mapVars, ActorTypeOK
<1>3. ActorSound(t)'
  BY <1>2, Known DEF ActorSound, Alive
<1>4. CountExact(t)'
  BY <1>2, Known DEF CountExact, Alive, Midway, ActorSound
<1>5. Kept(t)
  BY <1>2, Known DEF Kept, Sealed, Settled, Working, Alive, ActorSound
<1>6. Told(t)
  BY <1>2, Known DEF Told, Working, Alive
<1> QED
  BY <1>1, <1>3, <1>4, <1>5, <1>6 DEF Effect

(* A reader that starts in a removed session finds its switch off.         *)
LEMMA StartReaderEffect ==
    ASSUME LifecycleInv, NEW t \in Sessions, StartReader(t)
    PROVE  Effect(t)
<1>1. ActorTypeOK' /\ OthersStay(t)
  BY Known DEF StartReader, actorVars, controlVars, mapVars, ActorTypeOK, OthersStay
<1>2. /\ place' = place
      /\ pty'[t] = pty[t] /\ flag'[t] = flag[t] /\ ctl'[t] = ctl[t]
      /\ worker'[t] = worker[t] /\ chan'[t] = chan[t] /\ active'[t] = active[t]
      /\ queued'[t] = queued[t] /\ closer'[t] = closer[t]
      /\ ssh[t] = "attached"
      /\ ssh'[t] = "over"
      /\ reader'[t] = IF flag[t] THEN "startOpen" ELSE "startClosed"
  BY Known DEF StartReader, actorVars, controlVars, mapVars, ActorTypeOK
<1>3. ActorSound(t)'
  BY <1>2, Known DEF ActorSound, Alive
<1>4. CountExact(t)'
  BY <1>2, Known DEF CountExact, Alive, Midway, ActorSound
<1>5. Kept(t)
  BY <1>2, Known DEF Kept, Sealed, Settled, Working, Alive, ActorSound
<1>6. Told(t)
  BY <1>2, Known DEF Told, Working, Alive
<1> QED
  BY <1>1, <1>3, <1>4, <1>5, <1>6 DEF Effect

(* The controller comes with an empty queue and with the switch that was   *)
(* read; a sealed session has it off.                                      *)
LEMMA PublishControllerEffect ==
    ASSUME LifecycleInv, NEW t \in Sessions, PublishController(t)
    PROVE  Effect(t)
BY Known, CommandsEmpty, MessagesOfQueues, SMTT(30) DEF PublishController, Controller,
   Worker, mapVars,
    Effect,
    ActorTypeOK, OthersStay, ActorSound, CountExact, Midway, Kept, Told, Alive,
    Sealed, Settled, Working

(* A child says nothing of the actor.                                      *)
LEMMA ChildExitsEffect ==
    ASSUME LifecycleInv, NEW t \in Sessions, ChildExits(t)
    PROVE  Effect(t)
BY Known DEF ChildExits, actorVars, controlVars, mapVars, Effect,
    ActorTypeOK, OthersStay, ActorSound, CountExact, Midway, Kept, Told, Alive,
    Sealed, Settled, Working

------------------------------------------------------------------------------
(* The reader.                                                             *)

(* Only a session that is not sealed passes the first test.                *)
LEMMA ReadCommandEffect ==
    ASSUME LifecycleInv, NEW t \in Sessions, ReadCommand(t)
    PROVE  Effect(t)
<1>1. ActorTypeOK' /\ OthersStay(t)
  BY Known DEF ReadCommand, controlVars, mapVars, ActorTypeOK, OthersStay
<1>2. /\ place' = place
      /\ ssh'[t] = ssh[t] /\ pty'[t] = pty[t] /\ flag'[t] = flag[t]
      /\ ctl'[t] = ctl[t] /\ worker'[t] = worker[t] /\ chan'[t] = chan[t]
      /\ active'[t] = active[t] /\ queued'[t] = queued[t] /\ closer'[t] = closer[t]
      /\ reader[t] = "idle" /\ flag[t] /\ ctl[t] = "open"
      /\ reader'[t] = "count"
  BY Known DEF ReadCommand, controlVars, mapVars, ActorTypeOK
<1>3. ActorSound(t)'
  BY <1>2, Known DEF ActorSound, Alive
<1>4. CountExact(t)'
  BY <1>2, Known DEF CountExact, Alive, Midway, ActorSound
<1>5. Kept(t)
  BY <1>2, Known DEF Kept, Sealed, Settled, Working, Alive, ActorSound
<1>6. Told(t)
  BY <1>2, Known DEF Told, Working, Alive
<1> QED
  BY <1>1, <1>3, <1>4, <1>5, <1>6 DEF Effect

(* The counter has room for one more: a queue that is full, a command in   *)
(* the worker's hands and this one.                                        *)
LEMMA CountQueuedEffect ==
    ASSUME LifecycleInv, NEW t \in Sessions, CountQueued(t)
    PROVE  Effect(t)
<1>1. ActorTypeOK' /\ OthersStay(t)
  BY Known DEF CountQueued, mapVars, ActorTypeOK, OthersStay
<1>2. /\ place' = place
      /\ ssh'[t] = ssh[t] /\ pty'[t] = pty[t] /\ flag'[t] = flag[t]
      /\ ctl'[t] = ctl[t] /\ worker'[t] = worker[t] /\ chan'[t] = chan[t]
      /\ active'[t] = active[t] /\ closer'[t] = closer[t]
      /\ reader[t] = "count"
      /\ reader'[t] = "recheck"
      /\ queued'[t] = (queued[t] + 1) % CounterSize
  BY Known DEF CountQueued, mapVars, ActorTypeOK
<1>3. ActorSound(t)'
  BY <1>2, Known DEF ActorSound, Alive
<1>4. CountExact(t)'
  <2> SUFFICES ASSUME Alive(t) PROVE CountExact(t)'
    BY <1>2 DEF CountExact, Alive
  <2>1. queued[t] \in Nat /\ Cardinality(CommandsOf(chan[t])) \in Nat
    BY Known DEF ActorTypeOK
  <2>2. ~Midway(t) /\ Midway(t)'
    BY <1>2 DEF Midway
  <2>3. CASE worker[t] = "work"
    <3>1. queued[t] = Cardinality(CommandsOf(chan[t])) + 1
      BY <2>1, <2>2, <2>3, Known DEF CountExact
    <3>2. queued[t] + 1 \in 0..(CounterSize - 1)
      BY <3>1, Known
    <3>3. queued'[t] = queued[t] + 1
      BY <1>2, <3>2, Known, SmallCount
    <3> QED
      BY <1>2, <2>1, <2>2, <2>3, <3>1, <3>3 DEF CountExact
  <2>4. CASE worker[t] # "work"
    <3>1. queued[t] = Cardinality(CommandsOf(chan[t])) + 0
      BY <2>1, <2>2, <2>4, Known DEF CountExact
    <3>2. queued[t] + 1 \in 0..(CounterSize - 1)
      BY <3>1, Known
    <3>3. queued'[t] = queued[t] + 1
      BY <1>2, <3>2, Known, SmallCount
    <3> QED
      BY <1>2, <2>1, <2>2, <2>4, <3>1, <3>3 DEF CountExact
  <2> QED
    BY <2>3, <2>4
<1>5. Kept(t)
  BY <1>2, Known DEF Kept, Sealed, Settled, Working, Alive, ActorSound
<1>6. Told(t)
  BY <1>2, Known DEF Told, Working, Alive
<1> QED
  BY <1>1, <1>3, <1>4, <1>5, <1>6 DEF Effect

(* What passes the second test too was never sealed.                       *)
LEMMA RecheckEffect ==
    ASSUME LifecycleInv, NEW t \in Sessions, Recheck(t)
    PROVE  Effect(t)
BY Known DEF Recheck, AfterRecheck, controlVars, mapVars, Effect,
    ActorTypeOK, OthersStay, ActorSound, CountExact, Midway, Kept, Told, Alive,
    Sealed, Settled, Working

(* The command that is taken back has been counted.                        *)
LEMMA UncountQueuedEffect ==
    ASSUME LifecycleInv, NEW t \in Sessions, UncountQueued(t)
    PROVE  Effect(t)
<1>1. ActorTypeOK' /\ OthersStay(t)
  BY Known DEF UncountQueued, mapVars, ActorTypeOK, OthersStay
<1>2. /\ place' = place
      /\ ssh'[t] = ssh[t] /\ pty'[t] = pty[t] /\ flag'[t] = flag[t]
      /\ ctl'[t] = ctl[t] /\ worker'[t] = worker[t] /\ chan'[t] = chan[t]
      /\ active'[t] = active[t] /\ closer'[t] = closer[t]
      /\ reader[t] = "uncount"
      /\ reader'[t] = "idle"
      /\ queued'[t] = (queued[t] - 1) % CounterSize
  BY Known DEF UncountQueued, mapVars, ActorTypeOK
<1>3. ActorSound(t)'
  BY <1>2, Known DEF ActorSound, Alive
<1>4. CountExact(t)'
  <2> SUFFICES ASSUME Alive(t) PROVE CountExact(t)'
    BY <1>2 DEF CountExact, Alive
  <2>1. queued[t] \in Nat /\ Cardinality(CommandsOf(chan[t])) \in Nat
    BY Known DEF ActorTypeOK
  <2>2. Midway(t) /\ ~Midway(t)'
    BY <1>2 DEF Midway
  <2>3. CASE worker[t] = "work"
    <3>1. queued[t] = Cardinality(CommandsOf(chan[t])) + 2
      BY <2>1, <2>2, <2>3, Known DEF CountExact
    <3>2. queued[t] - 1 \in 0..(CounterSize - 1)
      BY <3>1, Known
    <3>3. queued'[t] = queued[t] - 1
      BY <1>2, <3>2, Known, SmallCount
    <3> QED
      BY <1>2, <2>1, <2>2, <2>3, <3>1, <3>3 DEF CountExact
  <2>4. CASE worker[t] # "work"
    <3>1. queued[t] = Cardinality(CommandsOf(chan[t])) + 1
      BY <2>1, <2>2, <2>4, Known DEF CountExact
    <3>2. queued[t] - 1 \in 0..(CounterSize - 1)
      BY <3>1, Known
    <3>3. queued'[t] = queued[t] - 1
      BY <1>2, <3>2, Known, SmallCount
    <3> QED
      BY <1>2, <2>1, <2>2, <2>4, <3>1, <3>3 DEF CountExact
  <2> QED
    BY <2>3, <2>4
<1>5. Kept(t)
  BY <1>2, Known DEF Kept, Sealed, Settled, Working, Alive, ActorSound
<1>6. Told(t)
  BY <1>2, Known DEF Told, Working, Alive
<1> QED
  BY <1>1, <1>3, <1>4, <1>5, <1>6 DEF Effect

(* The command moves from the reader's hands into the queue.               *)
LEMMA SendCommandEffect ==
    ASSUME LifecycleInv, NEW t \in Sessions, SendCommand(t)
    PROVE  Effect(t)
<1>1. ActorTypeOK' /\ OthersStay(t)
  BY Known, CommandsAppend DEF SendCommand, HasRoom, mapVars, Messages, ActorTypeOK,
     OthersStay
<1>2. /\ place' = place
      /\ ssh'[t] = ssh[t] /\ pty'[t] = pty[t] /\ flag'[t] = flag[t]
      /\ ctl'[t] = ctl[t] /\ worker'[t] = worker[t] /\ active'[t] = active[t]
      /\ queued'[t] = queued[t] /\ closer'[t] = closer[t]
      /\ reader[t] = "send" /\ worker[t] # "gone"
      /\ reader'[t] = "idle"
      /\ chan'[t] = Append(chan[t], "command")
  BY Known DEF SendCommand, HasRoom, mapVars, Messages, ActorTypeOK
<1>3. ActorSound(t)'
  BY <1>2, Known, MessagesOfQueues DEF ActorSound, Alive, Messages, Closers
<1>4. CountExact(t)'
  <2>1. Midway(t) /\ ~Midway(t)' /\ (Alive(t)' <=> Alive(t))
    BY <1>2 DEF Midway, Alive
  <2>2. /\ Cardinality(CommandsOf(chan[t])) \in Nat
        /\ Cardinality(CommandsOf(chan'[t])) = Cardinality(CommandsOf(chan[t])) + 1
    BY <1>2, Known, CommandsAppend DEF Messages
  <2>3. CASE worker[t] = "work"
    BY <1>2, <2>1, <2>2, <2>3, Known DEF CountExact
  <2>4. CASE worker[t] # "work"
    BY <1>2, <2>1, <2>2, <2>4, Known DEF CountExact
  <2> QED
    BY <2>3, <2>4
<1>5. Kept(t)
  BY <1>2, Known, CommandsAppend DEF Kept, Sealed, Settled, Working, Alive, ActorSound
<1>6. Told(t)
  BY <1>2, Known DEF Told, Working, Alive
<1> QED
  BY <1>1, <1>3, <1>4, <1>5, <1>6 DEF Effect

(* A worker that has returned counts no more.                              *)
LEMMA SendCommandFailsEffect ==
    ASSUME LifecycleInv, NEW t \in Sessions, SendCommandFails(t)
    PROVE  Effect(t)
BY Known DEF SendCommandFails, Decremented, mapVars, Effect,
    ActorTypeOK, OthersStay, ActorSound, CountExact, Midway, Kept, Told, Alive,
    Sealed, Settled, Working

(* A reader at EOF reads no more commands.                                 *)
LEMMA ReaderEofEffect ==
    ASSUME LifecycleInv, NEW t \in Sessions, ReaderEof(t)
    PROVE  Effect(t)
<1>1. ActorTypeOK' /\ OthersStay(t)
  BY Known DEF ReaderEof, Switched, mapVars, Closers, ActorTypeOK, OthersStay
<1>2. /\ place' = place
      /\ ssh'[t] = ssh[t] /\ pty'[t] = pty[t] /\ flag'[t] = flag[t]
      /\ worker'[t] = worker[t] /\ chan'[t] = chan[t] /\ active'[t] = active[t]
      /\ queued'[t] = queued[t]
      /\ reader[t] = "idle"
      /\ closer'[t]["destroy"] = closer[t]["destroy"]
      /\ closer'[t]["eof"] = IF ctl[t] = "none" THEN "done" ELSE "sending"
      /\ reader'[t] = "eof"
      /\ ctl'[t] = IF ctl[t] = "none" THEN "none" ELSE "closed"
  BY Known DEF ReaderEof, Switched, mapVars, Closers, ActorTypeOK
<1>3. ActorSound(t)'
  <2>1. Alive(t)' <=> Alive(t)
    BY <1>2 DEF Alive
  <2>2. ASSUME Alive(t), NEW k \in MessagesOf(chan[t]) \cap Closers
        PROVE  closer'[t][k] = "waiting"
    <3>1. closer[t][k] = "waiting"
      BY <2>2, Known DEF ActorSound
    <3>2. closer[t]["eof"] = "no"
      BY <1>2, Known DEF ActorSound
    <3> QED
      BY <1>2, <2>2, <3>1, <3>2 DEF Closers
  <2> QED
    BY <1>2, <2>1, <2>2, Known DEF ActorSound, Closers
<1>4. CountExact(t)'
  <2>1. (Midway(t)' <=> Midway(t)) /\ (Alive(t)' <=> Alive(t))
    BY <1>2 DEF Midway, Alive
  <2> QED
    BY <1>2, <2>1, Known DEF CountExact
<1>5. Kept(t)
  BY <1>2, Known DEF Kept, Sealed, Settled, Working, Alive, ActorSound
<1>6. Told(t)
  BY <1>2, Known DEF Told, Working, Alive
<1> QED
  BY <1>1, <1>3, <1>4, <1>5, <1>6 DEF Effect

------------------------------------------------------------------------------
(* The worker.                                                             *)

(* A sealed session with a command in its queue was not settled.           *)
LEMMA RecvCommandEffect ==
    ASSUME LifecycleInv, NEW t \in Sessions, RecvCommand(t)
    PROVE  Effect(t)
<1>1. ActorTypeOK' /\ OthersStay(t)
  BY Known, CommandsTail DEF RecvCommand, NextIs, mapVars, Messages, ActorTypeOK, OthersStay
<1>2. /\ place' = place
      /\ ssh'[t] = ssh[t] /\ pty'[t] = pty[t] /\ reader'[t] = reader[t]
      /\ flag'[t] = flag[t] /\ ctl'[t] = ctl[t] /\ queued'[t] = queued[t]
      /\ closer'[t] = closer[t]
      /\ worker[t] = "recv" /\ chan[t] # <<>> /\ Head(chan[t]) = "command"
      /\ worker'[t] = "work"
      /\ chan'[t] = Tail(chan[t])
  BY Known DEF RecvCommand, NextIs, mapVars, Messages, ActorTypeOK
<1>3. ActorSound(t)'
  BY <1>2, Known, MessagesOfQueues DEF ActorSound, Alive
<1>4. CountExact(t)'
  <2>1. Midway(t)' <=> Midway(t)
    BY <1>2 DEF Midway
  <2>2. /\ Cardinality(CommandsOf(Tail(chan[t]))) \in Nat
        /\ Cardinality(CommandsOf(chan[t])) = Cardinality(CommandsOf(Tail(chan[t]))) + 1
    BY <1>2, Known, CommandsTail, CommandsFinite
  <2>3. Alive(t) /\ worker[t] # "work"
    BY <1>2 DEF Alive
  <2>4. CASE Midway(t)
    BY <1>2, <2>1, <2>2, <2>3, <2>4, Known DEF CountExact
  <2>5. CASE ~Midway(t)
    BY <1>2, <2>1, <2>2, <2>3, <2>5, Known DEF CountExact
  <2> QED
    BY <2>4, <2>5
<1>5. Kept(t)
  BY <1>2, Known, CommandsTail DEF Kept, Sealed, Settled, Working, Alive, ActorSound
<1>6. Told(t)
  BY <1>2, Known, CommandsTail DEF Told, Working, Alive
<1> QED
  BY <1>1, <1>3, <1>4, <1>5, <1>6 DEF Effect

(* What the worker had in hand is no longer counted.                       *)
LEMMA FinishCommandEffect ==
    ASSUME LifecycleInv, NEW t \in Sessions, FinishCommand(t)
    PROVE  Effect(t)
BY Known DEF FinishCommand, Decremented, mapVars, Effect,
    ActorTypeOK, OthersStay, ActorSound, CountExact, Midway, Kept, Told, Alive,
    Sealed, Settled, Working

(* A transfer ends and brings no work.                                     *)
LEMMA EndTransfersEffect ==
    ASSUME LifecycleInv, NEW t \in Sessions, EndTransfers(t)
    PROVE  Effect(t)
BY Known DEF EndTransfers, mapVars, Effect,
    ActorTypeOK, OthersStay, ActorSound, CountExact, Midway, Kept, Told, Alive,
    Sealed, Settled, Working

(* A worker that fails has no work.                                        *)
LEMMA WorkerFailsEffect ==
    ASSUME LifecycleInv, NEW t \in Sessions, WorkerFails(t)
    PROVE  Effect(t)
BY Known DEF WorkerFails, mapVars, Effect,
    ActorTypeOK, OthersStay, ActorSound, CountExact, Midway, Kept, Told, Alive,
    Sealed, Settled, Working

(* Who is told by the worker has asked, and the worker takes nothing more. *)
LEMMA RecvShutdownEffect ==
    ASSUME LifecycleInv, NEW t \in Sessions, RecvShutdown(t)
    PROVE  Effect(t)
<1> USE DEF RecvShutdown, NextIs, mapVars, Messages, Closers
<1>1. ActorTypeOK'
  BY Known, CommandsTail DEF ActorTypeOK
<1>2. OthersStay(t)
  BY Known DEF ActorTypeOK, OthersStay
<1>3. ActorSound(t)'
  BY Known, MessagesOfQueues DEF ActorTypeOK, ActorSound, Alive
<1>4. CountExact(t)'
  BY Known DEF ActorTypeOK, ActorSound, CountExact, Alive, Midway
<1>5. Kept(t)
  BY Known DEF ActorTypeOK, ActorSound, Kept, Sealed, Settled, Working, Alive
<1>6. Told(t)
  BY Known, MessagesOfQueues DEF ActorTypeOK, ActorSound, Told, Working, Alive
<1> QED
  BY <1>1, <1>2, <1>3, <1>4, <1>5, <1>6 DEF Effect

(* The resets of a worker that returns.                                    *)
LEMMA ResetActiveEffect ==
    ASSUME LifecycleInv, NEW t \in Sessions, ResetActive(t)
    PROVE  Effect(t)
BY Known DEF ResetActive, mapVars, Effect,
    ActorTypeOK, OthersStay, ActorSound, CountExact, Midway, Kept, Told, Alive,
    Sealed, Settled, Working

(* And of its count.                                                       *)
LEMMA ResetQueuedEffect ==
    ASSUME LifecycleInv, NEW t \in Sessions, ResetQueued(t)
    PROVE  Effect(t)
BY Known DEF ResetQueued, mapVars, Effect,
    ActorTypeOK, OthersStay, ActorSound, CountExact, Midway, Kept, Told, Alive,
    Sealed, Settled, Working

(* And the drop of its queue, which tells all who wait.                    *)
LEMMA CloseReceiverEffect ==
    ASSUME LifecycleInv, NEW t \in Sessions, CloseReceiver(t)
    PROVE  Effect(t)
<1> USE DEF CloseReceiver, mapVars, Closers, Messages
<1>1. ActorTypeOK'
  BY Known, CommandsEmpty DEF ActorTypeOK
<1>2. OthersStay(t)
  BY Known, CommandsEmpty DEF ActorTypeOK, OthersStay
<1>3. ActorSound(t)'
  BY Known, MessagesOfQueues DEF ActorTypeOK, ActorSound, Alive
<1>4. CountExact(t)'
  BY Known, CommandsEmpty DEF ActorTypeOK, ActorSound, CountExact, Alive, Midway
<1>5. Kept(t)
  BY Known, CommandsEmpty DEF ActorTypeOK, ActorSound, Kept, Sealed, Settled, Working, Alive
<1>6. Told(t)
  BY Known, CommandsEmpty DEF ActorTypeOK, ActorSound, Told, Working, Alive
<1> QED
  BY <1>1, <1>2, <1>3, <1>4, <1>5, <1>6 DEF Effect

------------------------------------------------------------------------------
(* The end of a session.                                                   *)

(* A destruction switches the controller off again and asks it to stop.    *)
LEMMA DrainActorEffect ==
    ASSUME LifecycleInv, NEW t \in Sessions, DrainActor(t)
    PROVE  Effect(t)
BY Known DEF DrainActor, Switched, mapVars, Closers,
    Effect,
    ActorTypeOK, OthersStay, ActorSound, CountExact, Midway, Kept, Told, Alive,
    Sealed, Settled, Working

(* The question is no command.                                             *)
LEMMA SendShutdownEffect ==
    ASSUME LifecycleInv, NEW t \in Sessions, NEW k \in Closers, SendShutdown(t, k)
    PROVE  Effect(t)
<1> USE DEF SendShutdown, HasRoom, mapVars, Messages, Closers
<1>1. ActorTypeOK'
  BY Known, CommandsAppend DEF ActorTypeOK
<1>2. OthersStay(t)
  BY Known DEF ActorTypeOK, OthersStay
<1>3. ActorSound(t)'
  BY Known, MessagesOfQueues DEF ActorTypeOK, ActorSound, Alive
<1>4. CountExact(t)'
  BY Known, CommandsAppend DEF ActorTypeOK, ActorSound, CountExact, Alive, Midway
<1>5. Kept(t)
  BY Known, CommandsAppend DEF ActorTypeOK, ActorSound, Kept, Sealed, Settled, Working,
     Alive
<1>6. Told(t)
  BY Known, CommandsAppend DEF ActorTypeOK, ActorSound, Told, Working, Alive
<1> QED
  BY <1>1, <1>2, <1>3, <1>4, <1>5, <1>6 DEF Effect

(* A worker that has returned has no work.                                 *)
LEMMA SendShutdownFailsEffect ==
    ASSUME LifecycleInv, NEW t \in Sessions, NEW k \in Closers, SendShutdownFails(t, k)
    PROVE  Effect(t)
BY Known DEF SendShutdownFails, mapVars, Closers, Effect,
    ActorTypeOK, OthersStay, ActorSound, CountExact, Midway, Kept, Told, Alive,
    Sealed, Settled, Working

------------------------------------------------------------------------------
(* Every step of a session by itself has no more than its effect, and none *)
(* but the last of a destruction touches the map.                          *)

LEMMA TaskEffect ==
    ASSUME LifecycleInv, NEW t \in Sessions, SessionTask(t), ~Undrain(t)
    PROVE  Effect(t)
BY SshReturnsEffect, SshAttachEffect, StartReaderEffect, PublishControllerEffect,
   ChildExitsEffect, ReadCommandEffect, CountQueuedEffect, RecheckEffect,
   UncountQueuedEffect, SendCommandEffect, SendCommandFailsEffect, ReaderEofEffect,
   RecvCommandEffect, FinishCommandEffect, EndTransfersEffect, WorkerFailsEffect,
   RecvShutdownEffect, ResetActiveEffect, ResetQueuedEffect, CloseReceiverEffect,
   DrainActorEffect, SendShutdownEffect, SendShutdownFailsEffect
   DEF SessionTask, SshTask, Submitting, WorkerTask, ShutdownTask

LEMMA TaskMap ==
    ASSUME NEW t \in Sessions, SessionTask(t), ~Undrain(t)
    PROVE  UNCHANGED mapVars
BY DEF SessionTask, SshTask, Submitting, WorkerTask, ShutdownTask, SshReturns, SshAttach,
       StartReader, PublishController, ChildExits, ReadCommand, CountQueued, Recheck,
       UncountQueued, SendCommand, SendCommandFails, ReaderEof, RecvCommand,
       FinishCommand, EndTransfers, WorkerFails, RecvShutdown, ResetActive, ResetQueued,
       CloseReceiver, DrainActor, SendShutdown, SendShutdownFails, mapVars

(* The sets of the gate and the map are of the same sessions.              *)
LEMMA MapKept ==
    ASSUME LifecycleInv, UNCHANGED mapVars
    PROVE  MapTypeOK'
BY DEF LifecycleInv, LifecycleTypeOK, MapTypeOK, mapVars, Mapped, GateType

LEMMA TaskSound ==
    ASSUME LifecycleInv, NEW t \in Sessions, SessionTask(t), ~Undrain(t)
    PROVE  LifecycleInv'
<1>1. UNCHANGED mapVars
  BY TaskMap
<1>2. Effect(t) /\ MapTypeOK'
  BY <1>1, TaskEffect, MapKept
<1>3. UNCHANGED <<place, draining, gate>>
  BY <1>1 DEF mapVars
<1> QED
  BY <1>2, <1>3, EffectSound

------------------------------------------------------------------------------
(* The holder of the gate: what no step of its own touches, and what the   *)
(* two switches of a session are for.                                      *)

(* A step that leaves the actors alone.                                    *)
LEMMA Untouched ==
    ASSUME LifecycleInv, UNCHANGED <<ssh, pty, actorVars>>
    PROVE  /\ ActorTypeOK'
           /\ \A x \in Sessions :
                /\ (place'[x] = "new" => place[x] = "new") => ActorSound(x)'
                /\ CountExact(x)'
                /\ (Sealed(x)' <=> Sealed(x)) /\ (Settled(x)' <=> Settled(x))
                /\ Working(x)' <=> Working(x)
                /\ closer'[x] = closer[x]
<1>1. ActorTypeOK /\ UNCHANGED <<ssh, pty, reader, flag, ctl, worker, chan, active,
                                 queued, closer>>
  BY DEF LifecycleInv, LifecycleTypeOK, actorVars, controlVars
<1>2. ASSUME NEW x \in Sessions
      PROVE  /\ (place'[x] = "new" => place[x] = "new") => ActorSound(x)'
             /\ CountExact(x)'
             /\ (Sealed(x)' <=> Sealed(x)) /\ (Settled(x)' <=> Settled(x))
             /\ Working(x)' <=> Working(x)
  <2>1. ActorSound(x) /\ CountExact(x)
    BY DEF LifecycleInv
  <2>2. (Alive(x)' <=> Alive(x)) /\ (Midway(x)' <=> Midway(x))
    BY <1>1 DEF Alive, Midway
  <2>3. (place'[x] = "new" => place[x] = "new") => ActorSound(x)'
    BY <1>1, <2>1, <2>2 DEF ActorSound
  <2>4. CountExact(x)'
    BY <1>1, <2>1, <2>2 DEF CountExact
  <2>5. (Sealed(x)' <=> Sealed(x)) /\ (Settled(x)' <=> Settled(x))
        /\ (Working(x)' <=> Working(x))
    BY <1>1, <2>2 DEF Sealed, Settled, Working
  <2> QED
    BY <2>3, <2>4, <2>5
<1>3. ActorTypeOK'
  BY <1>1 DEF ActorTypeOK
<1> QED
  BY <1>1, <1>2, <1>3

(* A step that sets the switches of one session: no work comes or goes,    *)
(* and a session that is switched off is sealed, whatever its reader does. *)
LEMMA Switching ==
    ASSUME LifecycleInv, NEW s \in Sessions, NEW on \in BOOLEAN, SetAccepting(s, on),
           UNCHANGED <<ssh, pty, reader, worker, chan, active, queued, closer>>
    PROVE  /\ ActorTypeOK'
           /\ ~on => Sealed(s)'
           /\ \A x \in Sessions :
                /\ (place'[x] = "new" => place[x] = "new") => ActorSound(x)'
                /\ CountExact(x)'
                /\ x # s => (Sealed(x)' <=> Sealed(x))
                /\ Settled(x)' <=> Settled(x)
                /\ Working(x)' <=> Working(x)
                /\ closer'[x] = closer[x]
<1>1. ActorTypeOK
  BY DEF LifecycleInv, LifecycleTypeOK
<1>2. /\ flag' = [flag EXCEPT ![s] = on]
      /\ ctl' = [ctl EXCEPT ![s] = Switched(s, on)]
      /\ Switched(s, on) \in {"none", "open", "closed"}
      /\ Switched(s, on) = "none" <=> ctl[s] = "none"
      /\ ~on => Switched(s, on) # "open"
  BY <1>1 DEF SetAccepting, Switched, ActorTypeOK
<1>3. ASSUME NEW x \in Sessions
      PROVE  /\ (place'[x] = "new" => place[x] = "new") => ActorSound(x)'
             /\ CountExact(x)'
             /\ x # s => (Sealed(x)' <=> Sealed(x))
             /\ Settled(x)' <=> Settled(x)
             /\ Working(x)' <=> Working(x)
  <2>1. ActorSound(x) /\ CountExact(x)
    BY DEF LifecycleInv
  <2>2. /\ (Alive(x)' <=> Alive(x)) /\ (Midway(x)' <=> Midway(x))
        /\ ctl'[x] = "none" <=> ctl[x] = "none"
        /\ x # s => flag'[x] = flag[x] /\ ctl'[x] = ctl[x]
    BY <1>1, <1>2 DEF Alive, Midway, ActorTypeOK
  <2>3. (place'[x] = "new" => place[x] = "new") => ActorSound(x)'
    BY <2>1, <2>2 DEF ActorSound
  <2>4. CountExact(x)'
    BY <2>1, <2>2 DEF CountExact
  <2>5. x # s => (Sealed(x)' <=> Sealed(x))
    BY <2>2 DEF Sealed
  <2>6. (Settled(x)' <=> Settled(x)) /\ (Working(x)' <=> Working(x))
    BY <2>2 DEF Settled, Working
  <2> QED
    BY <2>3, <2>4, <2>5, <2>6
<1>4. ~on => Sealed(s)'
  BY <1>1, <1>2 DEF Sealed, ActorTypeOK
<1>5. ActorTypeOK'
  BY <1>1, <1>2 DEF ActorTypeOK
<1> QED
  BY <1>3, <1>4, <1>5

(* What such a step has to see to.                                         *)
LEMMA GateSound ==
    ASSUME LifecycleInv, ActorTypeOK', MapTypeOK', CleanupSound', RelaunchSound',
           \A x \in Sessions : /\ ActorSound(x)' /\ CountExact(x)'
                               /\ Settled(x)' <=> Settled(x)
                               /\ Working(x)' <=> Working(x)
                               /\ closer'[x] = closer[x],
           UNCHANGED <<place, draining>>,
           \A x \in Sessions : place[x] = "removed" /\ Sealed(x) => Sealed(x)'
    PROVE  LifecycleInv'
<1>1. ASSUME NEW x \in Sessions
      PROVE  RemovedSound(x)'
  BY DEF RemovedSound, LifecycleInv
<1> QED
  BY <1>1 DEF LifecycleInv, LifecycleTypeOK

------------------------------------------------------------------------------
(* The steps of a clean-up pass.                                           *)

(* A pass begins with nothing judged.                                      *)
LEMMA BeginCleanupSound ==
    ASSUME LifecycleInv, BeginCleanup
    PROVE  LifecycleInv'
<1>1. UNCHANGED <<ssh, pty, actorVars, place, draining>> /\ MapTypeOK
  BY DEF BeginCleanup, LifecycleInv, LifecycleTypeOK
<1>2. Mapped' = Mapped /\ Mapped \subseteq Sessions
  BY <1>1 DEF Mapped
<1>3. MapTypeOK'
  BY <1>1, <1>2 DEF BeginCleanup, MapTypeOK, GateType, Free, At
<1>4. CleanupSound'
  BY <1>1, <1>2, Untouched DEF BeginCleanup, CleanupSound, MapTypeOK, GateType, Free, At,
     LifecycleInv, LifecycleTypeOK
<1>5. RelaunchSound'
  BY <1>1, <1>2, Untouched DEF BeginCleanup, RelaunchSound, CleanupSound, MapTypeOK,
     GateType, Free, At, LifecycleInv, LifecycleTypeOK
<1> QED
  BY <1>1, <1>3, <1>4, <1>5, Untouched, GateSound DEF MapTypeOK


(* What runs is passed by.                                                 *)
LEMMA SkipRunningSound ==
    ASSUME LifecycleInv, NEW s \in Sessions, SkipRunning(s)
    PROVE  LifecycleInv'
<1>1. UNCHANGED <<ssh, pty, actorVars, place, draining>> /\ MapTypeOK
  BY DEF SkipRunning, LifecycleInv, LifecycleTypeOK
<1>2. Mapped' = Mapped /\ Mapped \subseteq Sessions
  BY <1>1 DEF Mapped
<1>3. MapTypeOK'
  BY <1>1, <1>2 DEF SkipRunning, MapTypeOK, GateType, Free, At
<1>4. CleanupSound'
  BY <1>1, <1>2, Untouched DEF SkipRunning, CleanupSound, MapTypeOK, GateType, Free, At,
     LifecycleInv, LifecycleTypeOK
<1>5. RelaunchSound'
  BY <1>1, <1>2, Untouched DEF SkipRunning, RelaunchSound, CleanupSound, MapTypeOK,
     GateType, Free, At, LifecycleInv, LifecycleTypeOK
<1> QED
  BY <1>1, <1>3, <1>4, <1>5, Untouched, GateSound DEF MapTypeOK


(* What does not is sealed before it is looked at.                         *)
LEMMA QuiesceDeadSound ==
    ASSUME LifecycleInv, NEW s \in Sessions, QuiesceDead(s)
    PROVE  LifecycleInv'
<1>1. /\ UNCHANGED <<ssh, pty, reader, worker, chan, active, queued, closer, place, draining>>
      /\ SetAccepting(s, FALSE) /\ MapTypeOK /\ s \in gate.todo
  BY DEF QuiesceDead, LifecycleInv, LifecycleTypeOK
<1>2. Mapped' = Mapped /\ Mapped \subseteq Sessions
  BY <1>1 DEF Mapped
<1>3. MapTypeOK'
  <2>1. gate' = [gate EXCEPT !.todo = @ \ {s}, !.quiet = {s}]
    BY DEF QuiesceDead
  <2>2. gate' \in GateType
    BY <1>1, <2>1 DEF MapTypeOK, GateType
  <2>3. (gate.todo \cup gate.quiet \cup gate.seen \cup gate.dead)' \subseteq Mapped
    BY <1>1, <2>1 DEF MapTypeOK, GateType
  <2> QED
    BY <1>1, <1>2, <2>1, <2>2, <2>3 DEF MapTypeOK
<1>4. /\ ActorTypeOK'
      /\ \A x \in Sessions :
            /\ ActorSound(x)' /\ CountExact(x)'
            /\ x # s => (Sealed(x)' <=> Sealed(x))
            /\ Settled(x)' <=> Settled(x)
            /\ Working(x)' <=> Working(x)
            /\ closer'[x] = closer[x]
  BY <1>1, Switching
<1>5. Sealed(s)'
  BY <1>1, Switching
<1>6. CleanupSound'
  BY <1>1, <1>2, <1>4, <1>5 DEF QuiesceDead, CleanupSound, MapTypeOK, GateType, At,
     LifecycleInv, LifecycleTypeOK
<1>7. RelaunchSound'
  BY <1>1, <1>2, <1>4, <1>5 DEF QuiesceDead, RelaunchSound, MapTypeOK, GateType, At,
     LifecycleInv, LifecycleTypeOK
<1>8. \A x \in Sessions : place[x] = "removed" /\ Sealed(x) => Sealed(x)'
  BY <1>4, <1>5
<1> QED
  BY <1>1, <1>3, <1>4, <1>6, <1>7, <1>8, GateSound


(* The first load.                                                         *)
LEMMA JudgeActiveSound ==
    ASSUME LifecycleInv, NEW s \in Sessions, JudgeActive(s)
    PROVE  LifecycleInv'
<1>1. UNCHANGED <<ssh, pty, actorVars, place, draining>> /\ MapTypeOK
  BY DEF JudgeActive, LifecycleInv, LifecycleTypeOK
<1>2. Mapped' = Mapped /\ Mapped \subseteq Sessions
  BY <1>1 DEF Mapped
<1>3. MapTypeOK'
  <2>1. CASE active[s]
    BY <1>1, <1>2, <2>1 DEF JudgeActive, MapTypeOK, GateType
  <2>2. CASE ~active[s]
    BY <1>1, <1>2, <2>2 DEF JudgeActive, MapTypeOK, GateType
  <2> QED
    BY <2>1, <2>2
<1>4. CleanupSound'
  BY <1>1, <1>2, Untouched DEF JudgeActive, CleanupSound, MapTypeOK, GateType, Free, At,
     LifecycleInv, LifecycleTypeOK
<1>5. RelaunchSound'
  BY <1>1, <1>2, Untouched DEF JudgeActive, RelaunchSound, CleanupSound, MapTypeOK,
     GateType, Free, At, LifecycleInv, LifecycleTypeOK
<1> QED
  BY <1>1, <1>3, <1>4, <1>5, Untouched, GateSound DEF MapTypeOK


(* A count of zero says that no command is on its way.                     *)
LEMMA CountedOut ==
    ASSUME LifecycleInv, NEW s \in Sessions, queued[s] = 0
    PROVE  Settled(s)
<1> SUFFICES ASSUME Alive(s)
             PROVE  reader[s] # "send" /\ CommandsOf(chan[s]) = {} /\ worker[s] = "recv"
  BY DEF Settled
<1>1. ~Midway(s)
  BY Known DEF CountExact
<1>2. worker[s] # "work"
  BY <1>1, Known DEF CountExact
<1>3. Cardinality(CommandsOf(chan[s])) = 0
  BY <1>1, <1>2, Known DEF CountExact
<1> QED
  BY <1>1, <1>2, <1>3, Known DEF Midway, Alive


(* The second: no command is counted, so there is none on its way.         *)
LEMMA JudgeQueuedSound ==
    ASSUME LifecycleInv, NEW s \in Sessions, JudgeQueued(s)
    PROVE  LifecycleInv'
<1>1. UNCHANGED <<ssh, pty, actorVars, place, draining>> /\ MapTypeOK /\ CountExact(s)
  BY DEF JudgeQueued, LifecycleInv, LifecycleTypeOK
<1>2. Mapped' = Mapped /\ Mapped \subseteq Sessions
  BY <1>1 DEF Mapped
<1>3. MapTypeOK'
  BY <1>1, <1>2 DEF JudgeQueued, MapTypeOK, GateType
<1>4. queued[s] = 0 => Settled(s)
  BY CountedOut
<1>5. CleanupSound'
  BY <1>1, <1>2, <1>4, Untouched DEF JudgeQueued, Reapable, CleanupSound, MapTypeOK,
     GateType, At, LifecycleInv, LifecycleTypeOK
<1>6. RelaunchSound'
  BY <1>1, <1>2, Untouched DEF JudgeQueued, RelaunchSound, MapTypeOK, GateType, At,
     LifecycleInv, LifecycleTypeOK
<1> QED
  BY <1>1, <1>3, <1>5, <1>6, Untouched, GateSound DEF MapTypeOK


(* What is taken out of the map is sealed and has no command on its way.   *)
LEMMA ReapSound ==
    ASSUME LifecycleInv, Reap
    PROVE  LifecycleInv'
<1>1. /\ UNCHANGED <<ssh, pty, actorVars, draining>> /\ MapTypeOK
      /\ gate.dead \subseteq Mapped /\ Mapped \subseteq Sessions /\ At("cleanup")
  BY DEF Reap, MapTypeOK, Mapped, LifecycleInv, LifecycleTypeOK
<1>2. \A x \in Sessions : place'[x] = IF x \in gate.dead THEN "removed" ELSE place[x]
  BY DEF Reap
<1>3. /\ ActorTypeOK'
      /\ \A x \in Sessions : ActorSound(x)' /\ CountExact(x)'
  BY <1>1, <1>2, Untouched
<1>4. gate' = Free
  BY DEF Reap
<1>5. MapTypeOK'
  BY <1>1, <1>4 DEF Reap, MapTypeOK, GateType, Free
<1>6. CleanupSound' /\ RelaunchSound'
  BY <1>4 DEF CleanupSound, RelaunchSound, Free, At
<1>7. ASSUME NEW x \in Sessions
      PROVE  RemovedSound(x)'
  <2>1. RemovedSound(x)
    BY DEF LifecycleInv
  <2>2. x \in gate.dead => Sealed(x) /\ Settled(x)
    BY DEF LifecycleInv, CleanupSound
  <2>3. /\ (Sealed(x)' <=> Sealed(x)) /\ (Settled(x)' <=> Settled(x))
        /\ (Working(x)' <=> Working(x)) /\ closer'[x] = closer[x]
    BY <1>1, Untouched
  <2> QED
    BY <1>1, <1>2, <2>1, <2>2, <2>3 DEF RemovedSound
<1> QED
  BY <1>3, <1>5, <1>6, <1>7 DEF LifecycleInv, LifecycleTypeOK


------------------------------------------------------------------------------
(* The steps of a relaunch.                                                *)

(* A relaunch begins with nothing checked.                                 *)
LEMMA BeginRelaunchSound ==
    ASSUME LifecycleInv, BeginRelaunch
    PROVE  LifecycleInv'
<1>1. UNCHANGED <<ssh, pty, actorVars, place, draining>> /\ MapTypeOK
  BY DEF BeginRelaunch, LifecycleInv, LifecycleTypeOK
<1>2. Mapped' = Mapped /\ Mapped \subseteq Sessions
  BY <1>1 DEF Mapped
<1>3. MapTypeOK'
  BY <1>1, <1>2 DEF BeginRelaunch, MapTypeOK, GateType, Free, At
<1>4. CleanupSound'
  BY <1>1, <1>2, Untouched DEF BeginRelaunch, CleanupSound, MapTypeOK, GateType, Free,
     At, LifecycleInv, LifecycleTypeOK
<1>5. RelaunchSound'
  BY <1>1, <1>2, Untouched DEF BeginRelaunch, RelaunchSound, CleanupSound, MapTypeOK,
     GateType, Free, At, LifecycleInv, LifecycleTypeOK
<1> QED
  BY <1>1, <1>3, <1>4, <1>5, Untouched, GateSound DEF MapTypeOK


(* One session after the other is sealed.                                  *)
LEMMA QuiesceOneSound ==
    ASSUME LifecycleInv, NEW s \in Sessions, QuiesceOne(s)
    PROVE  LifecycleInv'
<1>1. /\ UNCHANGED <<ssh, pty, reader, worker, chan, active, queued, closer, place, draining>>
      /\ SetAccepting(s, FALSE) /\ MapTypeOK /\ s \in gate.todo
  BY DEF QuiesceOne, LifecycleInv, LifecycleTypeOK
<1>2. Mapped' = Mapped /\ Mapped \subseteq Sessions
  BY <1>1 DEF Mapped
<1>3. MapTypeOK'
  BY <1>1, <1>2 DEF QuiesceOne, MapTypeOK, GateType
<1>4. /\ ActorTypeOK'
      /\ \A x \in Sessions :
            /\ ActorSound(x)' /\ CountExact(x)'
            /\ x # s => (Sealed(x)' <=> Sealed(x))
            /\ Settled(x)' <=> Settled(x)
            /\ Working(x)' <=> Working(x)
            /\ closer'[x] = closer[x]
  BY <1>1, Switching
<1>5. Sealed(s)'
  BY <1>1, Switching
<1>6. CleanupSound'
  BY <1>1, <1>2, <1>4, <1>5 DEF QuiesceOne, CleanupSound, MapTypeOK, GateType, At,
     LifecycleInv, LifecycleTypeOK
<1>7. RelaunchSound'
  BY <1>1, <1>2, <1>4, <1>5 DEF QuiesceOne, RelaunchSound, MapTypeOK, GateType, At,
     LifecycleInv, LifecycleTypeOK
<1>8. \A x \in Sessions : place[x] = "removed" /\ Sealed(x) => Sealed(x)'
  BY <1>4, <1>5
<1> QED
  BY <1>1, <1>3, <1>4, <1>6, <1>7, <1>8, GateSound


(* What drains is seen before anything is checked.                         *)
LEMMA ReadDrainingSound ==
    ASSUME LifecycleInv, ReadDraining
    PROVE  LifecycleInv'
<1>1. UNCHANGED <<ssh, pty, actorVars, place, draining>> /\ MapTypeOK
  BY DEF ReadDraining, LifecycleInv, LifecycleTypeOK
<1>2. Mapped' = Mapped /\ Mapped \subseteq Sessions
  BY <1>1 DEF Mapped
<1>3. MapTypeOK'
  BY <1>1, <1>2 DEF ReadDraining, MapTypeOK, GateType, Free, At
<1>4. CleanupSound'
  BY <1>1, <1>2, Untouched DEF ReadDraining, CleanupSound, MapTypeOK, GateType, Free, At,
     LifecycleInv, LifecycleTypeOK
<1>5. RelaunchSound'
  BY <1>1, <1>2, Untouched DEF ReadDraining, RelaunchSound, CleanupSound, MapTypeOK,
     GateType, Free, At, LifecycleInv, LifecycleTypeOK
<1> QED
  BY <1>1, <1>3, <1>4, <1>5, Untouched, GateSound DEF MapTypeOK


(* The first load.                                                         *)
LEMMA CheckActiveSound ==
    ASSUME LifecycleInv, NEW s \in Sessions, CheckActive(s)
    PROVE  LifecycleInv'
<1>1. UNCHANGED <<ssh, pty, actorVars, place, draining>> /\ MapTypeOK
  BY DEF CheckActive, LifecycleInv, LifecycleTypeOK
<1>2. Mapped' = Mapped /\ Mapped \subseteq Sessions
  BY <1>1 DEF Mapped
<1>3. MapTypeOK'
  <2> DEFINE todo == IF active[s] THEN gate.todo \ {s} ELSE gate.todo
             seen == IF active[s] THEN {} ELSE {s}
             busy == gate.busy \/ active[s]
  <2>1. /\ gate' = [gate EXCEPT !.todo = todo, !.seen = seen, !.busy = busy]
        /\ s \in gate.todo
    BY <1>1 DEF CheckActive, MapTypeOK, GateType
  <2>2. busy \in BOOLEAN
    OBVIOUS
  <2>3. todo \in SUBSET Mapped /\ seen \in SUBSET Mapped
    BY <1>1, <2>1 DEF MapTypeOK
  <2> HIDE DEF todo, seen, busy
  <2>4. gate' \in GateType
    BY <1>1, <1>2, <2>1, <2>2, <2>3 DEF MapTypeOK, GateType
  <2>5. gate'.todo = todo /\ gate'.seen = seen /\ gate'.quiet = gate.quiet
        /\ gate'.dead = gate.dead
    BY <1>1, <2>1 DEF MapTypeOK, GateType
  <2> QED
    BY <1>1, <1>2, <2>1, <2>3, <2>4, <2>5 DEF MapTypeOK
<1>4. CleanupSound'
  <2>1. /\ At("check") /\ At("check")' /\ gate.seen = {}
        /\ gate'.quiet = gate.quiet /\ gate'.dead = gate.dead
        /\ gate'.seen = IF active[s] THEN {} ELSE {s}
        /\ s \in Mapped
    BY <1>1 DEF CheckActive, MapTypeOK, GateType, At
  <2>2. Sealed(s)
    BY <2>1 DEF LifecycleInv, RelaunchSound
  <2>3. CleanupSound
    BY DEF LifecycleInv
  <2> QED
    BY <1>1, <1>2, <2>1, <2>2, <2>3, Untouched DEF CleanupSound, MapTypeOK, GateType, At
<1>5. RelaunchSound'
  BY <1>1, <1>2, Untouched DEF CheckActive, RelaunchSound, CleanupSound, MapTypeOK,
     GateType, Free, At, LifecycleInv, LifecycleTypeOK
<1> QED
  BY <1>1, <1>3, <1>4, <1>5, Untouched, GateSound DEF MapTypeOK


(* The second: no command is counted, so there is none on its way.         *)
LEMMA CheckQueuedSound ==
    ASSUME LifecycleInv, NEW s \in Sessions, CheckQueued(s)
    PROVE  LifecycleInv'
<1>1. UNCHANGED <<ssh, pty, actorVars, place, draining>> /\ MapTypeOK
  BY DEF CheckQueued, LifecycleInv, LifecycleTypeOK
<1>2. Mapped' = Mapped /\ Mapped \subseteq Sessions
  BY <1>1 DEF Mapped
<1>3. MapTypeOK'
  BY <1>1, <1>2 DEF CheckQueued, MapTypeOK, GateType
<1>4. queued[s] = 0 => Settled(s)
  BY CountedOut
<1>5. CleanupSound'
  BY <1>1, <1>2, Untouched DEF CheckQueued, CleanupSound, MapTypeOK, GateType, At,
     LifecycleInv, LifecycleTypeOK
<1>6. RelaunchSound'
  BY <1>1, <1>2, <1>4, Untouched DEF CheckQueued, RelaunchSound, MapTypeOK, GateType, At,
     LifecycleInv, LifecycleTypeOK
<1> QED
  BY <1>1, <1>3, <1>5, <1>6, Untouched, GateSound DEF MapTypeOK


(* All have been checked, and nobody was busy.                             *)
LEMMA DecideSound ==
    ASSUME LifecycleInv, Decide
    PROVE  LifecycleInv'
<1>1. UNCHANGED <<ssh, pty, actorVars, place, draining>> /\ MapTypeOK
  BY DEF Decide, LifecycleInv, LifecycleTypeOK
<1>2. Mapped' = Mapped /\ Mapped \subseteq Sessions
  BY <1>1 DEF Mapped
<1>3. MapTypeOK'
  BY <1>1, <1>2 DEF Decide, Resuming, MapTypeOK, GateType, Free, At
<1>4. CleanupSound'
  BY <1>1, <1>2, Untouched DEF Decide, Resuming, CleanupSound, MapTypeOK, GateType, Free,
     At, LifecycleInv, LifecycleTypeOK
<1>5. RelaunchSound'
  BY <1>1, <1>2, Untouched DEF Decide, Resuming, RelaunchSound, CleanupSound, MapTypeOK,
     GateType, Free, At, LifecycleInv, LifecycleTypeOK
<1> QED
  BY <1>1, <1>3, <1>4, <1>5, Untouched, GateSound DEF MapTypeOK


(* A relaunch that fails resumes the map.                                  *)
LEMMA RelaunchFailsSound ==
    ASSUME LifecycleInv, RelaunchFails
    PROVE  LifecycleInv'
<1>1. UNCHANGED <<ssh, pty, actorVars, place, draining>> /\ MapTypeOK
  BY DEF RelaunchFails, LifecycleInv, LifecycleTypeOK
<1>2. Mapped' = Mapped /\ Mapped \subseteq Sessions
  BY <1>1 DEF Mapped
<1>3. MapTypeOK'
  BY <1>1, <1>2 DEF RelaunchFails, Resuming, MapTypeOK, GateType, Free, At
<1>4. CleanupSound'
  BY <1>1, <1>2, Untouched DEF RelaunchFails, Resuming, CleanupSound, MapTypeOK,
     GateType, Free, At, LifecycleInv, LifecycleTypeOK
<1>5. RelaunchSound'
  BY <1>1, <1>2, Untouched DEF RelaunchFails, Resuming, RelaunchSound, CleanupSound,
     MapTypeOK, GateType, Free, At, LifecycleInv, LifecycleTypeOK
<1> QED
  BY <1>1, <1>3, <1>4, <1>5, Untouched, GateSound DEF MapTypeOK


(* Only sessions of the map are resumed.                                   *)
LEMMA ResumeOneSound ==
    ASSUME LifecycleInv, NEW s \in Sessions, ResumeOne(s)
    PROVE  LifecycleInv'
<1>1. /\ UNCHANGED <<ssh, pty, reader, worker, chan, active, queued, closer, place, draining>>
      /\ SetAccepting(s, TRUE) /\ MapTypeOK /\ s \in gate.todo
  BY DEF ResumeOne, LifecycleInv, LifecycleTypeOK
<1>2. Mapped' = Mapped /\ Mapped \subseteq Sessions
  BY <1>1 DEF Mapped
<1>3. MapTypeOK'
  BY <1>1, <1>2 DEF ResumeOne, MapTypeOK, GateType
<1>4. /\ ActorTypeOK'
      /\ \A x \in Sessions :
            /\ ActorSound(x)' /\ CountExact(x)'
            /\ x # s => (Sealed(x)' <=> Sealed(x))
            /\ Settled(x)' <=> Settled(x)
            /\ Working(x)' <=> Working(x)
            /\ closer'[x] = closer[x]
  BY <1>1, Switching
<1>5. place[s] = "mapped"
  BY <1>1, <1>2 DEF MapTypeOK, Mapped
<1>6. CleanupSound'
  BY <1>1, <1>2, <1>4, <1>5 DEF ResumeOne, CleanupSound, MapTypeOK, GateType, At,
     LifecycleInv, LifecycleTypeOK
<1>7. RelaunchSound'
  BY <1>1, <1>2, <1>4, <1>5 DEF ResumeOne, RelaunchSound, MapTypeOK, GateType, At,
     LifecycleInv, LifecycleTypeOK
<1>8. \A x \in Sessions : place[x] = "removed" /\ Sealed(x) => Sealed(x)'
  BY <1>4, <1>5
<1> QED
  BY <1>1, <1>3, <1>4, <1>6, <1>7, <1>8, GateSound


(* And lets the gate go.                                                   *)
LEMMA ReleaseGateSound ==
    ASSUME LifecycleInv, ReleaseGate
    PROVE  LifecycleInv'
<1>1. UNCHANGED <<ssh, pty, actorVars, place, draining>> /\ MapTypeOK
  BY DEF ReleaseGate, LifecycleInv, LifecycleTypeOK
<1>2. Mapped' = Mapped /\ Mapped \subseteq Sessions
  BY <1>1 DEF Mapped
<1>3. MapTypeOK'
  BY <1>1, <1>2 DEF ReleaseGate, MapTypeOK, GateType, Free, At
<1>4. CleanupSound'
  BY <1>1, <1>2, Untouched DEF ReleaseGate, CleanupSound, MapTypeOK, GateType, Free, At,
     LifecycleInv, LifecycleTypeOK
<1>5. RelaunchSound'
  BY <1>1, <1>2, Untouched DEF ReleaseGate, RelaunchSound, CleanupSound, MapTypeOK,
     GateType, Free, At, LifecycleInv, LifecycleTypeOK
<1> QED
  BY <1>1, <1>3, <1>4, <1>5, Untouched, GateSound DEF MapTypeOK

------------------------------------------------------------------------------
(* The steps that change the map itself.                                   *)

(* A new session has nothing yet, and nobody holds the gate.               *)
LEMMA CreateLocalSound ==
    ASSUME LifecycleInv, NEW s \in Sessions, CreateLocal(s)
    PROVE  LifecycleInv'
<1>1. /\ ActorTypeOK /\ MapTypeOK /\ ActorSound(s) /\ RemovedSound(s) /\ gate' = gate
      /\ place[s] = "new" /\ At("free") /\ UNCHANGED draining
      /\ gate.quiet \cup gate.seen \cup gate.dead = {} /\ gate.todo = {}
  BY DEF CreateLocal, LifecycleInv, LifecycleTypeOK, CleanupSound, RelaunchSound, At
<1>2. /\ reader[s] = "none" /\ ssh[s] = "over" /\ ctl[s] = "none" /\ worker[s] = "none"
      /\ chan[s] = <<>> /\ ~active[s] /\ queued[s] = 0 /\ closer[s]["eof"] = "no"
      /\ closer[s]["destroy"] = "no"
  BY <1>1 DEF ActorSound, RemovedSound
<1>3. ActorTypeOK'
  BY <1>1 DEF CreateLocal, ActorTypeOK, Controller, Worker
<1>4. MapTypeOK'
  BY <1>1 DEF CreateLocal, MapTypeOK, Mapped
<1>5. /\ ActorSound(s)' /\ CountExact(s)' /\ RemovedSound(s)'
  <2>1. /\ place'[s] = "mapped" /\ pty'[s] = "up" /\ reader'[s] = "idle"
        /\ ctl'[s] = Controller(TRUE) /\ worker'[s] = Worker
        /\ ssh'[s] = ssh[s] /\ chan'[s] = <<>> /\ active'[s] = active[s]
        /\ queued'[s] = 0 /\ closer'[s] = closer[s] /\ s \notin draining'
    BY <1>1, <1>2 DEF CreateLocal, ActorTypeOK, MapTypeOK, RemovedSound
  <2>2. ActorSound(s)'
    BY <1>1, <1>2, <2>1, MessagesOfQueues DEF ActorSound, Controller, Worker
  <2>3. CountExact(s)'
    BY <2>1, CommandsEmpty DEF CountExact, Midway, Worker
  <2>4. RemovedSound(s)'
    BY <1>2, <2>1 DEF RemovedSound
  <2> QED
    BY <2>2, <2>3, <2>4
<1>6. ASSUME NEW x \in Sessions, x # s
      PROVE  /\ ActorSound(x)' /\ CountExact(x)' /\ RemovedSound(x)'
  <2>1. /\ place'[x] = place[x] /\ reader'[x] = reader[x] /\ ctl'[x] = ctl[x]
        /\ worker'[x] = worker[x] /\ flag'[x] = flag[x]
        /\ ssh'[x] = ssh[x] /\ chan'[x] = chan[x] /\ active'[x] = active[x]
        /\ queued'[x] = queued[x] /\ closer'[x] = closer[x]
    BY <1>1, <1>6 DEF CreateLocal, ActorTypeOK, MapTypeOK
  <2>2. ActorSound(x) /\ CountExact(x) /\ RemovedSound(x)
    BY DEF LifecycleInv
  <2>3. (Alive(x)' <=> Alive(x)) /\ (Midway(x)' <=> Midway(x))
    BY <2>1 DEF Alive, Midway
  <2>4. (Sealed(x)' <=> Sealed(x)) /\ (Settled(x)' <=> Settled(x))
        /\ (Working(x)' <=> Working(x))
    BY <2>1, <2>3 DEF Sealed, Settled, Working
  <2>5. ActorSound(x)'
    BY <2>1, <2>2, <2>3 DEF ActorSound
  <2>6. CountExact(x)'
    BY <2>1, <2>2, <2>3 DEF CountExact
  <2>7. RemovedSound(x)'
    BY <1>1, <2>1, <2>2, <2>4 DEF RemovedSound
  <2> QED
    BY <2>5, <2>6, <2>7
<1>7. CleanupSound' /\ RelaunchSound'
  BY <1>1 DEF CleanupSound, RelaunchSound, At
<1> QED
  BY <1>3, <1>4, <1>5, <1>6, <1>7 DEF LifecycleInv, LifecycleTypeOK

(* An SSH session even less.                                               *)
LEMMA CreateSshSound ==
    ASSUME LifecycleInv, NEW s \in Sessions, CreateSsh(s)
    PROVE  LifecycleInv'
<1>1. /\ ActorTypeOK /\ MapTypeOK /\ ActorSound(s) /\ RemovedSound(s) /\ gate' = gate
      /\ place[s] = "new" /\ At("free") /\ UNCHANGED <<pty, reader, flag, ctl, worker,
           chan, active, queued, closer, draining>>
      /\ gate.quiet \cup gate.seen \cup gate.dead = {} /\ gate.todo = {}
      /\ place' = [place EXCEPT ![s] = "mapped"]
      /\ ssh' = [ssh EXCEPT ![s] = "connecting"]
  BY DEF CreateSsh, LifecycleInv, LifecycleTypeOK, CleanupSound, RelaunchSound, At,
     actorVars, controlVars
<1>2. ActorTypeOK' /\ MapTypeOK'
  <2>1. ActorTypeOK'
    BY <1>1 DEF ActorTypeOK
  <2> QED
    BY <1>1, <2>1 DEF MapTypeOK, Mapped
<1>3. ASSUME NEW x \in Sessions
      PROVE  /\ ActorSound(x)' /\ CountExact(x)' /\ RemovedSound(x)'
  <2>1. /\ place'[x] = IF x = s THEN "mapped" ELSE place[x]
        /\ ssh'[x] = IF x = s THEN "connecting" ELSE ssh[x]
    BY <1>1 DEF ActorTypeOK, MapTypeOK
  <2>2. ActorSound(x) /\ CountExact(x) /\ RemovedSound(x)
    BY DEF LifecycleInv
  <2>3. (Alive(x)' <=> Alive(x)) /\ (Midway(x)' <=> Midway(x))
    BY <1>1 DEF Alive, Midway
  <2>4. (Sealed(x)' <=> Sealed(x)) /\ (Settled(x)' <=> Settled(x))
        /\ (Working(x)' <=> Working(x))
    BY <1>1, <2>3 DEF Sealed, Settled, Working
  <2>5. ActorSound(x)'
    BY <1>1, <2>1, <2>2, <2>3 DEF ActorSound
  <2>6. CountExact(x)'
    BY <1>1, <2>2, <2>3 DEF CountExact
  <2>7. RemovedSound(x)'
    BY <1>1, <2>1, <2>2, <2>4 DEF RemovedSound
  <2> QED
    BY <2>5, <2>6, <2>7
<1>4. CleanupSound' /\ RelaunchSound'
  BY <1>1 DEF CleanupSound, RelaunchSound, At
<1> QED
  BY <1>2, <1>3, <1>4 DEF LifecycleInv, LifecycleTypeOK

(* A session that is destroyed is sealed when it leaves the map.           *)
LEMMA DestroySound ==
    ASSUME LifecycleInv, NEW s \in Sessions, Destroy(s)
    PROVE  LifecycleInv'
<1>1. /\ ActorTypeOK /\ MapTypeOK /\ ActorSound(s) /\ RemovedSound(s) /\ gate' = gate
      /\ place[s] = "mapped" /\ At("free") /\ UNCHANGED <<ssh, pty, reader, worker,
           chan, active, queued>>
      /\ gate.quiet \cup gate.seen \cup gate.dead = {} /\ gate.todo = {}
      /\ place' = [place EXCEPT ![s] = "removed"]
      /\ flag' = [flag EXCEPT ![s] = FALSE]
      /\ ctl' = [ctl EXCEPT ![s] = Switched(s, FALSE)]
      /\ closer' = [closer EXCEPT ![s]["destroy"] = "called"]
      /\ draining' = draining \cup {s}
  BY DEF Destroy, LifecycleInv, LifecycleTypeOK, CleanupSound, RelaunchSound, At,
     SetAccepting, Mapped
<1>2. ActorTypeOK'
  BY <1>1 DEF ActorTypeOK, Switched, Closers
<1>3. MapTypeOK'
  BY <1>1 DEF MapTypeOK, Mapped, GateType
<1>4. closer[s]["destroy"] = "no"
  BY <1>1 DEF RemovedSound
<1>5. ASSUME NEW x \in Sessions
      PROVE  /\ ActorSound(x)' /\ CountExact(x)' /\ RemovedSound(x)'
  <2>1. /\ place'[x] = IF x = s THEN "removed" ELSE place[x]
        /\ flag'[x] = IF x = s THEN FALSE ELSE flag[x]
        /\ x # s => ctl'[x] = ctl[x] /\ closer'[x] = closer[x]
        /\ ctl'[x] = "none" <=> ctl[x] = "none"
        /\ closer'[x]["eof"] = closer[x]["eof"]
        /\ closer'[x]["destroy"] = IF x = s THEN "called" ELSE closer[x]["destroy"]
        /\ x \in draining' <=> x = s \/ x \in draining
    BY <1>1 DEF ActorTypeOK, MapTypeOK, Switched, Closers
  <2>2. ActorSound(x) /\ CountExact(x) /\ RemovedSound(x)
    BY DEF LifecycleInv
  <2>3. (Alive(x)' <=> Alive(x)) /\ (Midway(x)' <=> Midway(x))
    BY <1>1 DEF Alive, Midway
  <2>4. /\ x # s => (Sealed(x)' <=> Sealed(x))
        /\ Settled(x)' <=> Settled(x)
        /\ Working(x)' <=> Working(x)
    BY <1>1, <2>1, <2>3 DEF Sealed, Settled, Working
  <2>5. Sealed(s)'
    BY <1>1 DEF Sealed, Switched, ActorTypeOK
  <2>6. ActorSound(x)'
    <3>1. ASSUME Alive(x), NEW k \in MessagesOf(chan[x]) \cap Closers
          PROVE  closer'[x][k] = "waiting"
      BY <1>4, <2>1, <2>2, <3>1 DEF ActorSound, Closers
    <3>2. ASSUME ctl[x] = "none", NEW k \in Closers
          PROVE  closer'[x][k] \notin {"sending", "waiting"}
      BY <2>1, <2>2, <3>2 DEF ActorSound, Closers
    <3>3. place'[x] = "new" => place[x] = "new"
      BY <2>1
    <3> QED
      BY <1>1, <2>1, <2>2, <2>3, <3>1, <3>2, <3>3 DEF ActorSound
  <2>7. CountExact(x)'
    BY <1>1, <2>2, <2>3 DEF CountExact
  <2>8. RemovedSound(x)'
    BY <1>1, <2>1, <2>2, <2>4, <2>5 DEF RemovedSound
  <2> QED
    BY <2>6, <2>7, <2>8
<1>6. CleanupSound' /\ RelaunchSound'
  BY <1>1 DEF CleanupSound, RelaunchSound, At
<1> QED
  BY <1>2, <1>3, <1>5, <1>6 DEF LifecycleInv, LifecycleTypeOK

(* And when it is no longer marked it has no work.                         *)
LEMMA UndrainSound ==
    ASSUME LifecycleInv, NEW t \in Sessions, Undrain(t)
    PROVE  LifecycleInv'
<1>1. /\ UNCHANGED <<ssh, pty, actorVars, place, gate>> /\ MapTypeOK
      /\ draining' = draining \ {t} /\ closer[t]["destroy"] = "done"
  BY DEF Undrain, LifecycleInv, LifecycleTypeOK
<1>2. Mapped' = Mapped /\ Mapped \subseteq Sessions
  BY <1>1 DEF Mapped
<1>3. MapTypeOK'
  BY <1>1, <1>2 DEF MapTypeOK
<1>4. Settled(t)
  <2>1. ~Working(t)
    BY <1>1 DEF LifecycleInv, RemovedSound
  <2> QED
    BY <2>1 DEF Working, Settled, Alive
<1>5. ASSUME NEW x \in Sessions
      PROVE  RemovedSound(x)'
  <2>1. RemovedSound(x)
    BY DEF LifecycleInv
  <2> QED
    BY <1>1, <1>4, <2>1, Untouched DEF RemovedSound
<1>6. CleanupSound'
  BY <1>1, <1>2, Untouched DEF CleanupSound, MapTypeOK, At, LifecycleInv
<1>7. RelaunchSound'
  BY <1>1, <1>2, Untouched DEF RelaunchSound, MapTypeOK, At, LifecycleInv
<1> QED
  BY <1>1, <1>3, <1>5, <1>6, <1>7, Untouched DEF LifecycleInv, LifecycleTypeOK

(* The new process starts from nothing but the sessions it restores.       *)
LEMMA ExecSound ==
    ASSUME LifecycleInv, Exec
    PROVE  LifecycleInv'
<1>1. PICK restored \in SUBSET Preservable : Restore(restored)
  BY DEF Exec
<1>2. /\ ActorTypeOK /\ MapTypeOK /\ restored \subseteq Sessions
      /\ \A x \in restored : place[x] = "mapped"
  BY <1>1 DEF LifecycleInv, LifecycleTypeOK, Preservable, Mapped
<1>3. ASSUME NEW x \in Sessions
      PROVE  /\ place'[x] = IF place[x] = "new" THEN "new"
                            ELSE IF x \in restored THEN "mapped" ELSE "removed"
             /\ reader'[x] = IF place[x] = "new" THEN "none"
                             ELSE IF x \in restored THEN "idle" ELSE "eof"
             /\ ctl'[x] = IF x \in restored THEN Controller(TRUE) ELSE "none"
             /\ worker'[x] = IF x \in restored THEN Worker ELSE "none"
             /\ ssh'[x] = "over" /\ flag'[x] = TRUE /\ chan'[x] = <<>>
             /\ active'[x] = FALSE /\ queued'[x] = 0
             /\ closer'[x] = [k \in Closers |-> "no"]
  BY <1>1 DEF Exec, Restore
<1>4. ActorTypeOK'
  BY <1>1, <1>2, CommandsEmpty, LifecycleAssumption
     DEF Exec, Restore, ActorTypeOK, Controller, Worker, Closers
<1>5. draining' = {} /\ gate' = Free
  BY DEF Exec
<1>6. MapTypeOK'
  BY <1>1, <1>2, <1>5 DEF MapTypeOK, Restore, GateType, Free
<1>7. CleanupSound' /\ RelaunchSound'
  BY <1>5 DEF CleanupSound, RelaunchSound, Free, At
<1>8. ASSUME NEW x \in Sessions
      PROVE  /\ ActorSound(x)' /\ CountExact(x)' /\ RemovedSound(x)'
  <2>1. /\ reader'[x] \in {"none", "idle", "eof"}
        /\ place'[x] = "new" => reader'[x] = "none"
        /\ place'[x] = "removed" => reader'[x] = "eof" /\ worker'[x] = "none"
        /\ reader'[x] = "none" => ctl'[x] = "none"
        /\ ctl'[x] = "none" <=> worker'[x] = "none"
        /\ worker'[x] \in {"none", "recv"}
    BY <1>2, <1>3 DEF Controller, Worker
  <2>2. closer'[x]["eof"] = "no" /\ closer'[x]["destroy"] = "no" /\ x \notin draining'
    <3>1. closer'[x] = [k \in Closers |-> "no"]
      BY <1>3
    <3> QED
      BY <1>5, <3>1 DEF Closers
  <2>3. ActorSound(x)'
    BY <1>3, <2>1, <2>2, MessagesOfQueues DEF ActorSound, Closers
  <2>4. CountExact(x)'
    <3>1. ~Midway(x)' /\ worker'[x] # "work"
      BY <2>1 DEF Midway
    <3>2. chan'[x] = <<>> /\ queued'[x] = 0
      BY <1>3
    <3>3. Cardinality(CommandsOf(chan'[x])) = 0
      BY <3>2, CommandsEmpty
    <3> QED
      BY <3>1, <3>2, <3>3 DEF CountExact
  <2>5. RemovedSound(x)'
    BY <1>3, <2>1, <2>2, CommandsEmpty DEF RemovedSound, Sealed, Settled, Working, Alive
  <2> QED
    BY <2>3, <2>4, <2>5
<1> QED
  BY <1>4, <1>6, <1>7, <1>8 DEF LifecycleInv, LifecycleTypeOK

LEMMA StutterSound ==
    ASSUME LifecycleInv, UNCHANGED vars
    PROVE  LifecycleInv'
<1>1. /\ UNCHANGED <<ssh, pty, actorVars, place, draining, gate>> /\ MapTypeOK
  BY DEF vars, LifecycleInv, LifecycleTypeOK, actorVars, controlVars
<1>2. Mapped' = Mapped /\ Mapped \subseteq Sessions
  BY <1>1 DEF Mapped
<1>3. MapTypeOK'
  BY <1>1, <1>2 DEF MapTypeOK
<1>4. CleanupSound' /\ RelaunchSound'
  BY <1>1, <1>2, Untouched DEF CleanupSound, RelaunchSound, MapTypeOK, At, LifecycleInv
<1> QED
  BY <1>1, <1>3, <1>4, Untouched, GateSound

------------------------------------------------------------------------------
(* The invariant, and what follows from it at once.                        *)

LEMMA InitSound == Init => LifecycleInv
<1> SUFFICES ASSUME Init PROVE LifecycleInv
  OBVIOUS
<1>1. ActorTypeOK
  BY LifecycleAssumption DEF Init, ActorTypeOK, Closers
<1>2. MapTypeOK /\ CleanupSound /\ RelaunchSound
  BY DEF Init, MapTypeOK, GateType, Free, CleanupSound, RelaunchSound, At
<1>3. ASSUME NEW s \in Sessions
      PROVE  ActorSound(s) /\ CountExact(s) /\ RemovedSound(s)
  BY CommandsEmpty, MessagesOfQueues DEF Init, ActorSound, CountExact, RemovedSound, Alive,
     Midway, Sealed, Settled, Working, Closers
<1> QED
  BY <1>1, <1>2, <1>3 DEF LifecycleInv, LifecycleTypeOK

LEMMA StepSound ==
    ASSUME LifecycleInv, [Next]_vars
    PROVE  LifecycleInv'
<1>1. CASE \E s \in Sessions : CreateLocal(s) \/ CreateSsh(s) \/ Destroy(s)
  BY <1>1, CreateLocalSound, CreateSshSound, DestroySound
<1>2. CASE \E s \in Sessions : SessionTask(s)
  BY <1>2, TaskSound, UndrainSound
<1>3. CASE BeginCleanup \/ Cleanup
  BY <1>3, BeginCleanupSound, SkipRunningSound, QuiesceDeadSound, JudgeActiveSound,
     JudgeQueuedSound, ReapSound DEF Cleanup
<1>4. CASE BeginRelaunch \/ Relaunch
  BY <1>4, BeginRelaunchSound, QuiesceOneSound, ReadDrainingSound, CheckActiveSound,
     CheckQueuedSound, DecideSound, RelaunchFailsSound, ResumeOneSound, ReleaseGateSound,
     ExecSound DEF Relaunch
<1>5. CASE Idle \/ UNCHANGED vars
  BY <1>5, StutterSound DEF Idle
<1> QED
  BY <1>1, <1>2, <1>3, <1>4, <1>5 DEF Next

(* LifecycleInv holds in every reachable state, for every set of sessions, *)
(* any capacity and whether or not there is a home directory.              *)
THEOREM LifecycleSound == Spec => []LifecycleInv
<1>1. LifecycleInv /\ [Next]_vars => LifecycleInv'
  BY StepSound
<1> QED
  BY <1>1, InitSound, PTL DEF Spec

(* Every variable of the session map keeps its type.                       *)
THEOREM LifecycleTyped == Spec => []LifecycleTypeOK
<1>1. LifecycleInv => LifecycleTypeOK
  BY DEF LifecycleInv
<1> QED
  BY <1>1, LifecycleSound, PTL

(* A session that has left the map and drains no more has no command on    *)
(* its way, and no work once its destruction is over (destroy_session,     *)
(* cleanup_dead_sessions).                                                 *)
THEOREM NoCommandLeft == Spec => []NoCommandLeftBehind
<1>1. ASSUME LifecycleInv
      PROVE  NoCommandLeftBehind
  <2> SUFFICES ASSUME NEW s \in Sessions \ (Mapped \cup draining)
               PROVE  Settled(s) /\ (closer[s]["destroy"] = "done" => ~Working(s))
    BY DEF NoCommandLeftBehind
  <2>1. RemovedSound(s) /\ ActorSound(s) /\ place[s] \in {"new", "removed"}
    BY <1>1 DEF LifecycleInv, LifecycleTypeOK, MapTypeOK, Mapped
  <2>2. CASE place[s] = "removed"
    BY <2>1, <2>2 DEF RemovedSound
  <2>3. CASE place[s] = "new"
    BY <2>1, <2>3 DEF ActorSound, Settled, Working, Alive
  <2> QED
    BY <2>1, <2>2, <2>3
<1> QED
  BY <1>1, LifecycleSound, PTL

(* While a relaunch holds the guard nothing drains and no command is on    *)
(* its way anywhere (RelaunchTransferGuard, start_reader).                 *)
THEOREM HeldSettled == Spec => []HeldMeansSettled
<1>1. ASSUME LifecycleInv
      PROVE  HeldMeansSettled
  <2> SUFFICES ASSUME At("held")
               PROVE  draining = {} /\ \A s \in Sessions : Settled(s)
    BY DEF HeldMeansSettled
  <2>1. draining = {} /\ \A x \in Mapped : Settled(x)
    BY <1>1 DEF LifecycleInv, RelaunchSound
  <2> SUFFICES ASSUME NEW s \in Sessions PROVE Settled(s)
    BY <2>1
  <2>2. RemovedSound(s) /\ ActorSound(s) /\ place[s] \in {"new", "mapped", "removed"}
    BY <1>1 DEF LifecycleInv, LifecycleTypeOK, MapTypeOK
  <2>3. CASE place[s] = "mapped"
    BY <2>1, <2>3 DEF Mapped
  <2>4. CASE place[s] = "removed"
    BY <2>1, <2>2, <2>4 DEF RemovedSound
  <2>5. CASE place[s] = "new"
    BY <2>2, <2>5 DEF ActorSound, Settled, Alive
  <2> QED
    BY <2>1, <2>2, <2>3, <2>4, <2>5
<1> QED
  BY <1>1, LifecycleSound, PTL

------------------------------------------------------------------------------
(* What is unchanged in which step.                                        *)

(* The steps of the gate's holder, by what they do to the actors.          *)
LEMMA GateSteps ==
    ASSUME BeginCleanup \/ Cleanup \/ BeginRelaunch \/ Relaunch \/ Idle \/ UNCHANGED vars
    PROVE  \/ UNCHANGED <<ssh, pty, actorVars>>
           \/ \E t \in Sessions : QuiesceDead(t) \/ QuiesceOne(t) \/ ResumeOne(t)
           \/ Exec
BY DEF Cleanup, Relaunch, Idle, vars, actorVars, controlVars, BeginCleanup, SkipRunning,
       JudgeActive, JudgeQueued, Reap, BeginRelaunch, ReadDraining, CheckActive,
       CheckQueued, Decide, RelaunchFails, ReleaseGate

(* All of them but exec leave the map alone or take from it.               *)
LEMMA GatePlace ==
    ASSUME LifecycleInv, NEW s \in Sessions,
           BeginCleanup \/ Cleanup \/ BeginRelaunch \/ Relaunch \/ Idle \/ UNCHANGED vars,
           ~Exec
    PROVE  \/ place'[s] = place[s]
           \/ place[s] = "mapped" /\ place'[s] = "removed"
<1>1. CASE Reap
  <2>1. gate.dead \subseteq Mapped
    BY DEF LifecycleInv, LifecycleTypeOK, MapTypeOK
  <2> QED
    BY <1>1, <2>1 DEF Reap, Mapped
<1>2. CASE ~Reap
  BY <1>2 DEF Cleanup, Relaunch, Idle, vars, BeginCleanup, SkipRunning, QuiesceDead,
     JudgeActive, JudgeQueued, BeginRelaunch, QuiesceOne, ReadDraining, CheckActive,
     CheckQueued, Decide, RelaunchFails, ResumeOne, ReleaseGate
<1> QED
  BY <1>1, <1>2

(* The same of the steps that create or destroy session t: only its own    *)
(* variables change.                                                       *)
LEMMA MapSteps ==
    ASSUME LifecycleInv, NEW t \in Sessions, CreateLocal(t) \/ CreateSsh(t) \/ Destroy(t),
           NEW s \in Sessions, s # t
    PROVE  /\ place'[s] = place[s] /\ ssh'[s] = ssh[s] /\ pty'[s] = pty[s]
           /\ reader'[s] = reader[s] /\ flag'[s] = flag[s] /\ ctl'[s] = ctl[s]
           /\ worker'[s] = worker[s] /\ chan'[s] = chan[s] /\ active'[s] = active[s]
<1>1. ActorTypeOK /\ MapTypeOK
  BY DEF LifecycleInv, LifecycleTypeOK
<1>2. CASE CreateLocal(t)
  BY <1>1, <1>2 DEF CreateLocal, ActorTypeOK, MapTypeOK
<1>3. CASE CreateSsh(t)
  BY <1>1, <1>3 DEF CreateSsh, ActorTypeOK, MapTypeOK, actorVars, controlVars
<1>4. CASE Destroy(t)
  BY <1>1, <1>4 DEF Destroy, SetAccepting, ActorTypeOK, MapTypeOK
<1> QED
  BY <1>2, <1>3, <1>4

LEMMA SwitchSteps ==
    ASSUME NEW t \in Sessions, QuiesceDead(t) \/ QuiesceOne(t) \/ ResumeOne(t)
    PROVE  /\ UNCHANGED <<ssh, pty, reader, worker, chan, active, queued, closer, place>>
           /\ SetAccepting(t, ResumeOne(t))
           /\ ~ResumeOne(t) => SetAccepting(t, FALSE)
           /\ t \in gate.todo
           /\ \E on \in BOOLEAN : SetAccepting(t, on)
BY DEF QuiesceDead, QuiesceOne, ResumeOne

(* Removed, a session is sealed; a sealed session gets no work.            *)
LEMMA SealedGetsNoWork ==
    ASSUME LifecycleInv, [Next]_vars, NEW s \in Sessions,
           place[s] = "removed", ~Working(s)
    PROVE  ~Working(s)'
<1>1. Sealed(s)
  BY DEF LifecycleInv, RemovedSound
<1>2. ASSUME worker'[s] = worker[s], chan'[s] = chan[s], active'[s] = active[s],
             reader'[s] = reader[s]
      PROVE  ~Working(s)'
  BY <1>2 DEF Working, Alive
<1>3. ASSUME NEW t \in Sessions, CreateLocal(t) \/ CreateSsh(t) \/ Destroy(t)
      PROVE  ~Working(s)'
  <2>1. s # t
    BY <1>3 DEF CreateLocal, CreateSsh, Destroy, Mapped
  <2> QED
    BY <1>2, <1>3, <2>1, MapSteps
<1>4. ASSUME NEW t \in Sessions, SessionTask(t), ~Undrain(t) PROVE ~Working(s)'
  <2>1. Effect(t)
    BY <1>4, TaskEffect
  <2>2. CASE s = t
    BY <1>1, <2>1, <2>2 DEF Effect, Kept
  <2>3. CASE s # t
    BY <1>2, <2>1, <2>3 DEF Effect, OthersStay
  <2> QED
    BY <2>2, <2>3
<1>5. ASSUME UNCHANGED <<ssh, pty, actorVars>> PROVE ~Working(s)'
  BY <1>2, <1>5 DEF actorVars, controlVars
<1>6. ASSUME NEW t \in Sessions, QuiesceDead(t) \/ QuiesceOne(t) \/ ResumeOne(t)
      PROVE  ~Working(s)'
  BY <1>2, <1>6, SwitchSteps
<1>7. ASSUME Exec PROVE ~Working(s)'
  <2>1. s \notin Preservable
    BY DEF Preservable, Mapped
  <2>2. worker'[s] = "none"
    BY <1>7, <2>1 DEF Exec, Restore
  <2> QED
    BY <2>2 DEF Working, Alive
<1> QED
  BY <1>3, <1>4, <1>5, <1>6, <1>7, GateSteps DEF Next, Undrain

(* A session outside the map gets no new work, however long its reader or  *)
(* its connection task lives on (destroy_session, resume_tty_transfers).   *)
THEOREM RemovedShut == Spec => RemovedStaysShut
<1>1. LifecycleInv /\ [Next]_vars
      => [\A s \in Sessions : place[s] = "removed" /\ ~Working(s) => ~Working(s)']_vars
  BY SealedGetsNoWork
<1> QED
  BY <1>1, LifecycleSound, PTL DEF Spec, RemovedStaysShut

------------------------------------------------------------------------------
(* Next to what the code does not keep: what it does.                      *)

(* What a pass looks at, or has judged to be dead, does not connect.       *)
Judged == gate.quiet \cup gate.seen \cup gate.dead

JudgedConnected == At("cleanup") => \A s \in Judged : ~Connecting(s)

(* No step but a creation makes a session connect, and none is created     *)
(* while the clean-up holds the gate.                                      *)
LEMMA JudgedStep == LifecycleInv /\ JudgedConnected /\ [Next]_vars => JudgedConnected'
<1> SUFFICES ASSUME LifecycleInv, JudgedConnected, [Next]_vars, At("cleanup")',
                    NEW s \in Judged'
             PROVE  ~Connecting(s)'
  BY DEF JudgedConnected
<1>1. /\ Judged \subseteq Sessions /\ ActorTypeOK /\ gate \in GateType /\ MapTypeOK
  BY DEF LifecycleInv, LifecycleTypeOK, MapTypeOK, Mapped, Judged
<1>2. ASSUME UNCHANGED gate, \A x \in Sessions : Connecting(x)' => Connecting(x)
      PROVE  ~Connecting(s)'
  BY <1>1, <1>2 DEF JudgedConnected, Judged, At
<1>3. ASSUME NEW t \in Sessions, CreateLocal(t) \/ CreateSsh(t) \/ Destroy(t)
      PROVE  FALSE
  BY <1>3 DEF CreateLocal, CreateSsh, Destroy, At
<1>4. ASSUME NEW t \in Sessions, SessionTask(t), ~Undrain(t) PROVE ~Connecting(s)'
  <2>1. UNCHANGED gate
    BY <1>4, TaskMap DEF mapVars
  <2>2. \/ UNCHANGED ssh
        \/ \E x \in {"linked", "attached", "over"} : ssh' = [ssh EXCEPT ![t] = x]
    BY <1>4 DEF SessionTask, SshTask, Submitting, WorkerTask, ShutdownTask, SshReturns,
       SshAttach, StartReader, PublishController, ChildExits, ReadCommand, CountQueued,
       Recheck, UncountQueued, SendCommand, SendCommandFails, ReaderEof, RecvCommand,
       FinishCommand, EndTransfers, WorkerFails, RecvShutdown, ResetActive, ResetQueued,
       CloseReceiver, DrainActor, SendShutdown, SendShutdownFails, actorVars, controlVars
  <2>3. \A x \in Sessions : Connecting(x)' => Connecting(x)
    BY <1>1, <2>2 DEF Connecting, ActorTypeOK
  <2> QED
    BY <1>2, <2>1, <2>3
<1>5. ASSUME NEW t \in Sessions, Undrain(t) PROVE ~Connecting(s)'
  BY <1>2, <1>5 DEF Undrain, Connecting
<1>6. ASSUME UNCHANGED ssh, Judged' \subseteq Judged, At("cleanup") PROVE ~Connecting(s)'
  BY <1>6 DEF JudgedConnected, Connecting
<1>7. ASSUME NEW t \in Sessions, SkipRunning(t) \/ JudgeActive(t) \/ JudgeQueued(t)
      PROVE  ~Connecting(s)'
  <2>1. UNCHANGED ssh /\ At("cleanup")
    BY <1>7 DEF SkipRunning, JudgeActive, JudgeQueued
  <2>2. Judged' \subseteq Judged
    <3>1. CASE SkipRunning(t)
      BY <1>1, <3>1 DEF SkipRunning, Judged, GateType
    <3>2. CASE JudgeActive(t)
      <4>1. /\ gate'.quiet = {} /\ gate'.dead = gate.dead /\ t \in gate.quiet
            /\ gate'.seen \subseteq {t}
        BY <1>1, <3>2 DEF JudgeActive, GateType
      <4> QED
        BY <4>1 DEF Judged
    <3>3. CASE JudgeQueued(t)
      <4>1. /\ gate'.quiet = gate.quiet /\ gate'.seen = {} /\ t \in gate.seen
            /\ gate'.dead \subseteq gate.dead \cup {t}
        BY <1>1, <3>3 DEF JudgeQueued, GateType
      <4> QED
        BY <4>1 DEF Judged
    <3> QED
      BY <1>7, <3>1, <3>2, <3>3
  <2> QED
    BY <1>6, <2>1, <2>2
<1>8. ASSUME NEW t \in Sessions, QuiesceDead(t) PROVE ~Connecting(s)'
  <2>1. /\ gate'.quiet = {t} /\ gate'.dead = gate.dead /\ gate'.seen = gate.seen
        /\ UNCHANGED ssh /\ ~Connecting(t) /\ At("cleanup")
    BY <1>1, <1>8 DEF QuiesceDead, GateType, IsRunning
  <2> QED
    BY <2>1 DEF JudgedConnected, Judged, Connecting
<1>9. ASSUME BeginCleanup PROVE ~Connecting(s)'
  BY <1>9 DEF BeginCleanup, Free, Judged
<1>10. ASSUME NEW t \in Sessions,
              QuiesceOne(t) \/ CheckActive(t) \/ CheckQueued(t) \/ ResumeOne(t)
       PROVE  FALSE
  BY <1>1, <1>10 DEF QuiesceOne, CheckActive, CheckQueued, ResumeOne, At, GateType
<1>11. ASSUME Reap \/ BeginRelaunch \/ ReadDraining \/ Decide \/ RelaunchFails
              \/ ReleaseGate \/ Exec
       PROVE  FALSE
  <2>1. gate' \in {Free, Resuming} \/ gate'.pc \in {"quiesce", "check", "held"}
    BY <1>11 DEF Reap, BeginRelaunch, ReadDraining, Decide, RelaunchFails, ReleaseGate,
       Exec, Free
  <2>2. Free.pc = "free" /\ Resuming.pc = "resume"
    BY DEF Free, Resuming
  <2> QED
    BY <2>1, <2>2 DEF At
<1>12. ASSUME UNCHANGED vars PROVE ~Connecting(s)'
  BY <1>2, <1>12 DEF vars, Connecting
<1> QED
  BY <1>3, <1>4, <1>5, <1>7, <1>8, <1>9, <1>10, <1>11, <1>12
     DEF Next, Cleanup, Relaunch, Idle

(* A clean-up takes no session that is connecting, for any sessions: the   *)
(* case that the run ssh_reap finds is all there is (spawn_ssh_connect).   *)
THEOREM ConnectingSafe == Spec => ConnectingSpared
<1>1. Init => JudgedConnected
  BY DEF Init, Free, JudgedConnected, At
<1>2. JudgedConnected => (Reap => \A s \in gate.dead : ~Connecting(s))
  BY DEF JudgedConnected, Judged, Reap
<1> QED
  BY <1>1, <1>2, JudgedStep, LifecycleSound, PTL DEF Spec, ConnectingSpared

------------------------------------------------------------------------------
(* Who unseals a session, and who is never forgotten.                      *)

(* Only a resume of the gate's holder, or a restore, gives a session its   *)
(* commands back, for any sessions (resume_tty_transfers, start_reader).   *)
THEOREM UnsealedByResume == Spec => OnlyResumeUnseals
<1>1. ASSUME LifecycleInv, [Next]_vars, NEW s \in Sessions, place[s] # "new", Sealed(s),
             ~(ResumeOne(s) \/ Exec)
      PROVE  Sealed(s)'
  <2>1. ActorTypeOK
    BY <1>1 DEF LifecycleInv, LifecycleTypeOK
  <2>2. ASSUME flag'[s] = flag[s], ctl'[s] = ctl[s], reader'[s] = reader[s]
        PROVE  Sealed(s)'
    BY <1>1, <2>2 DEF Sealed
  <2>3. ASSUME NEW t \in Sessions, CreateLocal(t) \/ CreateSsh(t) \/ Destroy(t)
        PROVE  Sealed(s)'
    <3>1. CASE s # t
      BY <1>1, <2>2, <2>3, <3>1, MapSteps
    <3>2. CASE s = t
      <4>1. Destroy(s)
        BY <1>1, <2>3, <3>2 DEF CreateLocal, CreateSsh
      <4> QED
        BY <2>1, <4>1 DEF Destroy, SetAccepting, Switched, Sealed, ActorTypeOK
    <3> QED
      BY <3>1, <3>2
  <2>4. ASSUME NEW t \in Sessions, SessionTask(t), ~Undrain(t) PROVE Sealed(s)'
    <3>1. Effect(t)
      BY <1>1, <2>4, TaskEffect
    <3>2. CASE s = t
      BY <1>1, <3>1, <3>2 DEF Effect, Kept
    <3>3. CASE s # t
      BY <2>2, <3>1, <3>3 DEF Effect, OthersStay
    <3> QED
      BY <3>2, <3>3
  <2>5. ASSUME UNCHANGED <<ssh, pty, actorVars>> PROVE Sealed(s)'
    BY <2>2, <2>5 DEF actorVars, controlVars
  <2>6. ASSUME NEW t \in Sessions, QuiesceDead(t) \/ QuiesceOne(t) \/ ResumeOne(t)
        PROVE  Sealed(s)'
    <3>1. CASE s # t
      BY <2>1, <2>2, <2>6, <3>1, SwitchSteps DEF SetAccepting, ActorTypeOK
    <3>2. CASE s = t
      <4>1. SetAccepting(s, FALSE) /\ UNCHANGED reader
        BY <1>1, <2>6, <3>2, SwitchSteps
      <4> QED
        BY <2>1, <4>1 DEF SetAccepting, Switched, Sealed, ActorTypeOK
    <3> QED
      BY <3>1, <3>2
  <2> QED
    BY <1>1, <2>3, <2>4, <2>5, <2>6, GateSteps DEF Next, Undrain
<1>2. LifecycleInv /\ [Next]_vars =>
          [\A s \in Sessions :
             place[s] # "new" /\ Sealed(s) /\ ~Sealed(s)' => ResumeOne(s) \/ Exec]_vars
  BY <1>1
<1> QED
  BY <1>2, LifecycleSound, PTL DEF Spec, OnlyResumeUnseals

(* Local session s takes commands but between its turn in a quiesce and    *)
(* its turn in the resume that follows; it never waits for a connection.   *)
Spared(s) ==
    \/ At("free") \/ At("cleanup")
    \/ At("quiesce") /\ s \in gate.todo
    \/ At("resume") /\ s \notin gate.todo

LocalSound(s) ==
    /\ ssh[s] = "over" /\ reader[s] \notin {"startOpen", "startClosed"}
    /\ place[s] = "new" => flag[s]
    /\ place[s] = "mapped" /\ pty[s] = "up" /\ reader[s] # "eof" /\ Spared(s)
       => flag[s] /\ ctl[s] # "closed"

LocalsSound == \A s \in LocalSessions : LocalSound(s)

(* A local session of the map closes its own controller at EOF only.       *)
LEMMA LocalTask ==
    ASSUME LifecycleInv, NEW s \in LocalSessions, SessionTask(s), ~Undrain(s), LocalSound(s)
    PROVE  LocalSound(s)'
<1>1. /\ s \in Sessions /\ ActorTypeOK /\ RemovedSound(s)
      /\ UNCHANGED <<place, draining, gate>>
  BY TaskMap DEF LifecycleInv, LifecycleTypeOK, Sessions, mapVars
<1>2. Spared(s)' <=> Spared(s)
  BY <1>1 DEF Spared, At
<1>3. ASSUME flag'[s] = flag[s], ssh'[s] = "over",
             reader'[s] \notin {"startOpen", "startClosed"},
             reader[s] = "eof" => reader'[s] = "eof",
             pty'[s] = "up" => pty[s] = "up",
             ctl'[s] = ctl[s] \/ reader'[s] = "eof" \/ place[s] # "mapped"
      PROVE  LocalSound(s)'
  BY <1>1, <1>2, <1>3 DEF LocalSound
<1>4. CASE SshReturns(s) \/ SshAttach(s) \/ StartReader(s) \/ PublishController(s)
  BY <1>1, <1>4 DEF LocalSound, SshReturns, Connecting, SshAttach, StartReader,
     PublishController
<1>5. CASE ChildExits(s)
  BY <1>1, <1>3, <1>5 DEF ChildExits, LocalSound, actorVars, controlVars, ActorTypeOK
<1>6. CASE \/ ReadCommand(s) \/ CountQueued(s) \/ Recheck(s) \/ UncountQueued(s)
           \/ SendCommand(s) \/ SendCommandFails(s)
  BY <1>1, <1>3, <1>6 DEF ReadCommand, CountQueued, Recheck, AfterRecheck, UncountQueued,
     SendCommand, SendCommandFails, LocalSound, controlVars, ActorTypeOK
<1>7. CASE ReaderEof(s)
  BY <1>1, <1>3, <1>7 DEF ReaderEof, LocalSound, ActorTypeOK
<1>8. CASE \/ RecvCommand(s) \/ FinishCommand(s) \/ EndTransfers(s) \/ WorkerFails(s)
           \/ RecvShutdown(s) \/ ResetActive(s) \/ ResetQueued(s) \/ CloseReceiver(s)
  BY <1>1, <1>3, <1>8 DEF RecvCommand, FinishCommand, EndTransfers, WorkerFails,
     RecvShutdown, ResetActive, ResetQueued, CloseReceiver, LocalSound
<1>9. CASE \E k \in Closers : SendShutdown(s, k) \/ SendShutdownFails(s, k)
  BY <1>1, <1>3, <1>9 DEF SendShutdown, SendShutdownFails, LocalSound
<1>10. CASE DrainActor(s)
  <2>1. place[s] = "removed"
    BY <1>1, <1>10 DEF DrainActor, RemovedSound
  <2> QED
    BY <1>1, <1>3, <1>10, <2>1 DEF DrainActor, LocalSound
<1> QED
  BY <1>4, <1>5, <1>6, <1>7, <1>8, <1>9, <1>10
     DEF SessionTask, SshTask, Submitting, WorkerTask, ShutdownTask

(* What the tasks of session t do to the PTY of another.                   *)
LEMMA TaskPty ==
    ASSUME LifecycleInv, NEW t \in Sessions, SessionTask(t), NEW s \in Sessions, s # t
    PROVE  pty'[s] = pty[s]
<1>1. pty \in [Sessions -> {"none", "up", "exited"}]
  BY DEF LifecycleInv, LifecycleTypeOK, ActorTypeOK
<1> QED
  BY <1>1 DEF SessionTask, SshTask, Submitting, WorkerTask, ShutdownTask, SshReturns,
     SshAttach, StartReader, PublishController, ChildExits, ReadCommand, CountQueued,
     Recheck, UncountQueued, SendCommand, SendCommandFails, ReaderEof, RecvCommand,
     FinishCommand, EndTransfers, WorkerFails, RecvShutdown, ResetActive, ResetQueued,
     CloseReceiver, DrainActor, SendShutdown, SendShutdownFails, Undrain

(* Nor do the gate's steps leave it without commands but in between.       *)
LEMMA LocalStep ==
    ASSUME LifecycleInv, NEW s \in LocalSessions, LocalSound(s), [Next]_vars
    PROVE  LocalSound(s)'
<1>1. /\ s \in Sessions /\ s \notin SshSessions
      /\ ActorTypeOK /\ MapTypeOK /\ gate \in GateType /\ gate.todo \subseteq Mapped
  BY LifecycleAssumption DEF LifecycleInv, LifecycleTypeOK, MapTypeOK, Sessions
<1>2. place[s] = "new" => s \notin Mapped
  BY DEF Mapped
<1>3. ASSUME ssh'[s] = ssh[s], pty'[s] = pty[s], reader'[s] = reader[s],
             flag'[s] = flag[s], ctl'[s] = ctl[s],
             place'[s] = place[s] \/ place'[s] = "removed",
             place[s] = "mapped" => (Spared(s)' => Spared(s))
      PROVE  LocalSound(s)'
  BY <1>1, <1>3 DEF LocalSound
<1>4. ASSUME NEW t \in Sessions, CreateLocal(t) \/ CreateSsh(t) \/ Destroy(t)
      PROVE  LocalSound(s)'
  <2>1. CASE t # s
    <3>1. UNCHANGED gate
      BY <1>4 DEF CreateLocal, CreateSsh, Destroy
    <3> QED
      BY <1>1, <1>3, <1>4, <2>1, <3>1, MapSteps DEF Spared, At
  <2>2. CASE CreateLocal(s)
    BY <1>1, <2>2 DEF CreateLocal, Controller, LocalSound, ActorTypeOK, MapTypeOK
  <2>3. CASE Destroy(s)
    BY <1>1, <2>3 DEF Destroy, LocalSound, MapTypeOK
  <2> QED
    BY <1>1, <1>4, <2>1, <2>2, <2>3 DEF CreateSsh
<1>5. ASSUME NEW t \in Sessions, SessionTask(t) PROVE LocalSound(s)'
  <2>1. CASE Undrain(t)
    BY <1>1, <1>3, <2>1 DEF Undrain, actorVars, controlVars, Spared, At
  <2>2. CASE ~Undrain(t) /\ t = s
    BY <1>5, <2>2, LocalTask
  <2>3. CASE ~Undrain(t) /\ t # s
    <3>1. Effect(t) /\ UNCHANGED mapVars
      BY <1>5, <2>3, TaskEffect, TaskMap
    <3> QED
      BY <1>1, <1>3, <1>5, <2>3, <3>1, TaskPty DEF Effect, OthersStay, mapVars, Spared, At
  <2> QED
    BY <2>1, <2>2, <2>3
<1>6. ASSUME UNCHANGED <<ssh, pty, actorVars>>,
             place'[s] = place[s] \/ place'[s] = "removed",
             place[s] = "mapped" => (Spared(s)' => Spared(s))
      PROVE  LocalSound(s)'
  BY <1>3, <1>6 DEF actorVars, controlVars
<1>7. ASSUME NEW t \in Sessions, SkipRunning(t) \/ JudgeActive(t) \/ JudgeQueued(t)
      PROVE  LocalSound(s)'
  <2>1. UNCHANGED <<ssh, pty, actorVars, place>> /\ Spared(s)
    BY <1>7 DEF SkipRunning, JudgeActive, JudgeQueued, Spared
  <2> QED
    BY <1>6, <2>1
<1>8. ASSUME NEW t \in Sessions, QuiesceDead(t) PROVE LocalSound(s)'
  <2>1. Spared(s) /\ UNCHANGED <<place, ssh, pty, reader>> /\ t \in Mapped
    BY <1>1, <1>8 DEF QuiesceDead, Spared
  <2>2. CASE t = s
    BY <1>1, <1>2, <1>8, <2>1, <2>2 DEF QuiesceDead, IsRunning, LocalSound
  <2>3. CASE t # s
    BY <1>1, <1>8, <2>1, <2>3 DEF QuiesceDead, SetAccepting, LocalSound, ActorTypeOK
  <2> QED
    BY <2>2, <2>3
<1>9. ASSUME NEW t \in Sessions, QuiesceOne(t) PROVE LocalSound(s)'
  <2>1. /\ UNCHANGED <<place, ssh, pty, reader>> /\ t \in Mapped
        /\ gate'.pc = "quiesce" /\ gate'.todo = gate.todo \ {t}
    BY <1>1, <1>9 DEF QuiesceOne, At, GateType
  <2>2. CASE t = s
    BY <1>1, <1>2, <2>1, <2>2 DEF LocalSound, Spared, At
  <2>3. CASE t # s
    <3>1. flag'[s] = flag[s] /\ ctl'[s] = ctl[s]
      BY <1>1, <1>9, <2>3 DEF QuiesceOne, SetAccepting, ActorTypeOK
    <3>2. Spared(s)' => Spared(s)
      BY <1>9, <2>1 DEF QuiesceOne, Spared, At
    <3> QED
      BY <1>3, <2>1, <3>1, <3>2
  <2> QED
    BY <2>2, <2>3
<1>10. ASSUME NEW t \in Sessions, CheckActive(t) \/ CheckQueued(t) PROVE LocalSound(s)'
  <2>1. gate'.pc = "check" /\ UNCHANGED <<ssh, pty, actorVars, place>>
    BY <1>1, <1>10 DEF CheckActive, CheckQueued, At, GateType
  <2> QED
    BY <1>6, <2>1 DEF Spared, At
<1>11. ASSUME NEW t \in Sessions, ResumeOne(t) PROVE LocalSound(s)'
  <2>1. /\ UNCHANGED <<place, ssh, pty, reader>>
        /\ gate.pc = "resume"
        /\ gate'.pc = "resume" /\ gate'.todo = gate.todo \ {t}
    BY <1>1, <1>11 DEF ResumeOne, At, GateType
  <2>2. CASE t = s
    BY <1>1, <1>11, <2>1, <2>2 DEF ResumeOne, SetAccepting, Switched, LocalSound,
       ActorTypeOK
  <2>3. CASE t # s
    <3>1. flag'[s] = flag[s] /\ ctl'[s] = ctl[s]
      BY <1>1, <1>11, <2>3 DEF ResumeOne, SetAccepting, ActorTypeOK
    <3>2. Spared(s)' => Spared(s)
      BY <2>1, <2>3 DEF Spared, At
    <3> QED
      BY <1>3, <2>1, <3>1, <3>2
  <2> QED
    BY <2>2, <2>3
<1>12. ASSUME BeginCleanup \/ BeginRelaunch \/ ReleaseGate PROVE LocalSound(s)'
  <2>1. UNCHANGED <<ssh, pty, actorVars, place>>
    BY <1>12 DEF BeginCleanup, BeginRelaunch, ReleaseGate
  <2>2. Spared(s)
    BY <1>12 DEF BeginCleanup, BeginRelaunch, ReleaseGate, Spared
  <2> QED
    BY <1>6, <2>1, <2>2
<1>13. ASSUME Reap PROVE LocalSound(s)'
  <2>1. UNCHANGED <<ssh, pty, actorVars>> /\ Spared(s)
        /\ (place'[s] = place[s] \/ place'[s] = "removed")
    BY <1>1, <1>13 DEF Reap, Spared
  <2> QED
    BY <1>6, <2>1
<1>14. ASSUME ReadDraining PROVE LocalSound(s)'
  <2>1. gate'.pc = "check" /\ UNCHANGED <<ssh, pty, actorVars, place>>
    BY <1>14 DEF ReadDraining, Free
  <2> QED
    BY <1>6, <2>1 DEF Spared, At
<1>15. ASSUME Decide \/ RelaunchFails PROVE LocalSound(s)'
  <2>1. gate' \in {Resuming, [Free EXCEPT !.pc = "held"]}
    BY <1>15 DEF Decide, RelaunchFails
  <2>2. gate'.pc = "held" \/ (gate'.pc = "resume" /\ gate'.todo = Mapped)
    BY <2>1 DEF Resuming, Free
  <2>3. UNCHANGED <<ssh, pty, actorVars, place>>
    BY <1>15 DEF Decide, RelaunchFails
  <2>4. place[s] = "mapped" => ~Spared(s)'
    BY <1>1, <2>2 DEF Spared, At, Mapped
  <2> QED
    BY <1>6, <2>3, <2>4
<1>16. ASSUME Exec PROVE LocalSound(s)'
  <2>1. PICK restored \in SUBSET Preservable : Restore(restored)
    BY <1>16 DEF Exec
  <2>2. ssh'[s] = "over" /\ flag'[s]
    BY <1>1, <1>16 DEF Exec
  <2>3. reader'[s] \in {"none", "idle", "eof"} /\ ctl'[s] # "closed"
    BY <1>1, <2>1 DEF Restore, Controller
  <2> QED
    BY <2>2, <2>3 DEF LocalSound
<1>17. ASSUME UNCHANGED vars PROVE LocalSound(s)'
  BY <1>3, <1>17 DEF vars, Spared, At
<1> QED
  BY <1>4, <1>5, <1>7, <1>8, <1>9, <1>10, <1>11, <1>12, <1>13, <1>14, <1>15, <1>16, <1>17
     DEF Next, Cleanup, Relaunch, Idle

(* Whatever relaunches fail and clean-ups pass, every running local        *)
(* session of the map takes commands when the gate is free, for any        *)
(* sessions: what the runs lost_resume and dead_resume find is left to SSH *)
(* sessions and to dead ones (resume_tty_transfers).                       *)
THEOREM LocalsAlwaysResume == Spec => []LocalsResume
<1>1. ASSUME Init PROVE LocalsSound
  <2>1. \A s \in LocalSessions : s \in Sessions
    BY DEF Sessions
  <2> QED
    BY <1>1, <2>1 DEF Init, LocalsSound, LocalSound
<1>2. LifecycleInv /\ LocalsSound /\ [Next]_vars => LocalsSound'
  BY LocalStep DEF LocalsSound
<1>3. LocalsSound => LocalsResume
  BY DEF LocalsSound, LocalsResume, LocalSound, Spared, Mapped, IsRunning, Connecting
<1> QED
  BY <1>1, <1>2, <1>3, LifecycleSound, PTL DEF Spec

------------------------------------------------------------------------------
(* A session has no controller before its reader has started.              *)
Early(s) ==
    place[s] = "new" \/ ssh[s] # "over" \/ reader[s] \in {"startOpen", "startClosed"}

ControllerLater == \A s \in Sessions : Early(s) => ctl[s] = "none"

(* A task makes a session early again only by starting its reader.         *)
LEMMA EarlyTask ==
    ASSUME LifecycleInv, NEW s \in Sessions, SessionTask(s), ~Undrain(s),
           Early(s) => ctl[s] = "none"
    PROVE  Early(s)' => ctl'[s] = "none"
<1>1. ActorTypeOK /\ ActorSound(s) /\ UNCHANGED place
  BY TaskMap DEF LifecycleInv, LifecycleTypeOK, mapVars
<1>2. ASSUME Early(s)' => Early(s), ctl[s] = "none" => ctl'[s] = "none"
      PROVE  Early(s)' => ctl'[s] = "none"
  BY <1>2
<1>3. CASE SshReturns(s) \/ SshAttach(s) \/ StartReader(s)
  BY <1>1, <1>3 DEF SshReturns, Connecting, SshAttach, StartReader, actorVars, controlVars,
     Early
<1>4. CASE PublishController(s)
  BY <1>1, <1>4 DEF PublishController, Early, ActorSound, ActorTypeOK
<1>5. CASE \/ ReadCommand(s) \/ CountQueued(s) \/ Recheck(s) \/ UncountQueued(s)
           \/ SendCommand(s) \/ SendCommandFails(s)
  BY <1>1, <1>2, <1>5 DEF ReadCommand, CountQueued, Recheck, AfterRecheck, UncountQueued,
     SendCommand, SendCommandFails, controlVars, ActorTypeOK, Early
<1>6. CASE ReaderEof(s) \/ DrainActor(s)
  BY <1>1, <1>2, <1>6 DEF ReaderEof, DrainActor, Switched, ActorTypeOK, Early
<1>7. CASE \/ ChildExits(s)
           \/ RecvCommand(s) \/ FinishCommand(s) \/ EndTransfers(s) \/ WorkerFails(s)
           \/ RecvShutdown(s) \/ ResetActive(s) \/ ResetQueued(s) \/ CloseReceiver(s)
           \/ \E k \in Closers : SendShutdown(s, k) \/ SendShutdownFails(s, k)
  <2>1. UNCHANGED <<ssh, reader, ctl>>
    BY <1>7 DEF ChildExits, RecvCommand, FinishCommand, EndTransfers, WorkerFails,
       RecvShutdown, ResetActive, ResetQueued, CloseReceiver, SendShutdown,
       SendShutdownFails, actorVars, controlVars
  <2> QED
    BY <1>1, <1>2, <2>1 DEF Early
<1> QED
  BY <1>3, <1>4, <1>5, <1>6, <1>7
     DEF SessionTask, SshTask, Submitting, WorkerTask, ShutdownTask

LEMMA ControllerStep == LifecycleInv /\ ControllerLater /\ [Next]_vars => ControllerLater'
<1> SUFFICES ASSUME LifecycleInv, ControllerLater, [Next]_vars, NEW s \in Sessions
             PROVE  Early(s)' => ctl'[s] = "none"
  BY DEF ControllerLater
<1>1. ActorTypeOK /\ MapTypeOK /\ (Early(s) => ctl[s] = "none")
  BY DEF LifecycleInv, LifecycleTypeOK, ControllerLater
<1>2. ASSUME ssh'[s] = ssh[s], reader'[s] = reader[s], ctl[s] = "none" => ctl'[s] = "none",
             place'[s] = "new" => place[s] = "new"
      PROVE  Early(s)' => ctl'[s] = "none"
  BY <1>1, <1>2 DEF Early
<1>3. ASSUME NEW t \in Sessions, CreateLocal(t) \/ CreateSsh(t) \/ Destroy(t)
      PROVE  Early(s)' => ctl'[s] = "none"
  <2>1. CASE t # s
    BY <1>2, <1>3, <2>1, MapSteps
  <2>2. CASE CreateLocal(s)
    <3>1. place'[s] = "mapped" /\ reader'[s] = "idle" /\ ssh'[s] = ssh[s]
      BY <1>1, <2>2 DEF CreateLocal, ActorTypeOK, MapTypeOK
    <3>2. ssh[s] = "over"
      BY <2>2 DEF CreateLocal, LifecycleInv, ActorSound
    <3> QED
      BY <3>1, <3>2 DEF Early
  <2>3. CASE CreateSsh(s)
    BY <1>1, <2>3 DEF CreateSsh, Early, actorVars, controlVars
  <2>4. CASE Destroy(s)
    BY <1>1, <1>2, <2>4 DEF Destroy, SetAccepting, Switched, ActorTypeOK, MapTypeOK
  <2> QED
    BY <1>3, <2>1, <2>2, <2>3, <2>4
<1>4. ASSUME NEW t \in Sessions, SessionTask(t) PROVE Early(s)' => ctl'[s] = "none"
  <2>1. CASE Undrain(t)
    BY <1>2, <2>1 DEF Undrain, actorVars, controlVars
  <2>2. CASE ~Undrain(t) /\ t = s
    BY <1>1, <1>4, <2>2, EarlyTask
  <2>3. CASE ~Undrain(t) /\ t # s
    <3>1. Effect(t) /\ UNCHANGED place
      BY <1>4, <2>3, TaskEffect, TaskMap DEF mapVars
    <3> QED
      BY <1>2, <2>3, <3>1 DEF Effect, OthersStay
  <2> QED
    BY <2>1, <2>2, <2>3
<1>5. ASSUME BeginCleanup \/ Cleanup \/ BeginRelaunch \/ Relaunch \/ Idle \/ UNCHANGED vars,
             ~Exec
      PROVE  Early(s)' => ctl'[s] = "none"
  <2>1. place'[s] = "new" => place[s] = "new"
    BY <1>5, GatePlace
  <2>2. CASE UNCHANGED <<ssh, pty, actorVars>>
    BY <1>2, <2>1, <2>2 DEF actorVars, controlVars
  <2>3. ASSUME NEW t \in Sessions, QuiesceDead(t) \/ QuiesceOne(t) \/ ResumeOne(t)
        PROVE  Early(s)' => ctl'[s] = "none"
    <3>1. PICK on \in BOOLEAN : SetAccepting(t, on)
      BY <2>3, SwitchSteps
    <3>2. UNCHANGED <<ssh, reader>>
      BY <2>3, SwitchSteps
    <3>3. ctl[s] = "none" => ctl'[s] = "none"
      BY <1>1, <3>1 DEF SetAccepting, Switched, ActorTypeOK
    <3> QED
      BY <1>2, <2>1, <3>2, <3>3
  <2> QED
    BY <1>5, <2>2, <2>3, GateSteps
<1>6. ASSUME Exec PROVE Early(s)' => ctl'[s] = "none"
  <2>1. PICK restored \in SUBSET Preservable : Restore(restored)
    BY <1>6 DEF Exec
  <2>2. ssh'[s] = "over"
    BY <1>6 DEF Exec
  <2>3. s \in restored => place[s] # "new"
    BY DEF Preservable, Mapped
  <2> QED
    BY <2>1, <2>2, <2>3 DEF Restore, Early
<1> QED
  BY <1>3, <1>4, <1>5, <1>6 DEF Next

(* Three kinds of step that the outline has.                               *)
Outlined(s) ==
    ActorOutline(s)!Next \/ UNCHANGED <<ctl[s], Working(s), Alive(s)>>

LEMMA OutlineOf ==
    ASSUME ActorTypeOK, ActorTypeOK', NEW s \in Sessions, ctl[s] # "none", ctl'[s] # "none",
           \/ (Alive(s)' <=> Alive(s)) /\ (Working(s)' <=> Working(s))
           \/ /\ Alive(s)' <=> Alive(s)
              /\ ctl'[s] = ctl[s]
              /\ Working(s)' => Working(s) \/ (ctl[s] = "open" /\ Alive(s))
           \/ Alive(s) /\ ~Alive(s)' /\ ctl'[s] = ctl[s]
    PROVE  Outlined(s)
<1>1. /\ ctl[s] \in {"open", "closed"} /\ ctl'[s] \in {"open", "closed"}
      /\ Working(s) \in BOOLEAN /\ Working(s)' \in BOOLEAN
      /\ Alive(s) \in BOOLEAN /\ Alive(s)' \in BOOLEAN
      /\ ~Alive(s)' => ~Working(s)'
  BY DEF ActorTypeOK, Working, Alive
<1>2. CASE (Alive(s)' <=> Alive(s)) /\ (Working(s)' <=> Working(s))
  BY <1>1, <1>2 DEF Outlined, ActorOutline!Next, ActorOutline!Switch
<1>3. CASE /\ Alive(s)' <=> Alive(s)
           /\ ctl'[s] = ctl[s]
           /\ Working(s)' => Working(s) \/ (ctl[s] = "open" /\ Alive(s))
  BY <1>1, <1>3 DEF Outlined, ActorOutline!Next, ActorOutline!Admit, ActorOutline!End
<1>4. CASE Alive(s) /\ ~Alive(s)' /\ ctl'[s] = ctl[s]
  BY <1>1, <1>4 DEF Outlined, ActorOutline!Next, ActorOutline!Return
<1> QED
  BY <1>2, <1>3, <1>4

(* The tasks of a session: only the second test of submit() lets work in,  *)
(* and only a worker that returns ends it for good.                        *)
LEMMA OutlineTask ==
    ASSUME LifecycleInv, ControllerLater, NEW s \in Sessions, SessionTask(s), ~Undrain(s),
           ctl[s] # "none"
    PROVE  Outlined(s)
<1>1. ActorTypeOK /\ ActorTypeOK' /\ ActorSound(s) /\ ~Early(s)
  BY TaskEffect DEF LifecycleInv, LifecycleTypeOK, Effect, ControllerLater
<1>2. CASE SshReturns(s) \/ SshAttach(s) \/ StartReader(s) \/ PublishController(s)
  BY <1>1, <1>2 DEF SshReturns, Connecting, SshAttach, StartReader, PublishController,
     Early
<1>3. CASE ChildExits(s)
  <2>1. UNCHANGED actorVars
    BY <1>3 DEF ChildExits
  <2> QED
    BY <1>1, <2>1, OutlineOf DEF actorVars, controlVars, Working, Alive
<1>4. CASE ReadCommand(s) \/ CountQueued(s) \/ UncountQueued(s)
  <2>1. /\ reader[s] # "send" /\ reader'[s] # "send"
        /\ UNCHANGED <<ctl, worker, chan, active>>
    BY <1>1, <1>4 DEF ReadCommand, CountQueued, UncountQueued, controlVars, ActorTypeOK
  <2> QED
    BY <1>1, <2>1, OutlineOf DEF Working, Alive
<1>5. CASE Recheck(s)
  <2>1. /\ reader[s] # "send" /\ UNCHANGED <<ctl, worker, chan, active>>
        /\ reader'[s] = "send" => ctl[s] = "open"
    BY <1>1, <1>5 DEF Recheck, AfterRecheck, controlVars, ActorTypeOK
  <2>2. Alive(s)' <=> Alive(s)
    BY <2>1 DEF Alive
  <2>3. Working(s)' => Working(s) \/ (ctl[s] = "open" /\ Alive(s))
    BY <2>1, <2>2 DEF Working
  <2> QED
    BY <1>1, <2>1, <2>2, <2>3, OutlineOf
<1>6. CASE SendCommand(s)
  <2>1. /\ reader[s] = "send" /\ UNCHANGED <<ctl, worker, active>>
        /\ chan'[s] = Append(chan[s], "command")
    BY <1>1, <1>6 DEF SendCommand, ActorTypeOK
  <2>2. Alive(s)' <=> Alive(s)
    BY <2>1 DEF Alive
  <2>3. Working(s)' => Working(s)
    BY <2>1, <2>2 DEF Working
  <2> QED
    BY <1>1, <2>1, <2>2, <2>3, OutlineOf
<1>7. CASE SendCommandFails(s)
  <2>1. ~Alive(s) /\ UNCHANGED <<ctl, worker>>
    BY <1>7 DEF SendCommandFails, Alive
  <2> QED
    BY <1>1, <2>1, OutlineOf DEF Working, Alive
<1>8. CASE ReaderEof(s) \/ DrainActor(s)
  <2>1. /\ ctl'[s] # "none" /\ UNCHANGED <<worker, chan, active>>
        /\ reader[s] = "send" <=> reader'[s] = "send"
    BY <1>1, <1>8 DEF ReaderEof, DrainActor, Switched, ActorTypeOK
  <2> QED
    BY <1>1, <2>1, OutlineOf DEF Working, Alive
<1>9. CASE RecvCommand(s)
  <2>1. /\ worker[s] = "recv" /\ worker'[s] = "work" /\ UNCHANGED <<ctl, reader>>
        /\ chan[s] \in Seq(Messages) /\ chan[s] # <<>> /\ Head(chan[s]) = "command"
    BY <1>1, <1>9 DEF RecvCommand, NextIs, ActorTypeOK, Messages
  <2>2. Working(s)
    BY <2>1, CommandsTail DEF Working, Alive
  <2> QED
    BY <1>1, <2>1, <2>2, OutlineOf DEF Alive
<1>10. CASE FinishCommand(s) \/ EndTransfers(s)
  <2>1. /\ UNCHANGED <<ctl, reader, chan>>
        /\ Alive(s) /\ Alive(s)'
        /\ worker'[s] = "work" => worker[s] = "work"
        /\ active'[s] => active[s]
    BY <1>1, <1>10 DEF FinishCommand, EndTransfers, Alive, ActorTypeOK
  <2>2. Working(s)' => Working(s)
    BY <2>1 DEF Working
  <2> QED
    BY <1>1, <2>1, <2>2, OutlineOf
<1>11. CASE WorkerFails(s) \/ RecvShutdown(s)
  <2>1. UNCHANGED ctl /\ Alive(s) /\ ~Alive(s)'
    BY <1>1, <1>11 DEF WorkerFails, RecvShutdown, Alive, ActorTypeOK
  <2> QED
    BY <1>1, <2>1, OutlineOf
<1>12. CASE ResetActive(s) \/ ResetQueued(s) \/ CloseReceiver(s)
  <2>1. UNCHANGED ctl /\ ~Alive(s) /\ ~Alive(s)'
    BY <1>1, <1>12 DEF ResetActive, ResetQueued, CloseReceiver, Alive, ActorTypeOK
  <2> QED
    BY <1>1, <2>1, OutlineOf DEF Working
<1>13. ASSUME NEW k \in Closers, SendShutdown(s, k) PROVE Outlined(s)
  <2>1. /\ UNCHANGED <<ctl, reader, worker, active>>
        /\ chan'[s] = Append(chan[s], k) /\ chan[s] \in Seq(Messages)
        /\ k \in Messages /\ k # "command"
    BY <1>1, <1>13 DEF SendShutdown, ActorTypeOK, Messages, Closers
  <2>2. CommandsOf(chan'[s]) = CommandsOf(chan[s])
    BY <2>1, CommandsAppend
  <2> QED
    BY <1>1, <2>1, <2>2, OutlineOf DEF Working, Alive
<1>14. ASSUME NEW k \in Closers, SendShutdownFails(s, k) PROVE Outlined(s)
  <2>1. UNCHANGED <<ctl, reader, worker, chan, active>>
    BY <1>14 DEF SendShutdownFails
  <2> QED
    BY <1>1, <2>1, OutlineOf DEF Working, Alive
<1> QED
  BY <1>2, <1>3, <1>4, <1>5, <1>6, <1>7, <1>8, <1>9, <1>10, <1>11, <1>12, <1>13, <1>14
     DEF SessionTask, SshTask, Submitting, WorkerTask, ShutdownTask

(* The actors of the session map keep the outline until exec replaces them *)
(* (submit, shutdown, set_accepting).                                      *)
THEOREM ActorsOutlined == Spec => ActorsKeepOutline
<1> DEFINE Keeps(s) ==
      ctl[s] # "none" =>
        Exec \/ ActorOutline(s)!Next \/ UNCHANGED <<ctl[s], Working(s), Alive(s)>>
<1>1. ASSUME LifecycleInv, ControllerLater, [Next]_vars, NEW s \in Sessions PROVE Keeps(s)
  <2> SUFFICES ASSUME ctl[s] # "none", ~Exec PROVE Outlined(s)
    BY DEF Outlined
  <2>1. ActorTypeOK /\ ActorTypeOK' /\ ~Early(s)
    BY <1>1, StepSound DEF LifecycleInv, LifecycleTypeOK, ControllerLater
  <2>2. ASSUME ctl'[s] # "none", reader'[s] = reader[s], worker'[s] = worker[s],
               chan'[s] = chan[s], active'[s] = active[s]
        PROVE  Outlined(s)
    BY <2>1, <2>2, OutlineOf DEF Working, Alive
  <2>3. ASSUME NEW t \in Sessions, NEW on \in BOOLEAN, SetAccepting(t, on)
        PROVE  ctl'[s] # "none"
    BY <2>1, <2>3 DEF SetAccepting, Switched, ActorTypeOK
  <2>4. ASSUME NEW t \in Sessions, CreateLocal(t) \/ CreateSsh(t) \/ Destroy(t)
        PROVE  Outlined(s)
    <3>1. CASE t # s
      BY <1>1, <2>2, <2>4, <3>1, MapSteps
    <3>2. CASE t = s
      <4>1. Destroy(s)
        BY <2>1, <2>4, <3>2 DEF CreateLocal, CreateSsh, Early
      <4> QED
        BY <2>2, <2>3, <4>1 DEF Destroy
    <3> QED
      BY <3>1, <3>2
  <2>5. ASSUME NEW t \in Sessions, SessionTask(t) PROVE Outlined(s)
    <3>1. CASE Undrain(t)
      BY <2>2, <3>1 DEF Undrain, actorVars, controlVars
    <3>2. CASE ~Undrain(t) /\ t = s
      BY <1>1, <2>5, <3>2, OutlineTask
    <3>3. CASE ~Undrain(t) /\ t # s
      <4>1. Effect(t)
        BY <1>1, <2>5, <3>3, TaskEffect
      <4> QED
        BY <2>2, <3>3, <4>1 DEF Effect, OthersStay
    <3> QED
      BY <3>1, <3>2, <3>3
  <2>6. CASE UNCHANGED <<ssh, pty, actorVars>>
    BY <2>2, <2>6 DEF actorVars, controlVars
  <2>7. ASSUME NEW t \in Sessions, QuiesceDead(t) \/ QuiesceOne(t) \/ ResumeOne(t)
        PROVE  Outlined(s)
    BY <2>2, <2>3, <2>7, SwitchSteps
  <2> QED
    BY <1>1, <2>4, <2>5, <2>6, <2>7, GateSteps DEF Next
<1>2. LifecycleInv /\ ControllerLater /\ [Next]_vars => [\A s \in Sessions : Keeps(s)]_vars
  BY <1>1
<1>3. Init => ControllerLater
  BY DEF Init, ControllerLater
<1> QED
  BY <1>2, <1>3, ControllerStep, LifecycleSound, PTL DEF Spec, ActorsKeepOutline

==============================================================================
