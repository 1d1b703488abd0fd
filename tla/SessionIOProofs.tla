---------------------------- MODULE SessionIOProofs ----------------------------
(***************************************************************************)
(* The three ways in which a session talks to the outside.  First the      *)
(* consent prompts: every client with an event stream sees every open      *)
(* prompt, once, for any number of prompts and clients and any capacity of *)
(* the channel.  Then the composition: a behaviour of the session is one   *)
(* of each of its three parts, so that what is proved of a part (here, and *)
(* in PtyBridgeProofs and ScreenStreamProofs) is true of the session.      *)
(***************************************************************************)
EXTENDS SessionIO, PtyBridgeProofs, ScreenStreamProofs, TLAPS

(* What a channel holds after a prompt has been sent on it.                *)
LEMMA AppendElements ==
    ASSUME NEW S, NEW s \in Seq(S), NEW p \in S
    PROVE  /\ Append(s, p) \in Seq(S) /\ Len(Append(s, p)) = Len(s) + 1
           /\ Elements(Append(s, p)) = Elements(s) \cup {p}
           /\ Once(s) /\ p \notin Elements(s) => Once(Append(s, p))
<1>1. /\ DOMAIN s = 1..Len(s) /\ Len(s) \in Nat
      /\ DOMAIN Append(s, p) = 1..(Len(s) + 1) /\ Len(Append(s, p)) = Len(s) + 1
      /\ \A i \in 1..Len(s) : Append(s, p)[i] = s[i]
      /\ Append(s, p)[Len(s) + 1] = p
  OBVIOUS
<1>2. \A i \in 1..(Len(s) + 1) : i \in 1..Len(s) \/ i = Len(s) + 1
  BY <1>1
<1>3. Elements(Append(s, p)) = Elements(s) \cup {p}
  BY <1>1, <1>2 DEF Elements
<1>4. Once(s) /\ p \notin Elements(s) => Once(Append(s, p))
  BY <1>1, <1>2 DEF Elements, Once
<1> QED
  BY <1>1, <1>3, <1>4

(* What a channel holds after its oldest prompt has left it.               *)
LEMMA TailElements ==
    ASSUME NEW S, NEW s \in Seq(S), s # <<>>
    PROVE  /\ Tail(s) \in Seq(S) /\ Head(s) \in S /\ Len(Tail(s)) = Len(s) - 1
           /\ Elements(s) = {Head(s)} \cup Elements(Tail(s))
           /\ Once(s) => Once(Tail(s)) /\ Head(s) \notin Elements(Tail(s))
<1>1. /\ DOMAIN s = 1..Len(s) /\ Len(s) \in Nat \ {0} /\ Head(s) = s[1] /\ Head(s) \in S
      /\ Tail(s) \in Seq(S) /\ Len(Tail(s)) = Len(s) - 1
      /\ DOMAIN Tail(s) = 1..(Len(s) - 1)
      /\ \A i \in 1..(Len(s) - 1) : Tail(s)[i] = s[i + 1]
  OBVIOUS
<1>2. \A i \in 1..(Len(s) - 1) : i + 1 \in 1..Len(s) /\ i + 1 # 1
  BY <1>1
<1>3. \A j \in 1..Len(s) : j = 1 \/ (j - 1 \in 1..(Len(s) - 1) /\ Tail(s)[j - 1] = s[j])
  BY <1>1
<1>4. Elements(s) = {Head(s)} \cup Elements(Tail(s))
  <2>1. ASSUME NEW x \in Elements(s) PROVE x = Head(s) \/ x \in Elements(Tail(s))
    <3>1. PICK j \in 1..Len(s) : x = s[j]
      BY <1>1 DEF Elements
    <3>2. j = 1 \/ (j - 1 \in DOMAIN Tail(s) /\ Tail(s)[j - 1] = x)
      BY <1>1, <1>3, <3>1
    <3> QED
      BY <1>1, <3>1, <3>2 DEF Elements
  <2>2. \A x \in Elements(Tail(s)) : x \in Elements(s)
    BY <1>1, <1>2 DEF Elements
  <2>3. Head(s) \in Elements(s)
    BY <1>1 DEF Elements
  <2> QED
    BY <2>1, <2>2, <2>3
<1>5. Once(s) => Once(Tail(s)) /\ Head(s) \notin Elements(Tail(s))
  BY <1>1, <1>2 DEF Elements, Once
<1> QED
  BY <1>1, <1>4, <1>5

(* What a client has seen or is going to see.                              *)
Due(w) == replay[w] \cup Elements(live[w]) \cup Elements(shown[w])

(* The claim of ApprovalSeen for one client.                               *)
Seen(w) ==
    /\ registry \subseteq Due(w) \/ overrun[w]
    /\ Once(live[w]) /\ Once(shown[w])
    /\ replay[w] \cap (Elements(live[w]) \cup Elements(shown[w])) = {}
    /\ Elements(live[w]) \cap Elements(shown[w]) = {}

(* ApprovalSeen, client by client.                                         *)
LEMMA SeenByAll == ApprovalSeen <=> \A w \in listening : Seen(w)
BY DEF ApprovalSeen, Seen, Due

(* The types of what one client holds.                                     *)
Held(w) ==
    /\ replay[w] \subseteq issued
    /\ live[w] \in Seq(issued) /\ Len(live[w]) <= PromptCap
    /\ shown[w] \in Seq(issued)

(* The types, client by client.                                            *)
LEMMA HeldByAll == PromptTypeOK => \A w \in Watchers : Held(w)
BY DEF PromptTypeOK, Held

(* Nothing that is shown has not been issued.                              *)
LEMMA ElementsIssued == ASSUME NEW S, NEW s \in Seq(S) PROVE Elements(s) \subseteq S
BY DEF Elements

(* The registry is empty and nobody listens (SessionState::new).           *)
LEMMA InitShown == PromptInit => PromptTypeOK /\ ApprovalSeen
BY PromptAssumption DEF PromptInit, PromptTypeOK, ApprovalSeen

------------------------------------------------------------------------------
(* A new prompt joins the registry and every open channel.                 *)
LEMMA RegisterSeen ==
    ASSUME PromptTypeOK, ApprovalSeen, NEW p \in Prompts, Register(p)
    PROVE  PromptTypeOK' /\ ApprovalSeen'
<1> DEFINE Kept(w) == IF Len(live[w]) >= PromptCap THEN Tail(live[w]) ELSE live[w]
<1>1. /\ issued' = issued \cup {p} /\ p \notin issued /\ registry' = registry \cup {p}
      /\ UNCHANGED <<listening, replay, shown>>
      /\ \A w \in Watchers : live'[w] = IF w \notin listening THEN live[w] ELSE Append(Kept(w), p)
      /\ \A w \in Watchers :
           overrun'[w] = (overrun[w] \/ (w \in listening /\ Len(live[w]) >= PromptCap))
      /\ live' \in [Watchers -> {live'[w] : w \in Watchers}]
      /\ overrun' \in [Watchers -> BOOLEAN]
  BY DEF Register, PromptTypeOK
<1>2. ASSUME NEW w \in Watchers
      PROVE  /\ Kept(w) \in Seq(issued) /\ Len(Kept(w)) < PromptCap
             /\ Elements(Kept(w)) \subseteq Elements(live[w])
             /\ Len(live[w]) < PromptCap => Kept(w) = live[w]
             /\ Once(live[w]) => Once(Kept(w))
  <2>1. Held(w) /\ Len(live[w]) \in Nat
    BY HeldByAll DEF Held
  <2>2. CASE Len(live[w]) >= PromptCap
    <3>1. live[w] # <<>>
      BY <2>1, <2>2, PromptAssumption
    <3> QED
      BY <2>1, <2>2, <3>1, TailElements, PromptAssumption DEF Held
  <2>3. CASE Len(live[w]) < PromptCap
    BY <2>1, <2>3, PromptAssumption DEF Held
  <2> QED
    BY <2>1, <2>2, <2>3, PromptAssumption
<1> HIDE DEF Kept
<1>3. ASSUME NEW w \in listening
      PROVE  /\ live'[w] \in Seq(issued') /\ Len(live'[w]) <= PromptCap
             /\ Elements(live'[w]) = Elements(Kept(w)) \cup {p}
             /\ Once(live[w]) => Once(live'[w])
  <2>1. w \in Watchers
    BY DEF PromptTypeOK
  <2>2. Kept(w) \in Seq(issued') /\ p \in issued' /\ p \notin Elements(Kept(w))
    <3>1. Kept(w) \in Seq(issued) /\ issued \subseteq issued'
      BY <1>1, <1>2, <2>1
    <3>2. Kept(w) \in Seq(issued')
      BY <3>1
    <3>3. p \notin Elements(Kept(w))
      BY <1>1, <3>1, ElementsIssued
    <3> QED
      BY <1>1, <3>2, <3>3
  <2>3. live'[w] = Append(Kept(w), p) /\ Len(Kept(w)) \in Nat
    BY <1>1, <2>1, <2>2
  <2>4. /\ live'[w] \in Seq(issued') /\ Len(live'[w]) = Len(Kept(w)) + 1
        /\ Elements(live'[w]) = Elements(Kept(w)) \cup {p}
        /\ Once(Kept(w)) => Once(live'[w])
    BY <2>2, <2>3, AppendElements
  <2> QED
    BY <1>2, <2>1, <2>3, <2>4, PromptAssumption
<1>4. \A w \in Watchers : live'[w] \in Seq(issued') /\ Len(live'[w]) <= PromptCap
  BY <1>1, <1>3, HeldByAll DEF Held
<1>5. PromptTypeOK'
  BY <1>1, <1>4 DEF PromptTypeOK
<1>6. ASSUME NEW w \in listening PROVE Seen(w)'
  <2>1. w \in Watchers /\ Seen(w) /\ Held(w)
    BY SeenByAll, HeldByAll DEF PromptTypeOK
  <2>2. p \notin Elements(shown[w]) /\ p \notin replay[w]
    BY <1>1, <2>1, ElementsIssued DEF Held
  <2>3. Len(live[w]) < PromptCap \/ overrun'[w]
    BY <1>1, <2>1, PromptAssumption DEF Held
  <2>4. /\ Elements(live'[w]) = Elements(Kept(w)) \cup {p}
        /\ Elements(Kept(w)) \subseteq Elements(live[w])
        /\ shown'[w] = shown[w] /\ replay'[w] = replay[w]
        /\ Once(live'[w]) /\ Once(shown'[w])
    BY <1>1, <1>2, <1>3, <2>1 DEF Seen
  <2>5. /\ replay'[w] \cap (Elements(live'[w]) \cup Elements(shown'[w])) = {}
        /\ Elements(live'[w]) \cap Elements(shown'[w]) = {}
    BY <2>1, <2>2, <2>4 DEF Seen
  <2>6. CASE overrun'[w]
    BY <2>4, <2>5, <2>6 DEF Seen
  <2>7. CASE Len(live[w]) < PromptCap /\ ~overrun'[w]
    <3>1. Elements(live'[w]) = Elements(live[w]) \cup {p}
      BY <1>2, <2>1, <2>4, <2>7
    <3>2. ~overrun[w]
      BY <1>1, <2>1, <2>7
    <3>3. registry' \subseteq Due(w)'
      BY <1>1, <2>1, <2>4, <3>1, <3>2 DEF Seen, Due
    <3> QED
      BY <2>4, <2>5, <3>3 DEF Seen
  <2> QED
    BY <2>3, <2>6, <2>7
<1> QED
  BY <1>1, <1>5, <1>6, SeenByAll DEF ApprovalSeen, Seen, Due

(* A resolved prompt may still reach a client: nothing else changes.       *)
LEMMA ClearSeen ==
    ASSUME PromptTypeOK, ApprovalSeen, NEW p \in Prompts, Clear(p)
    PROVE  PromptTypeOK' /\ ApprovalSeen'
BY DEF Clear, PromptTypeOK, ApprovalSeen

(* A new stream starts with the whole registry and an empty channel.       *)
LEMMA ListenSeen ==
    ASSUME PromptTypeOK, ApprovalSeen, NEW w \in Watchers, Listen(w)
    PROVE  PromptTypeOK' /\ ApprovalSeen'
<1>1. PromptTypeOK'
  BY DEF Listen, Snapshot, PromptTypeOK
<1>2. replay'[w] = registry /\ live'[w] = <<>> /\ shown'[w] = <<>>
  BY DEF Listen, Snapshot, PromptTypeOK
<1>3. Elements(<<>>) = {} /\ Once(<<>>)
  BY DEF Elements, Once
<1>4. ASSUME NEW x \in listening' PROVE Seen(x)'
  <2>1. CASE x = w
    BY <1>2, <1>3, <2>1 DEF Listen, Seen, Due
  <2>2. CASE x # w
    BY <2>2, SeenByAll DEF Listen, Seen, Due, PromptTypeOK
  <2> QED
    BY <2>1, <2>2
<1> QED
  BY <1>1, <1>4 DEF ApprovalSeen, Seen, Due

(* A prompt of the snapshot is delivered.                                  *)
LEMMA ReplaySeen ==
    ASSUME PromptTypeOK, ApprovalSeen, NEW w \in Watchers, Replay(w)
    PROVE  PromptTypeOK' /\ ApprovalSeen'
<1>1. PICK p \in replay[w] :
        /\ replay' = [replay EXCEPT ![w] = @ \ {p}]
        /\ shown' = [shown EXCEPT ![w] = Append(@, p)]
        /\ UNCHANGED <<registry, issued, listening, live, overrun>>
  BY DEF Replay
<1>2. w \in listening /\ Seen(w) /\ Held(w)
  BY <1>1, SeenByAll, HeldByAll DEF PromptTypeOK
<1>3. p \in issued /\ p \notin Elements(shown[w]) /\ p \notin Elements(live[w])
  BY <1>1, <1>2 DEF Held, Seen
<1>4. replay'[w] = replay[w] \ {p} /\ shown'[w] = Append(shown[w], p)
  BY <1>1 DEF PromptTypeOK
<1>5. /\ shown'[w] \in Seq(issued)
      /\ Elements(shown'[w]) = Elements(shown[w]) \cup {p} /\ Once(shown'[w])
  BY <1>2, <1>3, <1>4, AppendElements DEF Held, Seen
<1>6. PromptTypeOK'
  BY <1>1, <1>2, <1>5 DEF PromptTypeOK
<1>7. ASSUME NEW x \in listening PROVE Seen(x)'
  <2>1. CASE x = w
    BY <1>1, <1>2, <1>3, <1>4, <1>5, <2>1 DEF Seen, Due
  <2>2. CASE x # w
    BY <1>1, <2>2, SeenByAll DEF Seen, Due, PromptTypeOK
  <2> QED
    BY <2>1, <2>2
<1> QED
  BY <1>1, <1>6, <1>7 DEF ApprovalSeen, Seen, Due

(* A prompt of the channel is delivered.                                   *)
LEMMA DeliverSeen ==
    ASSUME PromptTypeOK, ApprovalSeen, NEW w \in Watchers, Deliver(w)
    PROVE  PromptTypeOK' /\ ApprovalSeen'
<1> DEFINE p == Head(live[w])
<1>1. w \in listening /\ Seen(w) /\ Held(w) /\ live[w] # <<>>
  BY SeenByAll, HeldByAll DEF Deliver, PromptTypeOK
<1>2. /\ live'[w] = Tail(live[w]) /\ shown'[w] = Append(shown[w], p)
      /\ UNCHANGED <<registry, issued, listening, replay, overrun>>
  BY DEF Deliver, PromptTypeOK
<1>3. /\ live'[w] \in Seq(issued) /\ Len(live'[w]) = Len(live[w]) - 1
      /\ Elements(live[w]) = {p} \cup Elements(live'[w])
      /\ Once(live'[w]) /\ p \notin Elements(live'[w]) /\ p \in issued
  BY <1>1, <1>2, TailElements DEF Held, Seen
<1>4. p \notin Elements(shown[w])
  BY <1>1, <1>3 DEF Seen
<1>5. /\ shown'[w] \in Seq(issued)
      /\ Elements(shown'[w]) = Elements(shown[w]) \cup {p} /\ Once(shown'[w])
  BY <1>1, <1>2, <1>3, <1>4, AppendElements DEF Held, Seen
<1>6. Len(live'[w]) <= PromptCap
  BY <1>1, <1>3, PromptAssumption DEF Held
<1>7. PromptTypeOK'
  BY <1>1, <1>2, <1>3, <1>5, <1>6 DEF Deliver, PromptTypeOK
<1>8. ASSUME NEW x \in listening PROVE Seen(x)'
  <2>1. CASE x = w
    BY <1>1, <1>2, <1>3, <1>4, <1>5, <2>1 DEF Seen, Due
  <2>2. CASE x # w
    BY <2>2, SeenByAll DEF Deliver, Seen, Due, PromptTypeOK
  <2> QED
    BY <2>1, <2>2
<1> QED
  BY <1>2, <1>7, <1>8 DEF ApprovalSeen, Seen, Due

(* A closed stream leaves nothing behind.                                  *)
LEMMA DisconnectSeen ==
    ASSUME PromptTypeOK, ApprovalSeen, NEW w \in Watchers, Disconnect(w)
    PROVE  PromptTypeOK' /\ ApprovalSeen'
<1>1. PromptTypeOK'
  BY PromptAssumption DEF Disconnect, PromptTypeOK
<1>2. ASSUME NEW x \in listening \ {w} PROVE Seen(x)'
  BY SeenByAll DEF Disconnect, Seen, Due, PromptTypeOK
<1> QED
  BY <1>1, <1>2 DEF Disconnect, ApprovalSeen, Seen, Due

------------------------------------------------------------------------------
(* One step of the prompt stream.                                          *)
LEMMA NextSeen ==
    PromptTypeOK /\ ApprovalSeen /\ [PromptNext]_promptVars => PromptTypeOK' /\ ApprovalSeen'
<1> SUFFICES ASSUME PromptTypeOK, ApprovalSeen, [PromptNext]_promptVars
             PROVE  PromptTypeOK' /\ ApprovalSeen'
  OBVIOUS
<1>1. CASE UNCHANGED promptVars
  BY <1>1 DEF promptVars, PromptTypeOK, ApprovalSeen
<1>2. CASE \E p \in Prompts : Register(p) \/ Clear(p)
  BY <1>2, RegisterSeen, ClearSeen
<1>3. CASE \E w \in Watchers : Listen(w) \/ Replay(w) \/ Deliver(w) \/ Disconnect(w)
  BY <1>3, ListenSeen, ReplaySeen, DeliverSeen, DisconnectSeen
<1> QED
  BY <1>1, <1>2, <1>3 DEF PromptNext

(* Types and capacities hold for every number of prompts and clients.      *)
THEOREM PromptTyped == PromptSpec => []PromptTypeOK
<1> QED
  BY InitShown, NextSeen, PTL DEF PromptSpec

(* A client with an event stream sees every open prompt, and none twice,   *)
(* unless its channel overran (subscribe_tty_transfer_prompts).            *)
THEOREM ApprovalShown == PromptSpec => []ApprovalSeen
<1> QED
  BY InitShown, NextSeen, PTL DEF PromptSpec
------------------------------------------------------------------------------
(* The parts start as they do on their own.                                *)
LEMMA InitOfParts == Init => BridgeInit /\ ScreenInit /\ PromptInit
BY DEF Init

(* A step of the session is a step of one part, and stutters in the others. *)
LEMMA StepOfParts ==
    [Next]_vars =>
      [BridgeNext]_bridgeVars /\ [ScreenNext]_screenVars /\ [PromptNext]_promptVars
BY DEF Next, WithChild, WithScreen, WithPrompts, vars

(* The session is an instance of the bridge, of the screen stream and of   *)
(* the prompt stream at once (SessionState, whose tasks share no lock).    *)
THEOREM SessionRunsParts == Spec => BridgeSpec /\ ScreenSpec /\ PromptSpec
<1> QED
  BY InitOfParts, StepOfParts, PTL DEF Spec, BridgeSpec, ScreenSpec, PromptSpec

(* Types and capacities hold in the whole session.                         *)
THEOREM SessionTyped == Spec => [](BridgeTypeOK /\ ScreenTypeOK /\ PromptTypeOK)
<1> QED
  BY SessionRunsParts, BridgeTyped, ScreenTyped, PromptTyped, PTL

(* In the whole session, a streamed file has no holes                      *)
(* (send_with_backpressure).                                               *)
THEOREM SessionStreamsGapless == Spec => []StreamHasNoGap
<1> QED
  BY SessionRunsParts, StreamGapless, PTL

(* In the whole session, the child reads a streamed file packet by packet  *)
(* (send_with_backpressure).                                               *)
THEOREM SessionReadsInOrder == Spec => ReadsInOrder
<1> QED
  BY SessionRunsParts, StreamReadInOrder, PTL

(* In the whole session, a viewer's copy is the screen but for what it     *)
(* missed at the start, or news is on its way (stream_screen_updates).     *)
THEOREM SessionReplicasFollow == Spec => []ReplicaMatches
<1> QED
  BY SessionRunsParts, ReplicaFollows, PTL

(* In the whole session, a listening client sees every open prompt, once,  *)
(* unless its channel overran (subscribe_tty_transfer_prompts).            *)
THEOREM SessionApprovalsShown == Spec => []ApprovalSeen
<1> QED
  BY SessionRunsParts, ApprovalShown, PTL
=============================================================================
