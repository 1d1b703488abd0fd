----------------------------- MODULE PtyBridgeProofs -----------------------------
(***************************************************************************)
(* A streamed file has no holes and is read in order, for any capacities   *)
(* and any length.  The messages under way are looked at as one queue, which only ever gets     *)
(* longer at its end and shorter at its front.                             *)
(***************************************************************************)
EXTENDS PtyBridge, TLAPS

Messages == {Other} \cup {Packet(n) : n \in 1..Packets}

(* A message is a packet with its number, or none.                         *)
LEMMA MessageKinds ==
    /\ \A m \in Messages : m[1] = "packet" => m[2] \in 1..Packets /\ m = Packet(m[2])
    /\ Other[1] # "packet"
    /\ \A n \in Nat : Packet(n)[1] = "packet" /\ Packet(n)[2] = n
    /\ Idle \notin Messages /\ Gone \notin Messages /\ Idle # Gone
<1>1. /\ Other[1] # "packet"
      /\ \A n \in Nat : Packet(n)[1] = "packet" /\ Packet(n)[2] = n
  BY DEF Other, Packet
<1>2. Idle[1] # Other[1] /\ Gone[1] # Other[1] /\ Idle[1] # Gone[1]
  BY DEF Idle, Gone, Other
<1>3. \A n \in Nat : Idle[1] # Packet(n)[1] /\ Gone[1] # Packet(n)[1]
  BY DEF Idle, Gone, Packet
<1>4. 1..Packets \subseteq Nat
  BY BridgeAssumption
<1> QED
  BY <1>1, <1>2, <1>3, <1>4 DEF Messages

(* The packets in q are those after lo up to hi, in order.                 *)
Gapless(q, lo, hi) ==
    /\ \A i \in DOMAIN q : q[i][1] = "packet" => q[i][2] \in (lo + 1)..hi
    /\ \A i, j \in DOMAIN q :
         i < j /\ q[i][1] = "packet" /\ q[j][1] = "packet" => q[i][2] < q[j][2]
    /\ \A n \in (lo + 1)..hi : \E i \in DOMAIN q : q[i] = Packet(n)

(* StreamHasNoGap in terms of the queue that is under way.                 *)
LEMMA NoGapIsGapless == StreamHasNoGap <=> (writer # Gone => Gapless(OnItsWay, seen, sent))
BY DEF StreamHasNoGap, Gapless

(* Anything but a packet may be added at the end.                          *)
LEMMA AppendOther ==
    ASSUME NEW q \in Seq(Messages), NEW lo \in Nat, NEW hi \in Nat, Gapless(q, lo, hi)
    PROVE  Gapless(Append(q, Other), lo, hi)
<1> DEFINE r == Append(q, Other)
<1>1. /\ DOMAIN q = 1..Len(q) /\ DOMAIN r = 1..(Len(q) + 1) /\ Len(q) \in Nat
      /\ r[Len(q) + 1] = Other /\ \A i \in 1..Len(q) : r[i] = q[i]
  BY DEF Messages
<1>2. r[Len(q) + 1][1] # "packet"
  BY <1>1, MessageKinds
<1>3. \A i \in 1..(Len(q) + 1) : i \in 1..Len(q) \/ i = Len(q) + 1
  BY <1>1
<1> HIDE DEF r
<1>4. \A i \in DOMAIN r : r[i][1] = "packet" => i \in DOMAIN q /\ r[i] = q[i]
  BY <1>1, <1>2, <1>3
<1>5. \A i \in DOMAIN q : i \in DOMAIN r /\ r[i] = q[i]
  BY <1>1
<1>6. \A n \in (lo + 1)..hi : \E i \in DOMAIN r : r[i] = Packet(n)
  BY <1>5 DEF Gapless
<1>7. Gapless(r, lo, hi)
  BY <1>4, <1>6 DEF Gapless
<1> QED
  BY <1>7 DEF r

(* The next packet may be added at the end.                                *)
LEMMA AppendPacket ==
    ASSUME NEW q \in Seq(Messages), NEW lo \in Nat, NEW hi \in Nat, lo <= hi,
           hi + 1 \in 1..Packets, Gapless(q, lo, hi)
    PROVE  Gapless(Append(q, Packet(hi + 1)), lo, hi + 1)
<1> DEFINE m == Packet(hi + 1)
           r == Append(q, m)
<1>1. m \in Messages /\ m[1] = "packet" /\ m[2] = hi + 1
  BY MessageKinds DEF Messages
<1> HIDE DEF m
<1>2. /\ DOMAIN q = 1..Len(q) /\ DOMAIN r = 1..(Len(q) + 1) /\ Len(q) \in Nat
      /\ r[Len(q) + 1] = m /\ \A i \in 1..Len(q) : r[i] = q[i]
  BY <1>1
<1>3. \A i \in 1..(Len(q) + 1) : i \in 1..Len(q) \/ i = Len(q) + 1
  BY <1>2
<1> HIDE DEF r
<1>4. \A i \in DOMAIN r : i \in DOMAIN q \/ i = Len(q) + 1
  BY <1>2, <1>3
<1>5. \A i \in DOMAIN r : r[i][1] = "packet" => r[i][2] \in (lo + 1)..(hi + 1)
  BY <1>1, <1>2, <1>4 DEF Gapless
<1>6. \A i, j \in DOMAIN r :
        i < j /\ r[i][1] = "packet" /\ r[j][1] = "packet" => r[i][2] < r[j][2]
  <2> SUFFICES ASSUME NEW i \in DOMAIN r, NEW j \in DOMAIN r, i < j,
                      r[i][1] = "packet", r[j][1] = "packet"
               PROVE  r[i][2] < r[j][2]
    OBVIOUS
  <2>1. i \in DOMAIN q
    BY <1>2, <1>4
  <2>2. CASE j \in DOMAIN q
    BY <1>2, <2>1, <2>2 DEF Gapless
  <2>3. CASE j = Len(q) + 1
    <3>1. q[i][2] \in (lo + 1)..hi
      BY <1>2, <2>1 DEF Gapless
    <3> QED
      BY <1>1, <1>2, <2>1, <2>3, <3>1
  <2> QED
    BY <1>4, <2>2, <2>3
<1>7. \A n \in (lo + 1)..(hi + 1) : \E i \in DOMAIN r : r[i] = Packet(n)
  <2>1. \A n \in (lo + 1)..(hi + 1) : n \in (lo + 1)..hi \/ n = hi + 1
    OBVIOUS
  <2>2. \A n \in (lo + 1)..hi : \E i \in DOMAIN r : r[i] = Packet(n)
    BY <1>2, <1>3 DEF Gapless
  <2>3. \E i \in DOMAIN r : r[i] = Packet(hi + 1)
    BY <1>2 DEF m
  <2> QED
    BY <2>1, <2>2, <2>3
<1>8. Gapless(r, lo, hi + 1)
  BY <1>5, <1>6, <1>7 DEF Gapless
<1> QED
  BY <1>8 DEF r, m

(* What leaves the front is the next packet, or none.                      *)
LEMMA TakeFront ==
    ASSUME NEW q \in Seq(Messages), q # <<>>, NEW lo \in Nat, NEW hi \in Nat,
           Gapless(q, lo, hi)
    PROVE  LET n == IF Head(q)[1] = "packet" THEN Head(q)[2] ELSE lo
           IN  n \in lo..hi \cup {lo} /\ Gapless(Tail(q), n, hi)
<1> DEFINE n == IF Head(q)[1] = "packet" THEN Head(q)[2] ELSE lo
           r == Tail(q)
<1>1. /\ DOMAIN q = 1..Len(q) /\ Len(q) \in Nat \ {0} /\ Head(q) = q[1] /\ q[1] \in Messages
      /\ DOMAIN r = 1..(Len(q) - 1) /\ \A i \in 1..(Len(q) - 1) : r[i] = q[i + 1]
  OBVIOUS
<1>2. \A i \in 1..(Len(q) - 1) : i + 1 \in 1..Len(q) /\ 1 < i + 1
  BY <1>1
<1>3. \A j \in 1..Len(q) : j = 1 \/ (j - 1 \in 1..(Len(q) - 1) /\ r[j - 1] = q[j])
  BY <1>1
<1> HIDE DEF r
<1>4. n \in Nat /\ lo <= n /\ (n = lo \/ n \in (lo + 1)..hi)
  BY <1>1, MessageKinds DEF Gapless
<1>5. \A i \in DOMAIN r : r[i][1] = "packet" => r[i][2] \in (n + 1)..hi
  <2> SUFFICES ASSUME NEW i \in DOMAIN r, r[i][1] = "packet" PROVE r[i][2] \in (n + 1)..hi
    OBVIOUS
  <2>1. /\ i + 1 \in DOMAIN q /\ 1 \in DOMAIN q /\ 1 < i + 1
        /\ q[i + 1][1] = "packet" /\ r[i] = q[i + 1]
    BY <1>1, <1>2
  <2>2. q[i + 1][2] \in (lo + 1)..hi
    BY <2>1 DEF Gapless
  <2>3. q[1][1] = "packet" => q[1][2] < q[i + 1][2]
    BY <2>1 DEF Gapless
  <2> QED
    BY <1>1, <1>4, <2>1, <2>2, <2>3
<1>6. \A i, j \in DOMAIN r :
        i < j /\ r[i][1] = "packet" /\ r[j][1] = "packet" => r[i][2] < r[j][2]
  <2> SUFFICES ASSUME NEW i \in DOMAIN r, NEW j \in DOMAIN r, i < j,
                      r[i][1] = "packet", r[j][1] = "packet"
               PROVE  r[i][2] < r[j][2]
    OBVIOUS
  <2>1. /\ i + 1 \in DOMAIN q /\ j + 1 \in DOMAIN q /\ i + 1 < j + 1
        /\ r[i] = q[i + 1] /\ r[j] = q[j + 1]
    BY <1>1, <1>2
  <2> QED
    BY <2>1 DEF Gapless
<1>7. \A k \in (n + 1)..hi : \E i \in DOMAIN r : r[i] = Packet(k)
  <2> SUFFICES ASSUME NEW k \in (n + 1)..hi PROVE \E i \in DOMAIN r : r[i] = Packet(k)
    OBVIOUS
  <2>1. k \in (lo + 1)..hi /\ k \in Nat /\ k # n
    BY <1>4
  <2>2. PICK j \in DOMAIN q : q[j] = Packet(k)
    BY <2>1 DEF Gapless
  <2>3. q[j][1] = "packet" /\ q[j][2] = k
    BY <2>1, <2>2, MessageKinds
  <2>4. j # 1
    BY <1>1, <2>1, <2>3
  <2> QED
    BY <1>1, <1>3, <2>2, <2>4
<1>8. Gapless(r, n, hi)
  BY <1>5, <1>6, <1>7 DEF Gapless
<1> QED
  BY <1>4, <1>8 DEF r

------------------------------------------------------------------------------
(* What is under way is one queue of messages.                             *)
LEMMA UnderWay ==
    ASSUME BridgeTypeOK, writer # Gone
    PROVE  /\ OnItsWay \in Seq(Messages)
           /\ writer = Idle => OnItsWay = writes
           /\ writer # Idle =>
                OnItsWay # <<>> /\ Head(OnItsWay) = writer /\ Tail(OnItsWay) = writes
<1>1. writes \in Seq(Messages) /\ (writer # Idle => writer \in Messages)
  BY DEF BridgeTypeOK, Messages
<1>2. CASE writer = Idle
  BY <1>1, <1>2 DEF OnItsWay
<1>3. CASE writer # Idle
  <2>1. writer \in Messages /\ OnItsWay = <<writer>> \o writes
    BY <1>1, <1>3 DEF OnItsWay
  <2>2. OnItsWay \in Seq(Messages) /\ OnItsWay # <<>> /\ Head(OnItsWay) = writer
    BY <1>1, <2>1
  <2>3. Tail(OnItsWay) = writes
    BY <1>1, <2>1
  <2> QED
    BY <1>3, <2>2, <2>3
<1> QED
  BY <1>2, <1>3

(* A message added to the writer's queue is added to what is under way.    *)
LEMMA AddedUnderWay ==
    ASSUME BridgeTypeOK, writer # Gone, NEW m \in Messages,
           writes' = Append(writes, m), writer' = writer
    PROVE  OnItsWay' = Append(OnItsWay, m)
<1>1. writes \in Seq(Messages) /\ (writer # Idle => writer \in Messages)
  BY DEF BridgeTypeOK, Messages
<1>2. CASE writer = Idle
  BY <1>2 DEF OnItsWay
<1>3. CASE writer # Idle
  <2>1. OnItsWay = <<writer>> \o writes /\ OnItsWay' = <<writer>> \o Append(writes, m)
    BY <1>3 DEF OnItsWay
  <2>2. <<writer>> \o Append(writes, m) = Append(<<writer>> \o writes, m)
    BY <1>1, <1>3
  <2> QED
    BY <2>1, <2>2
<1> QED
  BY <1>2, <1>3

(* Whatever is sent without waiting keeps queue and stream as they are.    *)
LEMMA SendSound ==
    ASSUME BridgeTypeOK, StreamHasNoGap, Send(Other), UNCHANGED <<writer, sent, seen>>
    PROVE  /\ writes' \in Seq(Messages) /\ Len(writes') <= QueueCap
           /\ StreamHasNoGap'
<1>1. writes \in Seq(Messages) /\ Len(writes) <= QueueCap /\ Other \in Messages
  BY DEF BridgeTypeOK, Messages
<1>2. CASE writer = Gone \/ Full
  BY <1>1, <1>2 DEF Send, StreamHasNoGap, OnItsWay
<1>3. CASE writer # Gone /\ ~Full
  <2>1. writes' = Append(writes, Other) /\ Len(writes) < QueueCap
    BY <1>1, <1>3, BridgeAssumption DEF Send, Full
  <2>2. writes' \in Seq(Messages) /\ Len(writes') <= QueueCap
    BY <1>1, <2>1, BridgeAssumption
  <2>3. OnItsWay' = Append(OnItsWay, Other) /\ OnItsWay \in Seq(Messages)
    BY <1>1, <1>3, <2>1, AddedUnderWay, UnderWay
  <2>4. Gapless(OnItsWay', seen', sent')
    BY <1>3, <2>3, NoGapIsGapless, AppendOther DEF BridgeTypeOK
  <2> QED
    BY <2>2, <2>4 DEF StreamHasNoGap, Gapless
<1> QED
  BY <1>2, <1>3

BridgeInv == BridgeTypeOK /\ StreamHasNoGap

(* Nothing is under way (start_reader).                                    *)
LEMMA InitSound == BridgeInit => BridgeInv
<1> SUFFICES ASSUME BridgeInit PROVE BridgeInv
  OBVIOUS
<1>1. BridgeTypeOK
  <2>1. output \in Seq({"query", "command"}) /\ Len(output) = 0
    BY DEF BridgeInit
  <2>2. writes \in Seq(Messages) /\ Len(writes) = 0
    BY DEF BridgeInit
  <2>3. commands \in 0..CommandCap /\ sent \in 0..Packets /\ seen \in 0..sent
    BY BridgeAssumption DEF BridgeInit
  <2>4. Len(output) <= OutCap /\ Len(writes) <= QueueCap
    BY <2>1, <2>2, BridgeAssumption
  <2> QED
    BY <2>1, <2>2, <2>3, <2>4 DEF BridgeInit, BridgeTypeOK, Messages
<1>2. OnItsWay = <<>> /\ seen = 0 /\ sent = 0
  BY DEF BridgeInit, OnItsWay
<1>3. StreamHasNoGap
  BY <1>2 DEF StreamHasNoGap
<1> QED
  BY <1>1, <1>3 DEF BridgeInv

(* Input of a client goes through send().                                  *)
LEMMA InputSound == ASSUME BridgeInv, Input PROVE BridgeInv'
<1>1. writes' \in Seq(Messages) /\ Len(writes') <= QueueCap /\ StreamHasNoGap'
  BY SendSound DEF Input, BridgeInv
<1> QED
  BY <1>1 DEF Input, BridgeInv, BridgeTypeOK, Messages

(* The child reads what the writer thread has in hand.                     *)
LEMMA ChildReadsSound == ASSUME BridgeInv, ChildReads PROVE BridgeInv'
<1>1. BridgeTypeOK /\ StreamHasNoGap /\ writer \notin {Idle, Gone}
  BY DEF ChildReads, BridgeInv
<1>2. /\ OnItsWay \in Seq(Messages) /\ OnItsWay # <<>>
      /\ Head(OnItsWay) = writer /\ Tail(OnItsWay) = writes
      /\ Gapless(OnItsWay, seen, sent) /\ seen \in Nat /\ sent \in Nat
      /\ seen \in 0..sent /\ sent \in 0..Packets
  BY <1>1, UnderWay, NoGapIsGapless, BridgeAssumption DEF BridgeTypeOK
<1>3. seen' \in seen..sent \cup {seen} /\ Gapless(writes, seen', sent)
  BY <1>2, TakeFront DEF ChildReads
<1>4. OnItsWay' = writes /\ sent' = sent /\ seen' \in 0..sent'
  BY <1>2, <1>3 DEF ChildReads, OnItsWay
<1>5. StreamHasNoGap'
  BY <1>3, <1>4 DEF StreamHasNoGap, Gapless
<1> QED
  BY <1>1, <1>4, <1>5 DEF ChildReads, BridgeInv, BridgeTypeOK

(* The writer thread takes a message into its hand.                        *)
LEMMA WriterTakesSound == ASSUME BridgeInv, WriterTakes PROVE BridgeInv'
<1>1. BridgeTypeOK /\ StreamHasNoGap /\ writer = Idle /\ writer # Gone
  BY MessageKinds DEF WriterTakes, BridgeInv
<1>2. /\ writes \in Seq(Messages) /\ writes # <<>> /\ Len(writes) <= QueueCap
      /\ writer' = Head(writes) /\ writes' = Tail(writes)
  BY <1>1 DEF WriterTakes, BridgeTypeOK, Messages
<1>3. /\ Head(writes) \in Messages /\ Tail(writes) \in Seq(Messages)
      /\ Len(Tail(writes)) <= QueueCap /\ <<Head(writes)>> \o Tail(writes) = writes
  BY <1>2, BridgeAssumption
<1>4. OnItsWay' = OnItsWay
  BY <1>1, <1>2, <1>3, MessageKinds DEF OnItsWay
<1>5. StreamHasNoGap'
  BY <1>1, <1>4 DEF StreamHasNoGap, WriterTakes
<1> QED
  BY <1>1, <1>2, <1>3, <1>5 DEF WriterTakes, BridgeInv, BridgeTypeOK, Messages

(* A writer that has failed takes the whole queue with it.                 *)
LEMMA WriterFailsSound == ASSUME BridgeInv, WriterFails PROVE BridgeInv'
BY BridgeAssumption DEF WriterFails, BridgeInv, BridgeTypeOK, StreamHasNoGap

(* The reader answers a question, or has a command in hand.                *)
LEMMA ReadSound == ASSUME BridgeInv, Read PROVE BridgeInv'
<1>1. BridgeTypeOK /\ StreamHasNoGap
  BY DEF BridgeInv
<1>2. /\ output \in Seq({"query", "command"}) /\ output # <<>> /\ Len(output) <= OutCap
      /\ output' = Tail(output)
  BY <1>1 DEF Read, BridgeTypeOK
<1>4. /\ Head(output) \in {"query", "command"}
      /\ output' \in Seq({"query", "command"}) /\ Len(output') <= OutCap
  BY <1>2, BridgeAssumption
<1>5. \/ Send(Other) /\ reader' = reader
      \/ reader' = "submit" /\ UNCHANGED writes
  BY <1>4 DEF Read
<1>6. reader' \in {"read", "submit", "close", "done"}
  BY <1>1, <1>5 DEF BridgeTypeOK
<1>3. writes' \in Seq(Messages) /\ Len(writes') <= QueueCap /\ StreamHasNoGap'
  <2>1. CASE Send(Other)
    BY <1>1, <2>1, SendSound DEF Read
  <2>2. CASE UNCHANGED writes
    BY <1>1, <2>2 DEF Read, BridgeTypeOK, StreamHasNoGap, OnItsWay, Messages
  <2> QED
    BY <1>5, <2>1, <2>2
<1> QED
  BY <1>1, <1>3, <1>4, <1>6 DEF Read, BridgeInv, BridgeTypeOK, Messages

(* The reader hands a command over, or answers with an error.              *)
LEMMA SubmitSound == ASSUME BridgeInv, Submit PROVE BridgeInv'
<1>1. BridgeTypeOK /\ StreamHasNoGap
  BY DEF BridgeInv
<1>2. writes' \in Seq(Messages) /\ Len(writes') <= QueueCap /\ StreamHasNoGap'
  <2>1. CASE Send(Other)
    BY <1>1, <2>1, SendSound DEF Submit
  <2>2. CASE UNCHANGED writes
    BY <1>1, <2>2 DEF Submit, BridgeTypeOK, StreamHasNoGap, OnItsWay, Messages
  <2> QED
    BY <2>1, <2>2 DEF Submit
<1>3. commands' \in 0..CommandCap
  BY <1>1, BridgeAssumption DEF Submit, BridgeTypeOK
<1> QED
  BY <1>1, <1>2, <1>3 DEF Submit, BridgeInv, BridgeTypeOK, Messages

(* The actor answers through send().                                       *)
LEMMA AnswerSound == ASSUME BridgeInv, Answer PROVE BridgeInv'
<1>1. writes' \in Seq(Messages) /\ Len(writes') <= QueueCap /\ StreamHasNoGap'
  BY SendSound DEF Answer, BridgeInv
<1>2. commands' \in 0..CommandCap
  BY BridgeAssumption DEF Answer, TakeCommand, BridgeInv, BridgeTypeOK
<1> QED
  BY <1>1, <1>2 DEF Answer, BridgeInv, BridgeTypeOK, Messages

(* A packet is handed over when there is room for it.                      *)
LEMMA HandOverSound == ASSUME BridgeInv, HandOver PROVE BridgeInv'
<1>1. /\ BridgeTypeOK /\ StreamHasNoGap /\ writer # Gone /\ ~Full
      /\ writes' = Append(writes, Packet(sent + 1)) /\ sent' = sent + 1
      /\ UNCHANGED <<writer, seen>>
  BY DEF HandOver, BridgeInv
<1>2. /\ writes \in Seq(Messages) /\ Len(writes) < QueueCap
      /\ sent \in 0..Packets /\ seen \in 0..sent /\ sent + 1 \in 1..Packets
  BY <1>1, BridgeAssumption DEF HandOver, BridgeTypeOK, Full, Messages
<1>3. Packet(sent + 1) \in Messages
  BY <1>2 DEF Messages
<1>4. writes' \in Seq(Messages) /\ Len(writes') <= QueueCap
  BY <1>1, <1>2, <1>3, BridgeAssumption
<1>5. /\ OnItsWay' = Append(OnItsWay, Packet(sent + 1))
      /\ OnItsWay \in Seq(Messages) /\ Gapless(OnItsWay, seen, sent)
  BY <1>1, <1>3, AddedUnderWay, UnderWay, NoGapIsGapless
<1>6. Gapless(OnItsWay', seen, sent + 1)
  BY <1>2, <1>5, AppendPacket
<1>7. StreamHasNoGap'
  BY <1>1, <1>6 DEF StreamHasNoGap, Gapless
<1>8. sent' \in 0..Packets /\ seen' \in 0..sent'
  BY <1>1, <1>2
<1> QED
  BY <1>1, <1>4, <1>7, <1>8 DEF HandOver, BridgeInv, BridgeTypeOK, Messages

(* The other steps do not touch what is under way.                         *)
LEMMA OthersSound ==
    ASSUME BridgeInv,
           \/ \E kind \in {"query", "command"} : ChildWrites(kind)
           \/ ChildExits \/ EndOfOutput \/ Close \/ BeginStream \/ GiveUp \/ EndStream
           \/ Deadline \/ UNCHANGED bridgeVars
    PROVE  BridgeInv'
<1>1. UNCHANGED <<writes, writer, sent, seen>>
  BY DEF ChildWrites, ChildExits, EndOfOutput, Close, BeginStream, GiveUp, EndStream,
      Deadline, bridgeVars
<1>2. StreamHasNoGap'
  BY <1>1 DEF BridgeInv, StreamHasNoGap, OnItsWay
<1>3. output' \in Seq({"query", "command"}) /\ Len(output') <= OutCap
  <2>1. ASSUME NEW kind \in {"query", "command"}, ChildWrites(kind)
        PROVE  output' \in Seq({"query", "command"}) /\ Len(output') <= OutCap
    <3>1. /\ output \in Seq({"query", "command"}) /\ Len(output) < OutCap
          /\ output' = Append(output, kind)
      BY <2>1 DEF ChildWrites, BridgeInv, BridgeTypeOK
    <3> QED
      BY <3>1, BridgeAssumption
  <2>2. CASE UNCHANGED output
    BY <2>2 DEF BridgeInv, BridgeTypeOK
  <2> QED
    BY <2>1, <2>2 DEF ChildExits, EndOfOutput, Close, BeginStream, GiveUp, EndStream,
        Deadline, bridgeVars
<1>4. commands' \in 0..CommandCap
  BY BridgeAssumption DEF ChildWrites, ChildExits, EndOfOutput, Close, BeginStream, GiveUp,
      EndStream, Deadline, TakeCommand, bridgeVars, BridgeInv, BridgeTypeOK
<1>5. /\ child' \in BOOLEAN /\ late' \in BOOLEAN
      /\ reader' \in {"read", "submit", "close", "done"}
      /\ actor' \in {"idle", "streams", "gone"}
  BY DEF ChildWrites, ChildExits, EndOfOutput, Close, BeginStream, GiveUp,
      EndStream, Deadline, bridgeVars, BridgeInv, BridgeTypeOK
<1> QED
  BY <1>1, <1>2, <1>3, <1>4, <1>5 DEF BridgeInv, BridgeTypeOK

------------------------------------------------------------------------------
(* One step of the bridge.                                                 *)
LEMMA NextSound == BridgeInv /\ [BridgeNext]_bridgeVars => BridgeInv'
BY InputSound, ChildReadsSound, WriterTakesSound, WriterFailsSound, ReadSound,
   SubmitSound, AnswerSound, HandOverSound, OthersSound
   DEF BridgeNext, ReaderStep, ActorStep, WriterStep

(* Types, and the capacities of queue and channel, for all values of them. *)
THEOREM BridgeTyped == BridgeSpec => []BridgeTypeOK
<1>1. BridgeInv => BridgeTypeOK
  BY DEF BridgeInv
<1> QED
  BY <1>1, InitSound, NextSound, PTL DEF BridgeSpec

(* What a worker streams reaches the child without holes and in order      *)
(* (send_with_backpressure).                                               *)
THEOREM StreamGapless == BridgeSpec => []StreamHasNoGap
<1>1. BridgeInv => StreamHasNoGap
  BY DEF BridgeInv
<1> QED
  BY <1>1, InitSound, NextSound, PTL DEF BridgeSpec

(* A packet that reaches the child is the next one: all others that are    *)
(* under way come behind it.                                               *)
THEOREM StreamReadInOrder == BridgeSpec => ReadsInOrder
<1>1. ASSUME BridgeInv, ChildReads PROVE seen' \in {seen, seen + 1}
  <2>1. BridgeTypeOK /\ StreamHasNoGap /\ writer \notin {Idle, Gone}
    BY <1>1 DEF ChildReads, BridgeInv
  <2>2. /\ OnItsWay \in Seq(Messages) /\ OnItsWay # <<>> /\ Head(OnItsWay) = writer
        /\ Gapless(OnItsWay, seen, sent) /\ seen \in Nat /\ sent \in Nat
    BY <2>1, UnderWay, NoGapIsGapless, BridgeAssumption DEF BridgeTypeOK
  <2>3. 1 \in DOMAIN OnItsWay /\ OnItsWay[1] = writer /\ DOMAIN OnItsWay \subseteq Nat \ {0}
    BY <2>2
  <2>4. CASE writer[1] = "packet"
    <3>1. seen' = writer[2] /\ writer[2] \in (seen + 1)..sent
      BY <1>1, <2>2, <2>3, <2>4 DEF ChildReads, Gapless
    <3>2. PICK j \in DOMAIN OnItsWay : OnItsWay[j] = Packet(seen + 1)
      BY <2>2, <3>1 DEF Gapless
    <3>3. OnItsWay[j][1] = "packet" /\ OnItsWay[j][2] = seen + 1
      BY <2>2, <3>2, MessageKinds
    <3>4. j = 1 \/ 1 < j
      BY <2>3
    <3>5. 1 < j => writer[2] < seen + 1
      BY <2>2, <2>3, <2>4, <3>3 DEF Gapless
    <3> QED
      BY <2>2, <2>3, <3>1, <3>3, <3>4, <3>5
  <2>5. CASE writer[1] # "packet"
    BY <1>1, <2>5 DEF ChildReads
  <2> QED
    BY <2>4, <2>5
<1>2. ASSUME BridgeNext, ~ChildReads PROVE seen' = seen
  BY <1>2 DEF BridgeNext, ChildWrites, Input, ChildExits, ReaderStep, Read, Submit,
      EndOfOutput, Close, ActorStep, Answer, BeginStream, HandOver, GiveUp, EndStream,
      WriterStep, WriterTakes, WriterFails, Deadline
<1>3. BridgeInv /\ [BridgeNext]_bridgeVars => [seen' \in {seen, seen + 1}]_bridgeVars
  BY <1>1, <1>2
<1> QED
  BY <1>3, InitSound, NextSound, PTL DEF BridgeSpec, ReadsInOrder
=============================================================================
