--------------------------- MODULE ScreenStreamProofs ---------------------------
(***************************************************************************)
(* A viewer's copy follows the screen, for any rows, viewers and capacity. *)
(* The daemon's cache stands between the two: the copy is the cache but    *)
(* for what was missed, and the cache is the screen unless news is coming. *)
(***************************************************************************)
EXTENDS ScreenStream, TLAPS

Listens(v) == phase[v] \in {"subscribed", "streaming"}

Follows(v) ==
    /\ phase[v] = "streaming" => cached[v] = Rows
    /\ Listens(v) => \A r \in cached[v] :
         /\ r \notin missed[v] => replica[v][r] = cache[v][r]
         /\ cache[v][r] = screen[r] \/ NewsComing(v)
    /\ ~Listens(v) => cached[v] = {} /\ missed[v] = {}
    /\ missed[v] \subseteq cached[v]

ScreenInv == ScreenTypeOK /\ \A v \in Viewers : Follows(v)

(* A viewer that follows shows what the session shows.                     *)
LEMMA FollowingMatches == ScreenInv => ReplicaMatches
BY DEF ScreenInv, Follows, Listens, ReplicaMatches

(* The events of a screen channel.                                         *)
Event == {"content", "other"}

(* A receiver's queue after event e.                                       *)
Pushed(q, e) == Append(IF Len(q) >= EventCap THEN Tail(q) ELSE q, e)

(* An event that is added is there, and so is what was there before unless *)
(* the oldest had to go.                                                   *)
LEMMA QueueGrows ==
    ASSUME NEW q \in Seq(Event), NEW e \in Event, Len(q) <= EventCap
    PROVE  /\ Pushed(q, e) \in Seq(Event) /\ Len(Pushed(q, e)) <= EventCap
           /\ \E i \in DOMAIN Pushed(q, e) : Pushed(q, e)[i] = e
           /\ Len(q) < EventCap =>
                \A i \in DOMAIN q : \E j \in DOMAIN Pushed(q, e) : Pushed(q, e)[j] = q[i]
<1> DEFINE k == IF Len(q) >= EventCap THEN Tail(q) ELSE q
           r == Append(k, e)
<1>1. Len(q) \in Nat /\ EventCap \in Nat \ {0}
  BY ScreenAssumption
<1>2. k \in Seq(Event) /\ Len(k) < EventCap /\ (Len(q) < EventCap => k = q)
  BY <1>1
<1> HIDE DEF k
<1>3. Len(k) \in Nat /\ DOMAIN k = 1..Len(k)
  BY <1>2
<1>4. /\ r \in Seq(Event) /\ Len(r) = Len(k) + 1 /\ r[Len(k) + 1] = e
      /\ DOMAIN r = 1..(Len(k) + 1) /\ \A i \in 1..Len(k) : r[i] = k[i]
  BY <1>2, <1>3
<1> HIDE DEF r
<1>5. Len(r) <= EventCap /\ \E i \in DOMAIN r : r[i] = e
  BY <1>1, <1>2, <1>3, <1>4
<1>6. \A i \in DOMAIN k : i \in DOMAIN r /\ r[i] = k[i]
  BY <1>3, <1>4
<1>7. r = Pushed(q, e)
  BY DEF r, k, Pushed
<1> QED
  BY <1>2, <1>4, <1>5, <1>6, <1>7

(* Announcements keep the channels within their capacity; whoever listens  *)
(* has the event in its channel, and no news is lost without a lag.        *)
LEMMA BroadcastSound ==
    ASSUME ScreenTypeOK, NEW e \in Event, Broadcast(e), phase' = phase
    PROVE  /\ events' \in [Viewers -> Seq(Event)]
           /\ lagging' \in [Viewers -> BOOLEAN]
           /\ \A v \in Viewers :
                /\ Len(events'[v]) <= EventCap
                /\ Listens(v) =>
                     /\ \E i \in DOMAIN events'[v] : events'[v][i] = e
                     /\ lagging[v] => lagging'[v]
                     /\ \/ lagging'[v]
                        \/ \A i \in DOMAIN events[v] :
                             \E j \in DOMAIN events'[v] : events'[v][j] = events[v][i]
<1> DEFINE on == {v \in Viewers : phase[v] \in {"subscribed", "streaming"}}
           drops == {v \in on : Len(events[v]) >= EventCap}
<1>1. /\ events' = [v \in Viewers |->
           IF v \notin on THEN events[v]
           ELSE Append(IF v \in drops THEN Tail(events[v]) ELSE events[v], e)]
      /\ lagging' = [v \in Viewers |-> lagging[v] \/ v \in drops]
  BY DEF Broadcast
<1>2. ASSUME NEW v \in Viewers
      PROVE  /\ events'[v] \in Seq(Event) /\ Len(events'[v]) <= EventCap
             /\ lagging'[v] \in BOOLEAN /\ (lagging[v] => lagging'[v])
             /\ Listens(v) =>
                  /\ \E i \in DOMAIN events'[v] : events'[v][i] = e
                  /\ \/ lagging'[v]
                     \/ \A i \in DOMAIN events[v] :
                          \E j \in DOMAIN events'[v] : events'[v][j] = events[v][i]
  <2>1. /\ events[v] \in Seq(Event) /\ Len(events[v]) <= EventCap
        /\ lagging[v] \in BOOLEAN /\ Len(events[v]) \in Nat
    BY DEF ScreenTypeOK, Event
  <2>2. lagging'[v] = (lagging[v] \/ v \in drops)
    BY <1>1
  <2>3. CASE v \notin on
    BY <1>1, <2>1, <2>2, <2>3 DEF Listens
  <2>4. CASE v \in on
    <3>1. events'[v] = Pushed(events[v], e)
      BY <1>1, <2>4 DEF Pushed
    <3>2. /\ events'[v] \in Seq(Event) /\ Len(events'[v]) <= EventCap
          /\ \E i \in DOMAIN events'[v] : events'[v][i] = e
          /\ Len(events[v]) < EventCap =>
               \A i \in DOMAIN events[v] : \E j \in DOMAIN events'[v] : events'[v][j] = events[v][i]
      <4>1. /\ Pushed(events[v], e) \in Seq(Event) /\ Len(Pushed(events[v], e)) <= EventCap
            /\ \E i \in DOMAIN Pushed(events[v], e) : Pushed(events[v], e)[i] = e
            /\ Len(events[v]) < EventCap =>
                 \A i \in DOMAIN events[v] :
                   \E j \in DOMAIN Pushed(events[v], e) : Pushed(events[v], e)[j] = events[v][i]
        BY <2>1, QueueGrows
      <4> QED
        BY <3>1, <4>1
    <3>3. Len(events[v]) < EventCap \/ lagging'[v]
      <4>1. CASE Len(events[v]) >= EventCap
        <5>1. v \in drops
          BY <2>4, <4>1
        <5> HIDE DEF drops
        <5> QED
          BY <2>2, <5>1
      <4> QED
        BY <2>1, <4>1, ScreenAssumption
    <3> QED
      BY <2>1, <2>2, <3>2, <3>3
  <2> QED
    BY <2>3, <2>4
<1>3. /\ events' \in [Viewers -> Seq(Event)]
      /\ lagging' \in [Viewers -> BOOLEAN]
  BY <1>1, <1>2
<1> QED
  BY <1>2, <1>3

------------------------------------------------------------------------------
(* Nobody has attached yet.                                                *)
LEMMA InitFollows == ScreenInit => ScreenInv
<1> SUFFICES ASSUME ScreenInit PROVE ScreenInv
  OBVIOUS
<1>1. screen \in Screens
  BY DEF ScreenInit, Screens
<1>2. \A v \in Viewers : Len(events[v]) <= EventCap /\ events[v] \in Seq({"content", "other"})
  BY ScreenAssumption DEF ScreenInit
<1>3. ScreenTypeOK
  BY <1>1, <1>2 DEF ScreenInit, ScreenTypeOK
<1>4. \A v \in Viewers : Follows(v)
  BY DEF ScreenInit, Follows, Listens
<1> QED
  BY <1>3, <1>4 DEF ScreenInv

(* Output is announced, or held back and pending.                          *)
LEMMA ProcessFollows ==
    ASSUME ScreenInv, NEW r \in Rows, NEW x \in Cells,
           NEW request \in {"begin", "end", "none"}, Process(r, x, request)
    PROVE  ScreenInv'
<1> DEFINE asked == request = "begin" \/ (request = "none" /\ sync)
           over  == expired /\ request # "begin" /\ asked
           on    == asked /\ ~over
<1>1. /\ screen' = [screen EXCEPT ![r] = x]
      /\ sync' = on /\ watched' = on /\ pending' = on /\ expired' = FALSE
      /\ owed' = IF on THEN owed ELSE owed \cup {"reader"}
      /\ UNCHANGED <<silent, events, lagging, viewVars>>
      /\ on \in BOOLEAN
  BY DEF Process, Watch
<1>2. screen' \in Screens
  BY <1>1 DEF ScreenInv, ScreenTypeOK, Screens
<1> HIDE DEF on
<1>3. ScreenTypeOK'
  BY <1>1, <1>2 DEF ScreenInv, ScreenTypeOK, viewVars, Screens
<1>4. \A v \in Viewers : NewsComing(v)'
  BY <1>1 DEF NewsComing
<1> QED
  BY <1>1, <1>3, <1>4 DEF ScreenInv, Follows, Listens, viewVars

(* The deadline changes nothing yet.                                       *)
LEMMA ExpireFollows == ASSUME ScreenInv, Expire PROVE ScreenInv'
<1>1. ScreenTypeOK'
  BY DEF Expire, viewVars, ScreenInv, ScreenTypeOK, Screens
<1>2. \A v \in Viewers : NewsComing(v)' = NewsComing(v)
  BY DEF Expire, viewVars, NewsComing
<1> QED
  BY <1>1, <1>2 DEF Expire, viewVars, ScreenInv, Follows, Listens

(* What was pending is owed by the watchdog.                               *)
LEMMA ReleaseFollows == ASSUME ScreenInv, Release PROVE ScreenInv'
<1>1. ScreenTypeOK'
  BY DEF Release, viewVars, ScreenInv, ScreenTypeOK, Screens
<1>2. \A v \in Viewers : NewsComing(v) => NewsComing(v)'
  BY DEF Release, viewVars, NewsComing
<1> QED
  BY <1>1, <1>2 DEF Release, viewVars, ScreenInv, Follows, Listens

(* A resize is silent until the next announcement.                         *)
LEMMA ResizeFollows == ASSUME ScreenInv, NEW new \in Screens, Resize(new) PROVE ScreenInv'
BY DEF Resize, viewVars, ScreenInv, ScreenTypeOK, Follows, Listens, NewsComing, Screens

(* An announcement is in the channel of everybody who listens.             *)
LEMMA AnnounceFollows ==
    ASSUME ScreenInv, NEW who \in {"reader", "watchdog"}, Announce(who)
    PROVE  ScreenInv'
<1>1. ScreenTypeOK /\ phase' = phase /\ Broadcast("content")
  BY DEF Announce, viewVars, ScreenInv
<1>2. ScreenTypeOK'
  BY <1>1, BroadcastSound DEF Event, Announce, viewVars, ScreenTypeOK, Screens
<1>3. \A v \in Viewers : Listens(v) => NewsComing(v)'
  BY <1>1, BroadcastSound DEF Event, NewsComing
<1> QED
  BY <1>2, <1>3 DEF Announce, viewVars, ScreenInv, Follows, Listens

(* Another event may push an announcement out, but then the viewer lags.   *)
LEMMA OtherEventFollows == ASSUME ScreenInv, OtherEvent PROVE ScreenInv'
<1>1. ScreenTypeOK /\ phase' = phase /\ Broadcast("other")
  BY DEF OtherEvent, viewVars, ScreenInv
<1>2. ScreenTypeOK'
  BY <1>1, BroadcastSound DEF Event, OtherEvent, sourceVars, viewVars, ScreenTypeOK, Screens
<1>3. ASSUME NEW v \in Viewers, Listens(v), NewsComing(v) PROVE NewsComing(v)'
  <2>1. /\ lagging[v] => lagging'[v]
        /\ \/ lagging'[v]
           \/ \A i \in DOMAIN events[v] :
                \E j \in DOMAIN events'[v] : events'[v][j] = events[v][i]
    BY <1>1, <1>3, BroadcastSound DEF Event
  <2>2. UNCHANGED <<resync, owed, pending, silent>>
    BY DEF OtherEvent, sourceVars, viewVars
  <2>3. CASE \E i \in DOMAIN events[v] : events[v][i] = "content"
    BY <2>1, <2>3 DEF NewsComing
  <2>4. CASE ~\E i \in DOMAIN events[v] : events[v][i] = "content"
    BY <1>3, <2>1, <2>2, <2>4 DEF NewsComing
  <2> QED
    BY <2>3, <2>4
<1> QED
  BY <1>2, <1>3 DEF OtherEvent, sourceVars, viewVars, ScreenInv, Follows, Listens

------------------------------------------------------------------------------
(* Viewers come and go.                                                    *)
LEMMA AttachFollows == ASSUME ScreenInv, NEW v \in Viewers, Attach(v) PROVE ScreenInv'
<1>1. ScreenTypeOK'
  BY DEF Attach, sourceVars, ScreenInv, ScreenTypeOK
<1>2. ASSUME NEW x \in Viewers PROVE Follows(x)'
  <2>1. NewsComing(x)' = NewsComing(x) /\ Follows(x)
    BY DEF Attach, sourceVars, ScreenInv, NewsComing
  <2>2. CASE x = v
    BY <2>1, <2>2 DEF Attach, sourceVars, ScreenInv, ScreenTypeOK, Follows, Listens
  <2>3. CASE x # v
    BY <2>1, <2>3 DEF Attach, sourceVars, ScreenInv, ScreenTypeOK, Follows, Listens
  <2> QED
    BY <2>2, <2>3
<1> QED
  BY <1>1, <1>2 DEF ScreenInv

(* The stream listens before it takes its baseline.                        *)
LEMMA SubscribeFollows == ASSUME ScreenInv, NEW v \in Viewers, Subscribe(v) PROVE ScreenInv'
<1>1. ScreenTypeOK'
  BY DEF Subscribe, sourceVars, ScreenInv, ScreenTypeOK
<1>2. ASSUME NEW x \in Viewers PROVE Follows(x)'
  <2>1. NewsComing(x)' = NewsComing(x) /\ Follows(x)
    BY DEF Subscribe, sourceVars, ScreenInv, NewsComing
  <2>2. CASE x = v
    BY <2>1, <2>2 DEF Subscribe, sourceVars, ScreenInv, ScreenTypeOK, Follows, Listens
  <2>3. CASE x # v
    BY <2>1, <2>3 DEF Subscribe, sourceVars, ScreenInv, ScreenTypeOK, Follows, Listens
  <2> QED
    BY <2>2, <2>3
<1> QED
  BY <1>1, <1>2 DEF ScreenInv

(* A viewer that has left promises nothing.                                *)
LEMMA LeaveFollows == ASSUME ScreenInv, NEW v \in Viewers, Leave(v) PROVE ScreenInv'
<1>1. ScreenTypeOK'
  BY ScreenAssumption DEF Leave, sourceVars, ScreenInv, ScreenTypeOK
<1>2. ASSUME NEW x \in Viewers PROVE Follows(x)'
  <2>1. CASE x = v
    BY <2>1 DEF Leave, ScreenInv, ScreenTypeOK, Follows, Listens
  <2>2. CASE x # v
    <3>1. NewsComing(x)' = NewsComing(x) /\ Follows(x)
      BY <2>2 DEF Leave, sourceVars, ScreenInv, ScreenTypeOK, NewsComing
    <3> QED
      BY <2>2, <3>1 DEF Leave, sourceVars, ScreenInv, ScreenTypeOK, Follows, Listens
  <2> QED
    BY <2>1, <2>2
<1> QED
  BY <1>1, <1>2 DEF ScreenInv

(* What enters the first cache is on the screen; where the copy differs,   *)
(* it has missed.                                                          *)
LEMMA BaselineFollows ==
    ASSUME ScreenInv, NEW v \in Viewers, NEW q \in Rows, Baseline(v, q)
    PROVE  ScreenInv'
<1>1. /\ phase[v] = "subscribed" /\ q \notin cached[v] /\ ScreenTypeOK /\ Follows(v)
      /\ cache'[v] = [cache[v] EXCEPT ![q] = screen[q]]
      /\ cached'[v] = cached[v] \cup {q}
      /\ missed'[v] = IF screen[q] = replica[v][q] THEN missed[v] ELSE missed[v] \cup {q}
      /\ phase'[v] = IF cached'[v] = Rows THEN "streaming" ELSE "subscribed"
      /\ UNCHANGED <<sourceVars, owed, events, lagging, resync, replica>>
      /\ \A x \in Viewers \ {v} :
           phase'[x] = phase[x] /\ cache'[x] = cache[x] /\ cached'[x] = cached[x]
           /\ missed'[x] = missed[x]
  BY DEF Baseline, ScreenInv, ScreenTypeOK
<1>2. ScreenTypeOK'
  <2>1. cache'[v] \in Screens
    BY <1>1 DEF ScreenTypeOK, Screens
  <2>2. cache' \in [Viewers -> Screens]
    BY <1>1, <2>1 DEF Baseline, ScreenTypeOK
  <2> QED
    BY <1>1, <2>2 DEF Baseline, ScreenTypeOK, sourceVars
<1>3. \A x \in Viewers : NewsComing(x)' = NewsComing(x)
  BY <1>1 DEF NewsComing, sourceVars
<1>4. Follows(v)'
  <2>1. Listens(v) /\ Listens(v)' /\ (phase'[v] = "streaming" => cached'[v] = Rows)
    BY <1>1 DEF Listens
  <2>2. ASSUME NEW r \in cached'[v]
        PROVE  /\ r \notin missed'[v] => replica'[v][r] = cache'[v][r]
               /\ cache'[v][r] = screen'[r] \/ NewsComing(v)'
    <3>1. CASE r = q
      BY <1>1, <3>1 DEF ScreenTypeOK, Screens, sourceVars
    <3>2. CASE r # q
      <4>1. /\ r \in cached[v] /\ cache'[v][r] = cache[v][r]
            /\ r \notin missed'[v] => r \notin missed[v]
        BY <1>1, <2>2, <3>2 DEF ScreenTypeOK, Screens
      <4> QED
        BY <1>1, <1>3, <2>1, <4>1 DEF Follows, Listens, sourceVars
    <3> QED
      BY <3>1, <3>2
  <2>3. missed'[v] \subseteq cached'[v]
    BY <1>1 DEF Follows, Listens
  <2> QED
    BY <2>1, <2>2, <2>3 DEF Follows, Listens
<1>5. ASSUME NEW x \in Viewers \ {v} PROVE Follows(x)'
  BY <1>1, <1>3 DEF ScreenInv, Follows, Listens, sourceVars
<1> QED
  BY <1>2, <1>4, <1>5 DEF ScreenInv

(* A lag makes the next update a full one.                                 *)
LEMMA LagFollows == ASSUME ScreenInv, NEW v \in Viewers, Lag(v) PROVE ScreenInv'
<1>1. ScreenTypeOK'
  BY DEF Lag, sourceVars, ScreenInv, ScreenTypeOK
<1>2. ASSUME NEW x \in Viewers PROVE Follows(x)'
  <2>1. /\ Follows(x)
        /\ UNCHANGED <<phase, missed, replica, cache, cached, screen, events, owed, pending,
                       silent>>
    BY DEF Lag, sourceVars, ScreenInv
  <2>2. resync'[x] \/ (x # v /\ resync'[x] = resync[x] /\ lagging'[x] = lagging[x])
    BY DEF Lag, ScreenInv, ScreenTypeOK
  <2> QED
    BY <2>1, <2>2 DEF Follows, Listens, NewsComing
<1> QED
  BY <1>1, <1>2 DEF ScreenInv

(* An update makes cache and screen the same, and the copy with them.      *)
LEMMA UpdateFollows == ASSUME ScreenInv, NEW v \in Viewers, Update(v) PROVE ScreenInv'
<1>1. /\ phase[v] = "streaming" /\ events[v] # <<>>
      /\ events' = [events EXCEPT ![v] = Tail(@)]
      /\ UNCHANGED <<sourceVars, owed, lagging, phase, cached>>
      /\ ScreenTypeOK /\ Follows(v)
  BY DEF Update, Receives, ScreenInv
<1>2. Dirty(v) \subseteq Sent(v) /\ Sent(v) \subseteq Rows
  BY DEF Sent, Dirty
<1>3. /\ replica'[v] = [r \in Rows |-> IF r \in Sent(v) THEN screen[r] ELSE replica[v][r]]
      /\ missed'[v] = missed[v] \ Sent(v) /\ cache'[v] = screen /\ screen' = screen
      /\ \A x \in Viewers \ {v} :
           replica'[x] = replica[x] /\ missed'[x] = missed[x] /\ cache'[x] = cache[x]
           /\ resync'[x] = resync[x] /\ events'[x] = events[x]
  BY <1>1 DEF Update, ScreenTypeOK, sourceVars
<1>4. ScreenTypeOK'
  <2>1. events' \in [Viewers -> Seq({"content", "other"})]
        /\ \A x \in Viewers : Len(events'[x]) <= EventCap
    BY <1>1, ScreenAssumption DEF ScreenTypeOK
  <2>2. replica'[v] \in Screens
    BY <1>1, <1>3 DEF ScreenTypeOK, Screens
  <2>3. replica' \in [Viewers -> Screens]
    BY <1>1, <2>2, <1>3 DEF Update, ScreenTypeOK
  <2> QED
    BY <1>1, <2>1, <2>3 DEF Update, ScreenTypeOK, sourceVars
<1>5. Follows(v)'
  <2>1. ASSUME NEW r \in Rows \ missed'[v] PROVE replica'[v][r] = cache'[v][r]
    <3>1. CASE r \in Sent(v)
      BY <1>3, <3>1
    <3>2. CASE r \notin Sent(v)
      <4>1. r \notin missed[v] /\ screen[r] = cache[v][r]
        BY <1>2, <1>3, <2>1, <3>2 DEF Dirty
      <4> QED
        BY <1>1, <1>3, <3>2, <4>1 DEF Follows, Listens
    <3> QED
      BY <3>1, <3>2
  <2>2. cached'[v] = Rows /\ Listens(v)' /\ cached' = cached
    BY <1>1 DEF Follows, Listens
  <2>3. missed'[v] \subseteq cached'[v]
    BY <1>1, <1>3, <2>2 DEF Follows
  <2> QED
    BY <1>3, <2>1, <2>2, <2>3 DEF Follows
<1>6. \A x \in Viewers \ {v} : Follows(x)'
  BY <1>1, <1>3 DEF ScreenInv, Follows, Listens, NewsComing, sourceVars
<1> QED
  BY <1>4, <1>5, <1>6 DEF ScreenInv

(* Other events carry no rows and are passed over.                         *)
LEMMA SkipFollows == ASSUME ScreenInv, NEW v \in Viewers, Skip(v) PROVE ScreenInv'
<1>1. /\ events[v] # <<>> /\ Head(events[v]) = "other"
      /\ events' = [events EXCEPT ![v] = Tail(@)]
      /\ UNCHANGED <<sourceVars, owed, lagging, phase, cache, cached, resync, replica, missed>>
      /\ ScreenTypeOK
  BY DEF Skip, Receives, ScreenInv
<1>2. /\ events[v] \in Seq({"content", "other"}) /\ Len(events[v]) <= EventCap
      /\ events'[v] = Tail(events[v])
      /\ \A x \in Viewers \ {v} : events'[x] = events[x]
  BY <1>1 DEF ScreenTypeOK
<1>3. ScreenTypeOK'
  <2>1. events' \in [Viewers -> Seq({"content", "other"})]
        /\ \A x \in Viewers : Len(events'[x]) <= EventCap
    BY <1>1, ScreenAssumption DEF ScreenTypeOK
  <2> QED
    BY <1>1, <2>1 DEF ScreenTypeOK, sourceVars
<1>4. ASSUME NEW i \in DOMAIN events[v], events[v][i] = "content"
      PROVE  \E j \in DOMAIN events'[v] : events'[v][j] = "content"
  <2>1. i \in 1..Len(events[v]) /\ i # 1
    BY <1>1, <1>2, <1>4
  <2>2. i - 1 \in DOMAIN Tail(events[v]) /\ Tail(events[v])[i - 1] = events[v][i]
    BY <1>1, <1>2, <2>1
  <2> QED
    BY <1>2, <1>4, <2>2
<1>5. \A x \in Viewers : NewsComing(x) => NewsComing(x)'
  BY <1>1, <1>2, <1>4 DEF NewsComing, sourceVars
<1> QED
  BY <1>1, <1>3, <1>5 DEF ScreenInv, Follows, Listens, sourceVars

------------------------------------------------------------------------------
(* One step of the screen stream.                                          *)
LEMMA NextFollows == ScreenInv /\ [ScreenNext]_screenVars => ScreenInv'
<1>1. ScreenInv /\ UNCHANGED screenVars => ScreenInv'
  <2> SUFFICES ASSUME ScreenInv, UNCHANGED screenVars PROVE ScreenInv'
    OBVIOUS
  <2>1. ScreenTypeOK'
    BY DEF screenVars, ScreenInv, ScreenTypeOK, Screens
  <2>2. \A v \in Viewers : Follows(v)'
    BY DEF screenVars, ScreenInv, Follows, Listens, NewsComing
  <2> QED
    BY <2>1, <2>2 DEF ScreenInv
<1> QED
  BY <1>1, ProcessFollows, ExpireFollows, ReleaseFollows, ResizeFollows, AnnounceFollows,
     OtherEventFollows, AttachFollows, SubscribeFollows, BaselineFollows, LeaveFollows,
     LagFollows, UpdateFollows, SkipFollows DEF ScreenNext

(* Types, and nothing is held back without the watchdog's knowledge.       *)
THEOREM ScreenTyped == ScreenSpec => []ScreenTypeOK
<1>1. ScreenInv => ScreenTypeOK
  BY DEF ScreenInv
<1> QED
  BY <1>1, InitFollows, NextFollows, PTL DEF ScreenSpec

(* Every viewer's copy is the screen but for what it missed at the start,  *)
(* or news is on its way (stream_screen_updates).                          *)
THEOREM ReplicaFollows == ScreenSpec => []ReplicaMatches
<1> QED
  BY InitFollows, NextFollows, FollowingMatches, PTL DEF ScreenSpec
=============================================================================
