------------------------------ MODULE ScreenStream ------------------------------
(***************************************************************************)
(* How a session's screen reaches the clients that ask for incremental     *)
(* updates: the reader task and the watchdog of synchronized updates       *)
(* change the screen under its lock and announce it afterwards; a bounded  *)
(* broadcast channel per subscriber carries the announcements; for each,   *)
(* the daemon sends what differs from what it has sent before.             *)
(*                                                                         *)
(* Abstracted: the rows have contents and no cells; cursor, modes, images  *)
(* and extra cursors are handled as one more row is; the number of rows is *)
(* fixed.                                                                  *)
(***************************************************************************)
EXTENDS Naturals, Sequences, FiniteSets

CONSTANTS
    Rows,         \* what is compared and sent on its own
    Cells,        \* contents of a row
    Viewers,      \* clients
    EventCap      \* capacity of the event channel (256)

ASSUME ScreenAssumption ==
    /\ IsFiniteSet(Rows) /\ Rows # {} /\ Cells # {}
    /\ EventCap \in Nat \ {0}

VARIABLES
    screen,       \* contents of each row, guarded by the terminal's lock
    sync,         \* the application has asked to hold updates back
    expired,      \* the deadline of that request has passed
    watched,      \* sync_update_active: the watchdog looks at the deadline
    pending,      \* content_change_pending: changes held back
    owed,         \* who has changed the screen and not yet announced it
    silent,       \* history: rows changed by a resize, which nobody announces
    phase,        \* viewer: "away", "attached", "subscribed" or "streaming"
    events,       \* viewer: its receiver of the event channel
    lagging,      \* viewer: the channel has dropped events it had not read
    cache,        \* viewer: what the daemon has sent (cached_rows)
    cached,       \* viewer: rows that have been put into the first cache
    resync,       \* viewer: needs_full_resync
    replica,      \* viewer: its own copy of the screen
    missed        \* history, viewer: rows changed before the first cache

sourceVars == <<screen, sync, expired, watched, pending, silent>>
viewVars   == <<phase, cache, cached, resync, replica, missed>>
screenVars == <<screen, sync, expired, watched, pending, owed, silent,
                phase, events, lagging, cache, cached, resync, replica, missed>>

Screens == [Rows -> Cells]

ScreenInit ==
    /\ screen \in {[r \in Rows |-> x] : x \in Cells}
    /\ sync = FALSE /\ expired = FALSE /\ watched = FALSE /\ pending = FALSE
    /\ owed = {} /\ silent = FALSE
    /\ phase = [v \in Viewers |-> "away"]
    /\ events = [v \in Viewers |-> <<>>]
    /\ lagging = [v \in Viewers |-> FALSE]
    /\ cache = [v \in Viewers |-> screen]
    /\ cached = [v \in Viewers |-> {}]
    /\ resync = [v \in Viewers |-> FALSE]
    /\ replica = [v \in Viewers |-> screen]
    /\ missed = [v \in Viewers |-> {}]

------------------------------------------------------------------------------
(* process_collecting_inner() on a chunk that writes a row and begins or   *)
(* renews a synchronized update, ends it, or does neither.                 *)
(* Fault: the watchdog is not told.                                        *)
WatchNever(on) == watched' = FALSE

Watch(on) == watched' = on

Process(r, x, request) ==
    LET asked == request = "begin" \/ (request = "none" /\ sync)
        over  == expired /\ request # "begin" /\ asked
        on    == asked /\ ~over
    IN /\ "reader" \notin owed
       /\ screen' = [screen EXCEPT ![r] = x]
       /\ sync' = on
       /\ expired' = FALSE
       /\ Watch(on)
       /\ pending' = on
       /\ owed' = IF on THEN owed ELSE owed \cup {"reader"}
       /\ UNCHANGED <<silent, events, lagging, viewVars>>

(* The deadline passes, one second after the last request.                 *)
Expire ==
    /\ sync /\ ~expired
    /\ expired' = TRUE
    /\ UNCHANGED <<screen, sync, watched, pending, owed, silent, events, lagging, viewVars>>

(* The watchdog of start_reader, every 16 ms.                              *)
Release ==
    /\ watched /\ sync /\ expired /\ "watchdog" \notin owed
    /\ sync' = FALSE /\ expired' = FALSE /\ watched' = FALSE
    /\ pending' = FALSE
    /\ owed' = IF pending THEN owed \cup {"watchdog"} ELSE owed
    /\ UNCHANGED <<screen, silent, events, lagging, viewVars>>

(* A client resizes the session; no event is sent.                         *)
Resize(new) ==
    /\ screen' = new /\ new # screen
    /\ silent' = TRUE
    /\ UNCHANGED <<sync, expired, watched, pending, owed, events, lagging, viewVars>>

------------------------------------------------------------------------------
(* broadcast_event(): a receiver that does not keep up loses the oldest.   *)
Broadcast(event) ==
    LET on == {v \in Viewers : phase[v] \in {"subscribed", "streaming"}}
        drops == {v \in on : Len(events[v]) >= EventCap}
    IN /\ events' = [v \in Viewers |->
            IF v \notin on THEN events[v]
            ELSE Append(IF v \in drops THEN Tail(events[v]) ELSE events[v], event)]
       /\ lagging' = [v \in Viewers |-> lagging[v] \/ v \in drops]

Announce(who) ==
    /\ who \in owed
    /\ owed' = owed \ {who}
    /\ silent' = FALSE
    /\ Broadcast("content")
    /\ UNCHANGED <<screen, sync, expired, watched, pending, viewVars>>

(* Bells, titles, notifications: they share the channel.                   *)
OtherEvent ==
    /\ \E v \in Viewers : phase[v] \in {"subscribed", "streaming"}
    /\ Broadcast("other")
    /\ UNCHANGED <<sourceVars, owed, viewVars>>

------------------------------------------------------------------------------
(* A client attaches with a snapshot, opens the stream, and the daemon     *)
(* takes for granted that it has what the screen shows by then.            *)
Attach(v) ==
    /\ phase[v] = "away"
    /\ phase' = [phase EXCEPT ![v] = "attached"]
    /\ replica' = [replica EXCEPT ![v] = screen]
    /\ UNCHANGED <<sourceVars, owed, events, lagging, cache, cached, resync, missed>>

Subscribe(v) ==
    /\ phase[v] = "attached"
    /\ phase' = [phase EXCEPT ![v] = "subscribed"]
    /\ UNCHANGED <<sourceVars, owed, events, lagging, cache, cached, resync, replica, missed>>

(* Rows, cursor, modes and images are taken under the lock one after the   *)
(* other.                                                                  *)
Baseline(v, r) ==
    /\ phase[v] = "subscribed" /\ r \notin cached[v]
    /\ cache' = [cache EXCEPT ![v][r] = screen[r]]
    /\ cached' = [cached EXCEPT ![v] = @ \cup {r}]
    /\ missed' = IF screen[r] = replica[v][r] THEN missed
                 ELSE [missed EXCEPT ![v] = @ \cup {r}]
    /\ phase' = IF cached'[v] = Rows THEN [phase EXCEPT ![v] = "streaming"] ELSE phase
    /\ UNCHANGED <<sourceVars, owed, events, lagging, resync, replica>>

(* The receiver reports a lag before anything else.                        *)
(* Fault: the lag is only logged, as in stream_events.                     *)
LagIgnored(v) ==
    /\ phase[v] = "streaming" /\ lagging[v]
    /\ lagging' = [lagging EXCEPT ![v] = FALSE]
    /\ UNCHANGED <<sourceVars, owed, events, viewVars>>

Lag(v) ==
    /\ phase[v] = "streaming" /\ lagging[v]
    /\ lagging' = [lagging EXCEPT ![v] = FALSE]
    /\ resync' = [resync EXCEPT ![v] = TRUE]
    /\ UNCHANGED <<sourceVars, owed, events, phase, cache, cached, replica, missed>>

Receives(v, event) ==
    /\ phase[v] = "streaming" /\ ~lagging[v] /\ events[v] # <<>>
    /\ Head(events[v]) = event
    /\ events' = [events EXCEPT ![v] = Tail(@)]
    /\ UNCHANGED <<sourceVars, owed, lagging, phase, cached>>

Dirty(v) == {r \in Rows : screen[r] # cache[v][r]}

(* A full screen also after a lag, and if more than 3/4 of the rows differ.*)
Sent(v) ==
    IF resync[v] \/ Cardinality(Dirty(v)) > (Cardinality(Rows) * 3) \div 4
    THEN Rows ELSE Dirty(v)

Update(v) ==
    /\ Receives(v, "content")
    /\ replica' = [replica EXCEPT ![v] =
         [r \in Rows |-> IF r \in Sent(v) THEN screen[r] ELSE @[r]]]
    /\ missed' = [missed EXCEPT ![v] = @ \ Sent(v)]
    /\ cache' = [cache EXCEPT ![v] = screen]
    /\ resync' = [resync EXCEPT ![v] = FALSE]

Skip(v) ==
    /\ Receives(v, "other")
    /\ UNCHANGED <<cache, resync, replica, missed>>

Leave(v) ==
    /\ phase[v] # "away"
    /\ phase' = [phase EXCEPT ![v] = "away"]
    /\ events' = [events EXCEPT ![v] = <<>>]
    /\ lagging' = [lagging EXCEPT ![v] = FALSE]
    /\ resync' = [resync EXCEPT ![v] = FALSE]
    /\ cached' = [cached EXCEPT ![v] = {}]
    /\ missed' = [missed EXCEPT ![v] = {}]
    /\ UNCHANGED <<sourceVars, owed, cache, replica>>

------------------------------------------------------------------------------
ScreenNext ==
    \/ \E r \in Rows, x \in Cells, request \in {"begin", "end", "none"} :
         Process(r, x, request)
    \/ Expire \/ Release \/ OtherEvent
    \/ \E new \in Screens : Resize(new)
    \/ \E who \in {"reader", "watchdog"} : Announce(who)
    \/ \E v \in Viewers :
         \/ Attach(v) \/ Subscribe(v) \/ Leave(v)
         \/ \E r \in Rows : Baseline(v, r)
         \/ Lag(v) \/ Update(v) \/ Skip(v)

(* The watchdog ticks and time passes.                                     *)
ScreenFairness == WF_screenVars(Expire) /\ WF_screenVars(Release)
                  /\ WF_screenVars(Announce("watchdog"))

ScreenSpec == ScreenInit /\ [][ScreenNext]_screenVars

------------------------------------------------------------------------------
(* Every variable of the stream has its type, and nothing is held back     *)
(* without a synchronized update the watchdog knows of.                    *)
ScreenTypeOK ==
    /\ screen \in Screens
    /\ {sync, expired, watched, pending, silent} \subseteq BOOLEAN
    /\ watched = sync /\ (pending => sync) /\ (expired => sync)
    /\ owed \subseteq {"reader", "watchdog"}
    /\ phase \in [Viewers -> {"away", "attached", "subscribed", "streaming"}]
    /\ events \in [Viewers -> Seq({"content", "other"})]
    /\ \A v \in Viewers : Len(events[v]) <= EventCap
    /\ lagging \in [Viewers -> BOOLEAN] /\ resync \in [Viewers -> BOOLEAN]
    /\ cache \in [Viewers -> Screens] /\ replica \in [Viewers -> Screens]
    /\ cached \in [Viewers -> SUBSET Rows] /\ missed \in [Viewers -> SUBSET Rows]

(* A viewer is going to be brought up to date: an announcement is in its   *)
(* channel or will be made, or its next update is a full one.  After a     *)
(* lag, and after a resize, that may take until the next change.           *)
NewsComing(v) ==
    \/ \E i \in DOMAIN events[v] : events[v][i] = "content"
    \/ lagging[v] \/ resync[v]
    \/ owed # {} \/ pending \/ silent

(* A viewer's copy differs from the screen only in rows that changed       *)
(* between its snapshot and the daemon's first cache, or while news is on  *)
(* its way, however changes, lags and full updates interleave              *)
(* (stream_screen_updates).                                                *)
ReplicaMatches ==
    \A v \in Viewers : phase[v] = "streaming" =>
      \A r \in Rows \ missed[v] : replica[v][r] = screen[r] \/ NewsComing(v)

(* What a synchronized update holds back is let go, even if the child      *)
(* falls silent, unless it renews its request over and over (the watchdog  *)
(* in start_reader, sync_update_active).                                   *)
SyncReleased ==
    []<>(sync /\ ~expired) \/ (pending ~> ~pending)
=============================================================================
