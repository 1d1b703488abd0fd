---------------------------- MODULE TransferConsent ----------------------------
(***************************************************************************)
(* What file transfer promises the user, whatever the daemon does inside:  *)
(* a request is put to the user at most once, an answer counts only while  *)
(* the request is open and in time, and the filesystem is touched only for *)
(* a request that was granted.  A request that was refused, dismissed or   *)
(* left to expire is withdrawn and can never be granted afterwards.        *)
(***************************************************************************)
VARIABLES
    asked,       \* requests the user has been shown
    overdue,     \* open requests whose time is up
    granted,     \* requests the user granted
    withdrawn,   \* requests that ended without a grant
    used         \* requests the filesystem has worked for

vars == <<asked, overdue, granted, withdrawn, used>>

Open == asked \ (granted \cup withdrawn)

Init ==
    /\ asked = {} /\ overdue = {} /\ granted = {} /\ withdrawn = {} /\ used = {}

Ask(r) ==
    /\ r \notin asked
    /\ asked' = asked \cup {r}
    /\ UNCHANGED <<overdue, granted, withdrawn, used>>

Lapse(r) ==
    /\ r \in Open
    /\ overdue' = overdue \cup {r}
    /\ UNCHANGED <<asked, granted, withdrawn, used>>

Grant(r) ==
    /\ r \in Open \ overdue
    /\ granted' = granted \cup {r}
    /\ UNCHANGED <<asked, overdue, withdrawn, used>>

(* Denied, expired, cancelled, or ended by a command out of turn.          *)
Withdraw(r) ==
    /\ r \in Open
    /\ withdrawn' = withdrawn \cup {r}
    /\ overdue' = overdue \ {r}
    /\ UNCHANGED <<asked, granted, used>>

Use(r) ==
    /\ r \in granted
    /\ used' = used \cup {r}
    /\ UNCHANGED <<asked, overdue, granted, withdrawn>>

(* The executor goes away, possibly in the middle of using a grant.        *)
Stop ==
    /\ withdrawn' = withdrawn \cup Open
    /\ overdue' = {}
    /\ \E begun \in SUBSET granted : used' = used \cup begun
    /\ UNCHANGED <<asked, granted>>

(* Tokens are not drawn from a fixed set: any new one may be asked.        *)
Next ==
    \/ \E r \in asked' \ asked : Ask(r)
    \/ \E r \in Open : Lapse(r) \/ Grant(r) \/ Withdraw(r)
    \/ \E r \in granted : Use(r)
    \/ Stop

Spec == Init /\ [][Next]_vars
=============================================================================
