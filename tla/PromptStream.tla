------------------------------ MODULE PromptStream ------------------------------
(***************************************************************************)
(* How the consent prompts of file transfers reach the clients: a registry *)
(* of the open prompts and a bounded broadcast channel, both written under *)
(* the registry's lock; a client that opens its event stream is sent the   *)
(* open prompts first and then what the channel has for it.                *)
(*                                                                         *)
(* Abstracted: what a prompt says and when it expires (module              *)
(* TtyTransferActor decides when it is cleared).                           *)
(***************************************************************************)
EXTENDS Naturals, Sequences, FiniteSets

CONSTANTS
    Prompts,      \* request ids, each used once
    Watchers,     \* clients
    PromptCap     \* capacity of the channel (32)

ASSUME PromptAssumption == IsFiniteSet(Prompts) /\ PromptCap \in Nat \ {0}

VARIABLES
    registry,     \* open prompts (tty_transfer_prompt_registry)
    issued,       \* ids that have been used
    listening,    \* clients with an event stream
    replay,       \* client: what is left of its snapshot
    live,         \* client: its receiver of the channel
    overrun,      \* client: the channel has dropped prompts it had not read
    shown         \* client: the prompts its stream has delivered, in order

promptVars == <<registry, issued, listening, replay, live, overrun, shown>>

PromptInit ==
    /\ registry = {} /\ issued = {} /\ listening = {}
    /\ replay = [w \in Watchers |-> {}]
    /\ live = [w \in Watchers |-> <<>>]
    /\ overrun = [w \in Watchers |-> FALSE]
    /\ shown = [w \in Watchers |-> <<>>]

(* register_tty_transfer_prompt(), and clear_tty_transfer_prompt().        *)
Register(p) ==
    /\ p \notin issued
    /\ issued' = issued \cup {p}
    /\ registry' = registry \cup {p}
    /\ live' = [w \in Watchers |->
         IF w \notin listening THEN live[w]
         ELSE Append(IF Len(live[w]) >= PromptCap THEN Tail(live[w]) ELSE live[w], p)]
    /\ overrun' = [w \in Watchers |->
         overrun[w] \/ (w \in listening /\ Len(live[w]) >= PromptCap)]
    /\ UNCHANGED <<listening, replay, shown>>

Clear(p) ==
    /\ p \in registry
    /\ registry' = registry \ {p}
    /\ UNCHANGED <<issued, listening, replay, live, overrun, shown>>

(* subscribe_tty_transfer_prompts().                                       *)
(* Fault: no snapshot, as for the prompts of SSH.                          *)
SnapshotNever == {}

Snapshot == registry

Listen(w) ==
    /\ w \notin listening
    /\ listening' = listening \cup {w}
    /\ replay' = [replay EXCEPT ![w] = Snapshot]
    /\ UNCHANGED <<registry, issued, live, overrun, shown>>

(* The snapshot is sorted by id, which the order does not depend on here.  *)
Replay(w) ==
    /\ \E p \in replay[w] :
         /\ replay' = [replay EXCEPT ![w] = @ \ {p}]
         /\ shown' = [shown EXCEPT ![w] = Append(@, p)]
    /\ UNCHANGED <<registry, issued, listening, live, overrun>>

Deliver(w) ==
    /\ w \in listening /\ replay[w] = {} /\ live[w] # <<>>
    /\ live' = [live EXCEPT ![w] = Tail(@)]
    /\ shown' = [shown EXCEPT ![w] = Append(@, Head(live[w]))]
    /\ UNCHANGED <<registry, issued, listening, replay, overrun>>

Disconnect(w) ==
    /\ w \in listening
    /\ listening' = listening \ {w}
    /\ replay' = [replay EXCEPT ![w] = {}]
    /\ live' = [live EXCEPT ![w] = <<>>]
    /\ overrun' = [overrun EXCEPT ![w] = FALSE]
    /\ shown' = [shown EXCEPT ![w] = <<>>]
    /\ UNCHANGED <<registry, issued>>

PromptNext ==
    \/ \E p \in Prompts : Register(p) \/ Clear(p)
    \/ \E w \in Watchers : Listen(w) \/ Replay(w) \/ Deliver(w) \/ Disconnect(w)

PromptSpec == PromptInit /\ [][PromptNext]_promptVars

------------------------------------------------------------------------------
(* Every variable of the stream has its type; only clients with a stream   *)
(* hold anything, and no receiver exceeds its capacity.                    *)
PromptTypeOK ==
    /\ registry \subseteq issued /\ issued \subseteq Prompts
    /\ listening \subseteq Watchers
    /\ replay \in [Watchers -> SUBSET issued]
    /\ live \in [Watchers -> Seq(issued)] /\ shown \in [Watchers -> Seq(issued)]
    /\ \A w \in Watchers : Len(live[w]) <= PromptCap
    /\ overrun \in [Watchers -> BOOLEAN]
    /\ \A w \in Watchers \ listening :
         replay[w] = {} /\ live[w] = <<>> /\ shown[w] = <<>> /\ ~overrun[w]

Elements(s) == {s[i] : i \in DOMAIN s}

Once(s) == \A i, j \in DOMAIN s : s[i] = s[j] => i = j

(* A client with an event stream has been shown, or will be, every prompt  *)
(* that is open, unless its channel overran; and none twice, although the  *)
(* snapshot and the channel meet (subscribe_tty_transfer_prompts).         *)
ApprovalSeen ==
    \A w \in listening :
      /\ registry \subseteq replay[w] \cup Elements(live[w]) \cup Elements(shown[w])
         \/ overrun[w]
      /\ Once(live[w]) /\ Once(shown[w])
      /\ replay[w] \cap (Elements(live[w]) \cup Elements(shown[w])) = {}
      /\ Elements(live[w]) \cap Elements(shown[w]) = {}
=============================================================================
