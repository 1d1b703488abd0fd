--------------------------- MODULE TransferPublication ---------------------------
(***************************************************************************)
(* What staging promises to the rest of the machine: a destination changes *)
(* only after a transfer was finished, and then it gets, in one step, one  *)
(* of the whole items that were sealed at that moment, each at most once.  *)
(***************************************************************************)
EXTENDS Integers, FiniteSets

CONSTANTS Places, Ids, Unknown

VARIABLES
    shown,      \* what is at each destination
    batch       \* sealed items that have not been published yet

vars == <<shown, batch>>

(* A finished file of the length it declared, or a symbolic link.          *)
Whole(content) ==
    /\ content.kind \in {"new", "symlink"}
    /\ content.size \in {Unknown, content.bytes}

IsItem(i) == i.at \in Places /\ i.id \in Ids /\ Whole(i.content)

Init == batch = {}

Seal ==
    /\ batch = {}
    /\ \A i \in batch' : IsItem(i)
    /\ UNCHANGED shown

Show(i) == shown' = [shown EXCEPT ![i.at] = i.content]

Publish == \E i \in batch : Show(i) /\ batch' = batch \ {i}

GiveUp ==
    /\ batch' = {}
    /\ UNCHANGED shown \/ \E i \in batch : Show(i)

Next == Seal \/ Publish \/ GiveUp

Spec == Init /\ [][Next]_vars
=============================================================================
