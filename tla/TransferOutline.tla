---------------------------- MODULE TransferOutline ----------------------------
(***************************************************************************)
(* A transfer actor as the rest of the daemon takes it to be, and as       *)
(* module SessionLifecycle has it: a switch, work, and a worker that may   *)
(* be gone.  Work comes in at one place, which looks at the switch; it is  *)
(* over when the worker returns, and none comes in afterwards.             *)
(***************************************************************************)
VARIABLES
    open,        \* the switch: new commands are accepted
    work,        \* a command, prompt, session or staged file is there
    gone         \* the worker has returned

vars == <<open, work, gone>>

Init == open = TRUE /\ work = FALSE /\ gone = FALSE

Switch ==
    /\ open' = ~open
    /\ UNCHANGED <<work, gone>>

Admit ==
    /\ open /\ ~gone
    /\ work' = TRUE
    /\ UNCHANGED <<open, gone>>

End ==
    /\ work' = FALSE
    /\ UNCHANGED <<open, gone>>

(* Whoever tells the worker to return may turn the switch off with it.     *)
Return ==
    /\ ~gone
    /\ gone' = TRUE /\ work' = FALSE
    /\ open' \in {open, FALSE}

Next == Switch \/ Admit \/ End \/ Return

Spec == Init /\ [][Next]_vars
=============================================================================
