------------------------------- MODULE SessionIO -------------------------------
(***************************************************************************)
(* The three ways in which a session talks to the outside: to its child    *)
(* (PtyBridge), to those who look at its screen (ScreenStream), and to     *)
(* those who are asked for consent (PromptStream).  They share no variable *)
(* and hold no lock together, so that what one does cannot depend on where *)
(* another is: a behaviour follows one of them, chosen at the start.       *)
(***************************************************************************)
EXTENDS PtyBridge, ScreenStream, PromptStream

VARIABLE way      \* which of the three: "child", "screen" or "prompts"

vars == <<way, bridgeVars, screenVars, promptVars>>

Init ==
    /\ way \in {"child", "screen", "prompts"}
    /\ BridgeInit /\ ScreenInit /\ PromptInit

WithChild == way = "child" /\ BridgeNext /\ UNCHANGED <<way, screenVars, promptVars>>

WithScreen == way = "screen" /\ ScreenNext /\ UNCHANGED <<way, bridgeVars, promptVars>>

WithPrompts == way = "prompts" /\ PromptNext /\ UNCHANGED <<way, bridgeVars, screenVars>>

Next == WithChild \/ WithScreen \/ WithPrompts

Spec == Init /\ [][Next]_vars

(* Each way under the fairness of its own module.                          *)
FairSpec ==
    Spec /\ (way = "child" => BridgeFairness) /\ (way = "screen" => ScreenFairness)
=============================================================================
