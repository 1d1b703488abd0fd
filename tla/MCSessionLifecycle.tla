--------------------------- MODULE MCSessionLifecycle ---------------------------
(***************************************************************************)
(* A small instance of the session lifecycle for TLC.                      *)
(***************************************************************************)
EXTENDS SessionLifecycleProperties
=============================================================================
