----------------------------- MODULE MCDaemonServer -----------------------------
(***************************************************************************)
(* Small instances of the daemons around one socket for TLC.               *)
(***************************************************************************)
EXTENDS DaemonServerProperties
=============================================================================
