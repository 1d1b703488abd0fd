------------------------------- MODULE MCSessionIO -------------------------------
(***************************************************************************)
(* A small instance of a session's communication for TLC.                  *)
(***************************************************************************)
EXTENDS SessionIO
=============================================================================
