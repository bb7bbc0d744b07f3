------------------------------ MODULE MCDaemon -------------------------------
(* The instance of Daemon that the cfg gives to TLC. *)
EXTENDS Daemon, TLC
=============================================================================
