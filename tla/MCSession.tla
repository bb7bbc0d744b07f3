----------------------------- MODULE MCSession -----------------------------
(* The instance of AgentSession that the cfgs give to TLC. *)
EXTENDS AgentSession, TLC
=============================================================================
