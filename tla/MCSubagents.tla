----------------------------- MODULE MCSubagents -----------------------------
(* The instance of Subagents that the cfg gives to TLC. *)
EXTENDS Subagents, TLC
=============================================================================
