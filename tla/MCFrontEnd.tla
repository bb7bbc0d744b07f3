----------------------------- MODULE MCFrontEnd -----------------------------
(* The instance of FrontEnd that the cfg gives to TLC. *)
EXTENDS FrontEnd, TLC
=============================================================================
