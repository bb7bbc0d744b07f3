-------------------------------- MODULE MCMcp --------------------------------
(* The instance of McpClient that the cfg gives to TLC. *)
EXTENDS McpClient, TLC
=============================================================================
