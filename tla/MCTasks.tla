------------------------------- MODULE MCTasks -------------------------------
(* The instance of TaskBoard that the cfg gives to TLC. *)
EXTENDS TaskBoard, TLC
=============================================================================
