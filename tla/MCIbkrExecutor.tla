---------------------------- MODULE MCIbkrExecutor ----------------------------
(* An instance of IbkrExecutor for TLC. *)
EXTENDS IbkrExecutor, TLC
================================================================================
