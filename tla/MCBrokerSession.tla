---------------------------- MODULE MCBrokerSession ----------------------------
(* An instance of BrokerSession for TLC. *)
EXTENDS BrokerSession, TLC
================================================================================
