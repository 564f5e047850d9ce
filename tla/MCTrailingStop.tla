---------------------------- MODULE MCTrailingStop ----------------------------
(* Instances of TrailingStop for TLC. *)
EXTENDS TrailingStop, TLC

TwoBrackets ==
  {[dir |-> "long", entry |-> 20, stop |-> 12], [dir |-> "short", entry |-> 40, stop |-> 48]}
OneBracket == {[dir |-> "long", entry |-> 20, stop |-> 12]}
OneOverride == {[trail |-> 2, act |-> 2, force |-> "tight_trail", min |-> None]}
===============================================================================
