------------------------------ MODULE MCPlugin ------------------------------
(* Four inputs of the player, two faults, and a restart after two polls.     *)
EXTENDS Plugin
=============================================================================
