------------------------------ MODULE MC_Raid4 ------------------------------
(* Model-checking instance of Raid4; constants are given in the cfg files. *)
EXTENDS Raid4

=============================================================================
