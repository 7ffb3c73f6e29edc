---------------------------- MODULE MC_Barbershop ----------------------------
(* The barbershop with three customers and a line of two places, so that  *)
(* the line fills and a customer is turned away.                           *)
EXTENDS Barbershop
=============================================================================
