------------------------------ MODULE MCBarber ------------------------------
(* Model-checking instance of Barber.                                      *)
EXTENDS Barber
=============================================================================
