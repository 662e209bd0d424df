------------------------------ MODULE MC_Panel ------------------------------
(* The e-paper driver with two pictures and a time-out of a few ticks.       *)
EXTENDS Panel

TwoPictures == 1..2

=============================================================================
