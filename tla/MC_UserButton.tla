--------------------------- MODULE MC_UserButton ---------------------------
(* Instance of UserButton for TLC: the thresholds in the order they have on
   the board, and a clock that wraps soon after the longest of them. *)
EXTENDS UserButton
=============================================================================
