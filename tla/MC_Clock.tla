------------------------------ MODULE MC_Clock ------------------------------
(* The clock on small instances.                                            *)
EXTENDS Clock

\* 22 December 2021, 23:24:07, and 1 March 2022, 11:58:52, local time.
AnyDay == {1640186647, 1646107132}

\* 31 December 2023, 31 December 2024 and 1 March 2024, 9:00:07 local time.
YearEnds == {1703984407, 1735606807, 1709254807}

Menu == {1, 2, 3, 4, 5, 7, 10, 15, 20, 30}
TenMinutes == {10}

NoNight == {}
Midnight == {0}   \* falls between the first and the last tick of the first start

=============================================================================
