------------------------------ MODULE MC_Spifs ------------------------------
EXTENDS SpifsStore, TLC

\* Two FB sectors of two and one file blocks.
TwoFbSectors == (1 :> 1) @@ (2 :> 1) @@ (3 :> 2)

\* One FB sector of two file blocks.
OneFbSector == (1 :> 1) @@ (2 :> 1)

\* No property tells one file name from another.
Symmetry == Permutations(Names)
=============================================================================
