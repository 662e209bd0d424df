--------------------------- MODULE MC_UdpHandler ---------------------------
EXTENDS UdpHandler, TLC

\* One FB sector of two file blocks.
OneFbSector == (1 :> 1) @@ (2 :> 1)

\* No property tells one file name from another.
Symmetry == Permutations(Names)
=============================================================================
