--------------------------- MODULE MCHandleTables ---------------------------
(* A small instance of HandleTables. *)
EXTENDS HandleTables, TLC

Mode(r, w, sr, sw) == [reading |-> r, writing |-> w, shareRead |-> sr, shareWrite |-> sw]

\* yaffs_open for reading and writing; a writer that lets others only read.
MCModes == {Mode(TRUE, TRUE, TRUE, TRUE), Mode(FALSE, TRUE, TRUE, FALSE)}

Working == ~broken

Symmetry == Permutations(Threads) \cup Permutations(Objects)
=============================================================================
