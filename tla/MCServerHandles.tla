--------------------------- MODULE MCServerHandles ---------------------------
(* Small instances of ServerHandles. *)
EXTENDS ServerHandles, TLC

Reading == [reading |-> TRUE, writing |-> FALSE, shareRead |-> TRUE, shareWrite |-> TRUE]

\* tr_file_open_without_mode for O_RDONLY and for O_RDWR.
MCModes == {Reading, RW}

Symmetry == Permutations(Threads) \cup Permutations(Files)

\* Nothing is said of what follows once a handle of somebody else was closed.
\* One number that was never opened, one that was overwritten and one file
\* with two nodes are enough.
Clean ==
    /\ ~foul
    /\ Cardinality(wild) <= 1
    /\ Cardinality(lost) <= 1
    /\ \A o, p \in Files : o # p => Len(locks[o]) + Len(locks[p]) <= 3
=============================================================================
