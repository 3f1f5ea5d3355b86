--------------------------- MODULE MCDirectories ---------------------------
(* A small instance of Directories. *)
EXTENDS Directories, TLC

\* Paths of one and two components, one of them through a parent and one that
\* ends in "..", and of one component with a divider at the end.
MCPaths == {<<"">>, <<"x">>, <<"y">>, <<"x", "">>, <<"x", "y">>, <<"x", "..", "y">>,
            <<"x", "..">>}

\* A link to a sibling and one from the root that leads through another name and
\* ends in "..".
MCAliases == {[fromRoot |-> FALSE, path |-> <<"y">>],
              [fromRoot |-> TRUE, path |-> <<"x", "..">>]}

Symmetry == Permutations(Objects)
=============================================================================
