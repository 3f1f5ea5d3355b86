------------------------------ MODULE MCBackup ------------------------------
\* The root with the directories d (a file f below it) and e and the file .g,
\* hidden from the walk.  d and f move into e, .g is put in the place of f.
EXTENDS Backup

MCFirstPath ==
    [n \in Nodes |->
        CASE n = "root" -> <<>> [] n = "D" -> <<"d">> [] n = "E" -> <<"e">>
          [] n = "F" -> <<"d", "f">> [] n = "G" -> <<".g">>]

Rename(old, new) == [op |-> "rename", old |-> old, new |-> new]
MCCalls ==
    {Rename(<<"d">>, <<"e", "d">>), Rename(<<"d", "f">>, <<"e", "f">>),
     Rename(<<".g">>, <<"d", "f">>), Rename(<<"d">>, <<".g">>),
     [op |-> "unlink", old |-> <<"d", "f">>, new |-> <<>>]}
=============================================================================
