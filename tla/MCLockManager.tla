--------------------------- MODULE MCLockManager ---------------------------
(***************************************************************************)
(* Small instances of LockManager.  Inode 1 plays a directory and 2 a file *)
(* in it.                                                                  *)
(***************************************************************************)
EXTENDS LockManager

\* Readers and writers of one file.
OneFileCalls == {open(1, 0), open(1, 1)}

\* Handlers that lock a directory, a file in it, or both (creat asks for what
\* unlink asks first).
AllCalls == {open(2, 0), open(2, 1), stat(1), unlink(1, 2),
             rename(1, 1, 2, TRUE)}

\* The directory before the file, and readers of the directory, who may then
\* ask for nothing exclusive: no two transactions can block each other.
OrderedCalls == {open(1, 0), creat(1), unlink(1, 2)}

WalkOne == <<1>>
WalkTwo == <<1, 2>>
WalkNone == <<>>
=============================================================================
