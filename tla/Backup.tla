------------------------------- MODULE Backup -------------------------------
(***************************************************************************)
(* The walk of the online backup (backup_manager.c) over the tree of the   *)
(* host, while transactions rename and unlink in it.                       *)
(*                                                                         *)
(* The backup takes paths from a stack.  It asks for the inode of a path   *)
(* twice, once to learn what it is and once to lock it, waits for the lock *)
(* and then uses the path again to open and to mark; what it releases is   *)
(* the inode of the first answer.  A transaction locks inodes while it     *)
(* runs and changes the tree when it commits (Log_manager.c).  The lock    *)
(* manager is reduced to an owner per inode: all locks here are exclusive, *)
(* but those lock_subtree takes, on a directory the transaction has.       *)
(***************************************************************************)
EXTENDS Integers, Sequences, SequencesExt, FiniteSets, FiniteSetsExt

CONSTANTS Root, Dirs, Files,  \* the inodes of the tree, Root apart
          Nowhere,
          Names,       \* what an entry of a directory can be called
          Hidden,      \* names that begin with a dot
          FirstPath,   \* [Nodes -> paths]: the tree when the backup begins
          FirstMarks,  \* the inodes whose sticky bit is set then
          Txns,        \* each executes one call
          Calls,       \* [op, old, new]: the calls they choose from
          StackLimit   \* the entries stack[] has room for (199)

Nodes == {Root} \cup Dirs \cup Files
Backup == 0

ASSUME TreeAssumption ==
    /\ Root \notin Dirs \cup Files /\ Dirs \cap Files = {}
    /\ Nowhere \notin Nodes \cup Names
    /\ IsFiniteSet(Nodes)
    /\ FirstPath \in [Nodes -> Seq(Names)]
    /\ FirstPath[Root] = <<>>
    /\ \A m, n \in Nodes : FirstPath[m] = FirstPath[n] => m = n
    /\ \A n \in Nodes : \A k \in 0..(Len(FirstPath[n]) - 1) :
          \E d \in Dirs \cup {Root} : FirstPath[d] = SubSeq(FirstPath[n], 1, k)
ASSUME CallsAssumption ==
    Calls \subseteq [op : {"rename", "unlink"}, old : Seq(Names), new : Seq(Names)]
ASSUME StackAssumption == StackLimit \in Nat \ {0}
ASSUME TxnsAssumption == Txns \subseteq Nat \ {Backup} /\ Nowhere \notin Txns \cup {Backup}

VARIABLES
    path,       \* where an inode is: a path below Root, <<Nowhere>> when unlinked
    sticky,     \* the sticky bit of an inode
    owner,      \* who has the lock of an inode
    call,       \* what a transaction executes
    pc,         \* where it is: idle, lock, ready, ended
    target,     \* the inodes it has looked up, to lock in this order
    granted,    \* how many of them it has
    at,         \* where the backup is in its loop
    stack,      \* the paths still to visit, the top of the stack last
    current,    \* the path it works on
    path_buf,   \* the first answer about it: [ino, sticky]
    locked,     \* the second one, the inode it locks
    opened,     \* the directory opened, or Nowhere
    copied,     \* how often the inode has been copied
    moved,      \* the inodes whose path has changed since the backup began
    shaken      \* the current path has come to lead elsewhere since it was taken

tree == <<path, sticky>>
txns == <<call, pc, target, granted>>
walk == <<at, stack, current, path_buf, locked, opened, copied>>
vars == <<tree, owner, txns, walk, moved, shaken>>

\* What stat() finds at a path in a tree.
Stat(where, p) ==
    IF \E n \in Nodes : where[n] = p THEN CHOOSE n \in Nodes : where[n] = p ELSE Nowhere
At(p) == Stat(path, p)

\* The answer in a buffer that a failed stat() has not written: error() only
\* prints, and the inode used is whatever was there.
Answers(p) == IF At(p) = Nowhere THEN Nodes ELSE {At(p)}

Children(d) == {n \in Nodes \ {Root} : path[n] # <<Nowhere>> /\ Front(path[n]) = path[d]}
Free(n, t) == owner[n] \in {Nowhere, t}
Up == at \notin {"crashed", "overrun"}

Init ==
    /\ path = FirstPath
    /\ sticky = [n \in Nodes |-> n \in FirstMarks]
    /\ owner = [n \in Nodes |-> Nowhere]
    /\ call = [t \in Txns |-> Nowhere]
    /\ pc = [t \in Txns |-> "idle"]
    /\ target = [t \in Txns |-> <<>>]
    /\ granted = [t \in Txns |-> 0]
    /\ at = "pop"
    /\ stack = <<FirstPath[Root]>>
    /\ current = <<>>
    /\ path_buf = [ino |-> Root, sticky |-> Root \in FirstMarks]
    /\ locked = Nowhere
    /\ opened = Nowhere
    /\ copied = [n \in Nodes |-> 0]
    /\ moved = {}
    /\ shaken = FALSE

-----------------------------------------------------------------------------
(***************************************************************************)
(* Transactions.  rename locks the old parent, the new one and what is     *)
(* moved; unlink the parent and the child.                                 *)
(***************************************************************************)
\* Mutant: the inode that is moved or removed is not locked.
LockPathsParents(c) ==
    IF c.op = "unlink" \/ Front(c.old) = Front(c.new) THEN <<Front(c.old)>>
    ELSE <<Front(c.old), Front(c.new)>>

\* The paths a call locks, in order.
LockPaths(c) ==
    IF c.op = "unlink" THEN <<Front(c.old), c.old>>
    ELSE IF Front(c.old) = Front(c.new) THEN <<Front(c.old), c.old>>
    ELSE <<Front(c.old), Front(c.new), c.old>>

\* on_rename, on_unlink up to the first lock request.  rename aborts without
\* the object or the new parent, and looks up the old parent; unlink looks up
\* both its inodes.
Begin(t, c) ==
    /\ Up /\ pc[t] = "idle"
    /\ call' = [call EXCEPT ![t] = c]
    /\ \/ /\ c.op = "unlink"
          /\ \E p \in Answers(Front(c.old)), n \in Answers(c.old) :
                target' = [target EXCEPT ![t] = <<p, n>>]
          /\ pc' = [pc EXCEPT ![t] = "lock"]
       \/ /\ c.op = "rename" /\ At(c.old) # Nowhere /\ At(Front(c.new)) # Nowhere
          /\ target' = [target EXCEPT ![t] = <<At(Front(c.old))>>]
          /\ pc' = [pc EXCEPT ![t] = "lock"]
       \/ /\ c.op = "rename" /\ (At(c.old) = Nowhere \/ At(Front(c.new)) = Nowhere)
          /\ pc' = [pc EXCEPT ![t] = "ended"]
          /\ UNCHANGED target
    /\ UNCHANGED <<tree, owner, granted, walk, moved, shaken>>

Asked(t) == target[t][granted[t] + 1]

\* A lock is granted.  What is not yet looked up is looked up next, with
\* file_mutex still held.
Lock(t) ==
    LET k == granted[t] + 1
        steps == LockPaths(call[t]) IN
    /\ Up /\ pc[t] = "lock" /\ Free(Asked(t), t)
    /\ owner' = [owner EXCEPT ![Asked(t)] = t]
    /\ granted' = [granted EXCEPT ![t] = k]
    /\ pc' = [pc EXCEPT ![t] = IF k = Len(steps) THEN "ready" ELSE "lock"]
    /\ IF k < Len(target[t]) \/ k = Len(steps) THEN UNCHANGED target
       ELSE \E n \in Answers(steps[k + 1]) : target' = [target EXCEPT ![t] = Append(@, n)]
    /\ UNCHANGED <<tree, call, walk, moved, shaken>>

\* Mutant: the lock taken last is left behind.
EndedButLast(t) ==
    /\ pc' = [pc EXCEPT ![t] = "ended"]
    /\ owner' = [n \in Nodes |->
                   IF owner[n] = t /\ n # target[t][granted[t]] THEN Nowhere ELSE owner[n]]
    /\ UNCHANGED <<sticky, call, target, granted, walk>>

Ended(t) ==
    /\ pc' = [pc EXCEPT ![t] = "ended"]
    /\ owner' = [n \in Nodes |-> IF owner[n] = t THEN Nowhere ELSE owner[n]]
    /\ UNCHANGED <<sticky, call, target, granted, walk>>

\* A conflict with the backup at a lock request that is not the first, or the
\* client, aborts the transaction: nothing has been done to the tree yet.
Abort(t) ==
    /\ Up
    /\ \/ pc[t] = "ready"
       \/ pc[t] = "lock" /\ granted[t] > 0 /\ Free(Asked(t), t)
    /\ Ended(t)
    /\ UNCHANGED <<path, moved, shaken>>

\* What rename(old, new) or unlink(old) of the host leaves, nothing changed
\* when it fails.  What is below a directory moves with it.
Renamed(old, new) ==
    LET o == At(old)
        r == At(new)
        ok == /\ o # Nowhere /\ r # o /\ At(Front(new)) \in Dirs \cup {Root}
              /\ ~IsPrefix(old, new)
              /\ r # Nowhere =>
                    /\ r # Root /\ (r \in Dirs <=> o \in Dirs) /\ Children(r) = {} IN
    IF ~ok THEN path
    ELSE [n \in Nodes |->
            IF n = r THEN <<Nowhere>>
            ELSE IF IsPrefix(old, path[n]) THEN new \o SubSeq(path[n], Len(old) + 1, Len(path[n]))
            ELSE path[n]]
Unlinked(old) ==
    IF At(old) \in Files THEN [path EXCEPT ![At(old)] = <<Nowhere>>] ELSE path

\* delayed_rename, delayed_unlink at commit, with file_mutex held, then the
\* release of the locks.
Commit(t) ==
    /\ Up /\ pc[t] = "ready"
    /\ path' = IF call[t].op = "unlink" THEN Unlinked(call[t].old)
               ELSE Renamed(call[t].old, call[t].new)
    /\ moved' = moved \cup {n \in Nodes : path'[n] # path[n]}
    /\ shaken' = (shaken \/ Stat(path', current) # At(current))
    /\ Ended(t)

-----------------------------------------------------------------------------
(***************************************************************************)
(* The backup: one turn of its loop is Pop, LockPath, Copy, Mark, List for *)
(* a directory, and Release.                                               *)
(***************************************************************************)
\* pop and the first stat.  A path that is gone is skipped.
Pop ==
    /\ at = "pop" /\ stack # <<>>
    /\ current' = Last(stack)
    /\ stack' = Front(stack)
    /\ shaken' = FALSE
    /\ IF At(Last(stack)) = Nowhere THEN UNCHANGED <<at, path_buf>>
       ELSE /\ at' = "stat"
            /\ path_buf' = [ino |-> At(Last(stack)), sticky |-> sticky[At(Last(stack))]]
    /\ UNCHANGED <<tree, owner, txns, locked, opened, copied, moved>>

\* lock_file, lock_directory: the second stat ...
StatAgain ==
    /\ at = "stat"
    /\ at' = "lock"
    /\ \E n \in Answers(current) : locked' = n
    /\ UNCHANGED <<tree, owner, txns, stack, current, path_buf, opened, copied, moved, shaken>>

\* Mutant: the walk goes on without the lock.
LockPathSkipped ==
    /\ at = "lock" /\ at' = "copy"
    /\ UNCHANGED <<tree, owner, txns, stack, current, path_buf, locked, opened, copied, moved, shaken>>

\* ... and the lock, when nobody has it.
LockPath ==
    /\ at = "lock" /\ owner[locked] = Nowhere
    /\ owner' = [owner EXCEPT ![locked] = Backup]
    /\ at' = "copy"
    /\ UNCHANGED <<tree, txns, stack, current, path_buf, locked, opened, copied, moved, shaken>>

\* opendir or open, copy_inode, copy_directory or copy_file.
Copy ==
    LET o == At(current) IN
    /\ at = "copy"
    /\ opened' = IF o \in Dirs \cup {Root} THEN o ELSE Nowhere
    /\ copied' = IF o = Nowhere THEN copied ELSE [copied EXCEPT ![o] = @ + 1]
    /\ at' = "mark"
    /\ UNCHANGED <<tree, owner, txns, stack, current, path_buf, locked, moved, shaken>>

\* The bit mark_as_read sets: the opposite of the one stat saw.
NewMark == ~path_buf.sticky

\* Mutant: every path is listed as a directory.
MarkThenList ==
    LET o == At(current) IN
    /\ at = "mark"
    /\ sticky' = IF o = Nowhere THEN sticky ELSE [sticky EXCEPT ![o] = NewMark]
    /\ at' = "list"
    /\ UNCHANGED <<path, owner, txns, stack, current, path_buf, locked, opened, copied, moved, shaken>>

\* mark_as_read: chmod of the path, whatever is there now.
MarkAsRead ==
    LET o == At(current) IN
    /\ at = "mark"
    /\ sticky' = IF o = Nowhere THEN sticky ELSE [sticky EXCEPT ![o] = NewMark]
    /\ at' = IF path_buf.ino \in Files THEN "release" ELSE "list"
    /\ UNCHANGED <<path, owner, txns, stack, current, path_buf, locked, opened, copied, moved, shaken>>

\* Mutant: names that begin with a dot are pushed too.
ListingDots(d) == {current \o <<Last(path[n])>> : n \in Children(d)}

\* The paths readdir gives for a directory: the path it was opened by, and
\* every name but the hidden ones.
Listing(d) ==
    {current \o <<Last(path[n])>> : n \in {m \in Children(d) : Last(path[m]) \notin Hidden}}

\* rewinddir and the loop over readdir.  Without a directory stream the
\* server is gone; more paths than stack[] has room for overwrite what follows.
List ==
    /\ at = "list"
    /\ IF opened = Nowhere THEN at' = "crashed" /\ UNCHANGED stack
       ELSE IF Len(stack) + Cardinality(Listing(opened)) > StackLimit
            THEN at' = "overrun" /\ UNCHANGED stack
       ELSE /\ at' = "release"
            /\ \E s \in SetToSeqs(Listing(opened)) : stack' = stack \o s
    /\ UNCHANGED <<tree, owner, txns, current, path_buf, locked, opened, copied, moved, shaken>>

\* Mutant: the lock stays in the list.
ReleaseKeeps ==
    /\ at = "release"
    /\ at' = IF owner[path_buf.ino] = Backup THEN "pop" ELSE "crashed"
    /\ UNCHANGED <<tree, owner, txns, stack, current, path_buf, locked, opened, copied, moved, shaken>>

\* release_locks_by_backup looks for the inode of the first stat among the
\* locks of the backup; when it is not there it runs off the list.
Release ==
    /\ at = "release"
    /\ IF owner[path_buf.ino] = Backup
       THEN /\ at' = "pop"
            /\ owner' = [owner EXCEPT ![path_buf.ino] = Nowhere]
       ELSE at' = "crashed" /\ UNCHANGED owner
    /\ UNCHANGED <<tree, txns, stack, current, path_buf, locked, opened, copied, moved, shaken>>

Done ==
    /\ at = "pop" /\ stack = <<>>
    /\ at' = "done"
    /\ UNCHANGED <<tree, owner, txns, stack, current, path_buf, locked, opened, copied, moved, shaken>>

BackupStep ==
    \/ Pop \/ StatAgain \/ LockPath \/ Copy \/ MarkAsRead \/ List \/ Release \/ Done

Next ==
    \/ BackupStep
    \/ \E t \in Txns :
          \/ \E c \in Calls : Begin(t, c)
          \/ Lock(t) \/ Abort(t) \/ Commit(t)

Spec == Init /\ [][Next]_vars

\* The thread of the backup runs, and so do those of the transactions, whose
\* clients end them sooner or later.
FairSpec ==
    /\ Spec
    /\ WF_vars(BackupStep)
    /\ \A t \in Txns : WF_vars(Lock(t)) /\ WF_vars(Commit(t) \/ Abort(t))
-----------------------------------------------------------------------------
\* Every variable has its type, the locks of a transaction are what it was
\* granted, and the backup has the lock of one inode, the one it asked for, and
\* that only while it works on a path.
TypeOK ==
    /\ sticky \in [Nodes -> BOOLEAN]
    /\ \A m, n \in Nodes : path[m] = path[n] => m = n \/ path[m] = <<Nowhere>>
    /\ at \in {"pop", "stat", "lock", "copy", "mark", "list", "release", "done", "crashed", "overrun"}
    /\ Len(stack) <= StackLimit
    /\ \A t \in Txns :
          {n \in Nodes : owner[n] = t} =
            IF pc[t] \in {"lock", "ready"} THEN {target[t][i] : i \in 1..granted[t]} ELSE {}
    /\ at \in {"pop", "stat", "lock", "done"} => \A n \in Nodes : owner[n] # Backup
    /\ \A n \in Nodes : owner[n] = Backup => n = locked

Steady == Nodes \ moved
Leads(p, n) ==
    IsPrefix(p, path[n]) /\ \A i \in (Len(p) + 1)..Len(path[n]) : path[n][i] \notin Hidden

\* Where the walk still has to pass: the stack, and the current path before
\* it is copied or listed.
Ahead(n) ==
    Cardinality({i \in DOMAIN stack : Leads(stack[i], n)})
      + (IF \/ at \in {"stat", "lock", "copy"} /\ Leads(current, n)
            \/ at \in {"mark", "list"} /\ Leads(current, n) /\ current # path[n]
         THEN 1 ELSE 0)

\* The walk has each inode that has not moved either behind it, copied once
\* and with its mark turned, or ahead of it on exactly one of its paths: what
\* goes on around it makes it neither forget nor repeat.  (online_bck.)
CoveredOnce ==
    Up => \A n \in Steady :
            /\ copied[n] + Ahead(n) = (IF Leads(<<>>, n) THEN 1 ELSE 0)
            /\ at # "mark" \/ current # path[n] =>
                  (sticky[n] # (n \in FirstMarks) <=> copied[n] = 1)

\* The server only falls over a path that changed between the first answer
\* about it and the release of its lock.  (online_bck, release_locks_by_backup.)
FallsOnlyShaken == at = "crashed" => shaken

\* Only the inode the backup has locked is copied or marked, unless the path
\* changed under it.  (mark_as_read works on the path, not on the lock.)
TouchesWhatItLocked ==
    [][\A n \in Nodes : (copied'[n] # copied[n] \/ sticky'[n] # sticky[n])
          => owner[n] = Backup \/ shaken]_vars

\* An inode the backup has locked keeps its path, unless another one is moved
\* over it or a directory above it moves: on_rename and on_unlink lock neither
\* what they overwrite nor what is below a directory.  (delayed_rename.)  An
\* inode that has moved before may go too: on_unlink locks what was there before.
LockedStays ==
    [][\A n \in Nodes : path'[n] # path[n] /\ owner[n] = Backup /\ n \in Steady
          => \E m \in Nodes \ {n} :
                /\ path'[m] # path[m]
                /\ path'[m] = path[n] \/ IsStrictPrefix(path[m], path[n])]_vars

\* Transactions that wait for each other's locks.
Deadlocked ==
    \E s \in SUBSET Txns : s # {} /\ \A t \in s :
        pc[t] = "lock" /\ owner[Asked(t)] \in s \ {t}

\* The backup comes to an end, unless the server fell or transactions it waits
\* for are deadlocked.  (The loop of online_bck.)
BackupEnds == <>(at \in {"done", "crashed", "overrun"} \/ Deadlocked)
=============================================================================
