---------------------------- MODULE BackupProofs ----------------------------
(***************************************************************************)
(* Proofs about Backup, for every tree, every set of transactions and      *)
(* calls and every size of the stack.                                      *)
(***************************************************************************)
EXTENDS Backup, FiniteSetTheorems, FunctionTheorems, TLAPS

AtLocks == {"copy", "mark", "list", "release"}

(***************************************************************************)
(* The inductive invariant, in parts.                                      *)
(***************************************************************************)

\* What the backup knows about the current path are inodes of the tree, and
\* only a directory is listed.
Types ==
    /\ owner \in [Nodes -> Txns \cup {Backup, Nowhere}]
    /\ path_buf.ino \in Nodes
    /\ at \in {"lock"} \cup AtLocks => locked \in Nodes
    /\ at = "list" => path_buf.ino \notin Files

\* From the lock to its release the backup owns the inode it locked.
OwnsLocked == at \in AtLocks => owner[locked] = Backup

\* As long as the current path leads where it led, both answers about it and
\* what was opened are one inode.
Steadied ==
    ~shaken =>
      /\ at \in {"stat", "lock"} \cup AtLocks => At(current) = path_buf.ino
      /\ at \in {"lock"} \cup AtLocks => locked = path_buf.ino
      /\ at \in {"mark", "list"} /\ path_buf.ino \notin Files => opened = path_buf.ino

IInv == Types /\ OwnsLocked /\ Steadied /\ FallsOnlyShaken

\* stat() finds an inode of the tree or nothing.
LEMMA StatType == ASSUME NEW where, NEW p PROVE Stat(where, p) \in Nodes \cup {Nowhere}
BY DEF Stat

\* What a stat() that failed leaves in its buffer is the number of some inode.
LEMMA AnswersType == ASSUME NEW p, NEW n \in Answers(p) PROVE
    n \in Nodes /\ (At(p) # Nowhere => n = At(p))
BY StatType DEF Answers, At

\* The invariant holds when the backup begins.
LEMMA InitIInv == Init => IInv
<1> SUFFICES ASSUME Init PROVE IInv
  OBVIOUS
<1>1. path_buf.ino = Root /\ Root \in Nodes /\ at = "pop"
  BY DEF Init, Nodes
<1>2. owner \in [Nodes -> Txns \cup {Backup, Nowhere}]
  BY DEF Init
<1> QED
  BY <1>1, <1>2 DEF IInv, Types, OwnsLocked, Steadied, FallsOnlyShaken, AtLocks

\* What a transaction does leaves the backup's variables and its lock alone,
\* and can only shake the current path.
LEMMA TxnStep ==
    ASSUME NEW t \in Txns, IInv,
           \/ \E c \in Calls : Begin(t, c)
           \/ Lock(t) \/ Abort(t) \/ Commit(t)
    PROVE  /\ UNCHANGED <<walk, sticky>>
           /\ owner' \in [Nodes -> Txns \cup {Backup, Nowhere}]
           /\ \A n \in Nodes : owner[n] = Backup => owner'[n] = Backup
           /\ ~shaken' => ~shaken /\ At(current)' = At(current)
           /\ at # "crashed"
<1> USE DEF walk, IInv, Types
<1>0. t # Backup /\ t # Nowhere /\ Backup # Nowhere
  BY TxnsAssumption
<1>1. CASE \E c \in Calls : Begin(t, c)
  <2> PICK c \in Calls : Begin(t, c)
    BY <1>1
  <2>1. UNCHANGED <<path, sticky, owner, shaken, walk>> /\ at # "crashed"
    BY DEF Begin, tree, Up
  <2> QED
    BY <2>1 DEF At, Stat
<1>2. CASE Lock(t)
  <2>1. UNCHANGED <<path, sticky, shaken, walk>> /\ at # "crashed"
    BY <1>2 DEF Lock, tree, Up
  <2>2. owner' = [owner EXCEPT ![Asked(t)] = t] /\ owner[Asked(t)] \in {Nowhere, t}
    BY <1>2 DEF Lock, Free
  <2>3. owner' \in [Nodes -> Txns \cup {Backup, Nowhere}]
    BY <2>2
  <2>4. \A n \in Nodes : owner[n] = Backup => owner'[n] = Backup
    BY <2>2, <1>0
  <2> QED
    BY <2>1, <2>3, <2>4 DEF At, Stat
<1>3. CASE Abort(t)
  <2>1. UNCHANGED <<path, sticky, shaken, walk>> /\ at # "crashed" /\ Ended(t)
    BY <1>3 DEF Abort, Ended, Up
  <2> QED
    BY <2>1, <1>0 DEF At, Stat, Ended
<1>4. CASE Commit(t)
  <2>1. UNCHANGED <<sticky, walk>> /\ at # "crashed" /\ Ended(t)
    BY <1>4 DEF Commit, Ended, Up
  <2>2. shaken' = (shaken \/ Stat(path', current) # At(current)) /\ current' = current
    BY <1>4, <2>1 DEF Commit
  <2>3. At(current)' = Stat(path', current)
    BY <2>2 DEF At
  <2>4. ~shaken' => ~shaken /\ At(current)' = At(current)
    BY <2>2, <2>3
  <2> QED
    BY <2>1, <2>4, <1>0 DEF Ended
<1> QED
  BY <1>1, <1>2, <1>3, <1>4

\* Every step keeps the invariant.
LEMMA NextIInv == IInv /\ [Next]_vars => IInv'
<1> SUFFICES ASSUME IInv, [Next]_vars PROVE IInv'
  OBVIOUS
<1> USE DEF AtLocks
<1>0. Backup # Nowhere /\ Nowhere \notin Nodes
  BY TxnsAssumption, TreeAssumption
<1>1. CASE UNCHANGED vars
  BY <1>1 DEF vars, tree, txns, walk, IInv, Types, OwnsLocked, Steadied, FallsOnlyShaken, At, Stat
<1>2. ASSUME NEW t \in Txns,
             (\E c \in Calls : Begin(t, c)) \/ Lock(t) \/ Abort(t) \/ Commit(t)
      PROVE  IInv'
  <2>1. /\ UNCHANGED <<at, stack, current, path_buf, locked, opened, copied>>
        /\ owner' \in [Nodes -> Txns \cup {Backup, Nowhere}]
        /\ \A n \in Nodes : owner[n] = Backup => owner'[n] = Backup
        /\ ~shaken' => ~shaken /\ At(current)' = At(current)
        /\ at # "crashed"
    BY <1>2, TxnStep DEF walk
  <2>2. Types'
    BY <2>1 DEF IInv, Types
  <2>3. OwnsLocked'
    BY <2>1 DEF IInv, Types, OwnsLocked
  <2>4. Steadied'
    BY <2>1 DEF IInv, Steadied
  <2>5. FallsOnlyShaken'
    BY <2>1 DEF FallsOnlyShaken
  <2> QED
    BY <2>2, <2>3, <2>4, <2>5 DEF IInv
<1>3. CASE Pop
  <2>1. UNCHANGED <<path, owner, locked, opened>> /\ at = "pop"
    BY <1>3 DEF Pop, tree
  <2>2. CASE At(Last(stack)) = Nowhere
    BY <1>3, <2>1, <2>2 DEF Pop, IInv, Types, OwnsLocked, Steadied, FallsOnlyShaken
  <2>3. CASE At(Last(stack)) # Nowhere
    <3>1. at' = "stat" /\ current' = Last(stack) /\ path_buf'.ino = At(Last(stack))
      BY <1>3, <2>3 DEF Pop
    <3>2. path_buf'.ino \in Nodes /\ At(current)' = path_buf'.ino
      BY <2>1, <2>3, <3>1, StatType DEF At, Stat
    <3> QED
      BY <2>1, <3>1, <3>2 DEF IInv, Types, OwnsLocked, Steadied, FallsOnlyShaken
  <2> QED
    BY <2>2, <2>3
<1>4. CASE StatAgain
  <2>1. UNCHANGED <<path, owner, current, path_buf, opened, shaken>> /\ at = "stat" /\ at' = "lock"
    BY <1>4 DEF StatAgain, tree
  <2>2. At(current)' = At(current)
    BY <2>1 DEF At, Stat
  <2>3. locked' \in Nodes /\ (At(current) # Nowhere => locked' = At(current))
    BY <1>4, AnswersType DEF StatAgain
  <2> QED
    BY <1>0, <2>1, <2>2, <2>3 DEF IInv, Types, OwnsLocked, Steadied, FallsOnlyShaken
<1>5. CASE LockPath
  <2>1. /\ UNCHANGED <<path, current, path_buf, locked, opened, shaken>>
        /\ at = "lock" /\ at' = "copy" /\ owner' = [owner EXCEPT ![locked] = Backup]
    BY <1>5 DEF LockPath, tree
  <2>2. At(current)' = At(current)
    BY <2>1 DEF At, Stat
  <2>3. owner' \in [Nodes -> Txns \cup {Backup, Nowhere}] /\ owner'[locked] = Backup
    BY <2>1 DEF IInv, Types
  <2> QED
    BY <2>1, <2>2, <2>3 DEF IInv, Types, OwnsLocked, Steadied, FallsOnlyShaken
<1>6. CASE Copy
  <2>1. /\ UNCHANGED <<path, owner, current, path_buf, locked, shaken>>
        /\ at = "copy" /\ at' = "mark"
        /\ opened' = IF At(current) \in Dirs \cup {Root} THEN At(current) ELSE Nowhere
    BY <1>6 DEF Copy, tree
  <2>2. At(current)' = At(current)
    BY <2>1 DEF At, Stat
  <2> QED
    BY <2>1, <2>2 DEF IInv, Types, OwnsLocked, Steadied, FallsOnlyShaken, Nodes
<1>7. CASE MarkAsRead
  <2>1. /\ UNCHANGED <<path, owner, current, path_buf, locked, opened, shaken>>
        /\ at = "mark" /\ at' = IF path_buf.ino \in Files THEN "release" ELSE "list"
    BY <1>7 DEF MarkAsRead
  <2>2. At(current)' = At(current)
    BY <2>1 DEF At, Stat
  <2> QED
    BY <2>1, <2>2 DEF IInv, Types, OwnsLocked, Steadied, FallsOnlyShaken
<1>8. CASE List
  <2>1. /\ UNCHANGED <<path, owner, current, path_buf, locked, opened, shaken>>
        /\ at = "list" /\ at' \in {"crashed", "overrun", "release"}
        /\ at' = "crashed" => opened = Nowhere
    BY <1>8 DEF List, tree
  <2>2. At(current)' = At(current)
    BY <2>1 DEF At, Stat
  <2>3. ~shaken => at' # "crashed"
    BY <1>0, <2>1 DEF IInv, Types, Steadied
  <2> QED
    BY <2>1, <2>2, <2>3 DEF IInv, Types, OwnsLocked, Steadied, FallsOnlyShaken
<1>9. CASE Release
  <2>1. /\ UNCHANGED <<path, current, path_buf, locked, opened, shaken>>
        /\ at = "release" /\ at' \in {"pop", "crashed"}
        /\ at' = "crashed" => owner[path_buf.ino] # Backup
        /\ owner' = owner \/ owner' = [owner EXCEPT ![path_buf.ino] = Nowhere]
    BY <1>9 DEF Release, tree
  <2>2. ~shaken => at' # "crashed"
    BY <2>1 DEF IInv, OwnsLocked, Steadied
  <2> QED
    BY <2>1, <2>2 DEF IInv, Types, OwnsLocked, Steadied, FallsOnlyShaken
<1>10. CASE Done
  BY <1>10 DEF Done, tree, IInv, Types, OwnsLocked, Steadied, FallsOnlyShaken
<1> QED
  BY <1>1, <1>2, <1>3, <1>4, <1>5, <1>6, <1>7, <1>8, <1>9, <1>10 DEF Next, BackupStep

\* The invariant holds in every reachable state.
THEOREM Invariance == Spec => []IInv
BY InitIInv, NextIInv, PTL DEF Spec

\* release_locks_by_backup and opendir only fail over a path that has come to
\* lead elsewhere since the backup took it.
THEOREM FallsOnlyOverMoves == Spec => []FallsOnlyShaken
<1>1. IInv => FallsOnlyShaken
  BY DEF IInv
<1> QED
  BY <1>1, Invariance, PTL

\* mark_as_read and the copies only touch the inode the backup has locked,
\* unless the path has come to lead elsewhere.
THEOREM LockCoversWork == Spec => TouchesWhatItLocked
<1> DEFINE Touched(n) == copied'[n] # copied[n] \/ sticky'[n] # sticky[n]
           Covered == \A n \in Nodes : Touched(n) => owner[n] = Backup \/ shaken
<1>1. ASSUME IInv, [Next]_vars PROVE [Covered]_vars
  <2> SUFFICES ASSUME Next, NEW n \in Nodes, Touched(n), ~shaken PROVE owner[n] = Backup
    BY <1>1
  <2>1. CASE Copy
    <3>1. n = At(current) /\ at = "copy"
      BY <2>1 DEF Copy, tree
    <3> QED
      BY <3>1, <1>1 DEF IInv, OwnsLocked, Steadied, AtLocks
  <2>2. CASE MarkAsRead
    <3>1. n = At(current) /\ at = "mark"
      BY <2>2 DEF MarkAsRead
    <3> QED
      BY <3>1, <1>1 DEF IInv, OwnsLocked, Steadied, AtLocks
  <2>3. CASE \E t \in Txns :
               (\E c \in Calls : Begin(t, c)) \/ Lock(t) \/ Abort(t) \/ Commit(t)
    BY <1>1, <2>3, TxnStep DEF walk
  <2>4. CASE Pop \/ StatAgain \/ LockPath \/ List \/ Release \/ Done
    BY <2>4 DEF Pop, StatAgain, LockPath, List, Release, Done, tree
  <2> QED
    BY <2>1, <2>2, <2>3, <2>4 DEF Next, BackupStep
<1> QED
  BY <1>1, Invariance, PTL DEF Spec, TouchesWhatItLocked

(***************************************************************************)
(* The tree.  Its shape survives a rename and an unlink, so that a path    *)
(* leads to one inode at most.                                             *)
(***************************************************************************)

\* A tree: Root has the empty path, two inodes have different ones, and every
\* prefix of a path is that of a directory.
Tree(where) ==
    /\ where \in [Nodes -> Seq(Names) \cup {<<Nowhere>>}]
    /\ where[Root] = <<>>
    /\ \A m, n \in Nodes : where[m] = where[n] => m = n \/ where[m] = <<Nowhere>>
    /\ \A n \in Nodes, k \in Nat : k < Len(where[n]) =>
          \E d \in Dirs \cup {Root} : where[d] = SubSeq(where[n], 1, k)

\* Two sequences with the same elements are one.
LEMMA SameElements ==
    ASSUME NEW S, NEW s \in Seq(S), NEW t \in Seq(S), Len(s) = Len(t),
           \A i \in 1..Len(s) : s[i] = t[i]
    PROVE  s = t
OBVIOUS

\* A prefix, element by element.
LEMMA PrefixAt ==
    ASSUME NEW S, NEW s \in Seq(S), NEW t \in Seq(S)
    PROVE  IsPrefix(s, t) <=> Len(s) <= Len(t) /\ \A i \in 1..Len(s) : s[i] = t[i]
<1>1. Len(s) \in Nat /\ Len(t) \in Nat
  OBVIOUS
<1>2. ASSUME Len(s) <= Len(t)
      PROVE  /\ SubSeq(s, 1, Len(s)) \in Seq(S) /\ SubSeq(t, 1, Len(s)) \in Seq(S)
             /\ Len(SubSeq(s, 1, Len(s))) = Len(s) /\ Len(SubSeq(t, 1, Len(s))) = Len(s)
             /\ \A i \in 1..Len(s) : SubSeq(s, 1, Len(s))[i] = s[i] /\ SubSeq(t, 1, Len(s))[i] = t[i]
  BY <1>1, <1>2
<1>3. ASSUME Len(s) <= Len(t), \A i \in 1..Len(s) : s[i] = t[i] PROVE IsPrefix(s, t)
  <2>1. SubSeq(s, 1, Len(s)) = SubSeq(t, 1, Len(s))
    BY <1>2, <1>3, SameElements
  <2> QED
    BY <1>3, <2>1 DEF IsPrefix
<1>4. ASSUME IsPrefix(s, t), NEW i \in 1..Len(s) PROVE s[i] = t[i]
  <2>1. Len(s) <= Len(t) /\ SubSeq(s, 1, Len(s)) = SubSeq(t, 1, Len(s))
    BY <1>4 DEF IsPrefix
  <2>2. SubSeq(s, 1, Len(s))[i] = s[i] /\ SubSeq(t, 1, Len(s))[i] = t[i]
    BY <1>2, <2>1
  <2> QED
    BY <2>1, <2>2
<1> QED
  BY <1>3, <1>4 DEF IsPrefix

\* The first k elements of a sequence.
LEMMA CutAt ==
    ASSUME NEW S, NEW t \in Seq(S), NEW k \in Nat, k <= Len(t)
    PROVE  /\ SubSeq(t, 1, k) \in Seq(S) /\ Len(SubSeq(t, 1, k)) = k
           /\ \A i \in 1..k : SubSeq(t, 1, k)[i] = t[i]
           /\ IsPrefix(SubSeq(t, 1, k), t)
<1>1. /\ SubSeq(t, 1, k) \in Seq(S) /\ Len(SubSeq(t, 1, k)) = k
      /\ \A i \in 1..k : SubSeq(t, 1, k)[i] = t[i]
  OBVIOUS
<1> QED
  BY <1>1, PrefixAt

\* A sequence with a prefix of it replaced.
LEMMA Replaced ==
    ASSUME NEW S, NEW old \in Seq(S), NEW new \in Seq(S), NEW p \in Seq(S), IsPrefix(old, p)
    PROVE  LET q == new \o SubSeq(p, Len(old) + 1, Len(p)) IN
           /\ q \in Seq(S) /\ Len(q) = Len(new) + Len(p) - Len(old)
           /\ \A i \in 1..Len(new) : q[i] = new[i]
           /\ \A i \in (Len(new) + 1)..Len(q) : q[i] = p[i - Len(new) + Len(old)]
           /\ IsPrefix(new, q)
<1> DEFINE rest == SubSeq(p, Len(old) + 1, Len(p))
           q == new \o rest
<1>1. Len(old) \in Nat /\ Len(new) \in Nat /\ Len(p) \in Nat /\ Len(old) <= Len(p)
  BY DEF IsPrefix
<1>2. /\ rest \in Seq(S) /\ Len(rest) = Len(p) - Len(old)
      /\ \A i \in 1..Len(rest) : rest[i] = p[i + Len(old)]
  BY <1>1
<1>3. /\ q \in Seq(S) /\ Len(q) = Len(new) + Len(rest)
      /\ \A i \in 1..Len(new) : q[i] = new[i]
      /\ \A i \in (Len(new) + 1)..Len(q) : q[i] = rest[i - Len(new)]
  BY <1>1, <1>2
<1>4. \A i \in (Len(new) + 1)..Len(q) : q[i] = p[i - Len(new) + Len(old)]
  BY <1>1, <1>2, <1>3
<1>5. IsPrefix(new, q)
  <2>1. q \in Seq(S) /\ Len(new) <= Len(q) /\ \A i \in 1..Len(new) : new[i] = q[i]
    BY <1>1, <1>2, <1>3
  <2> HIDE DEF q
  <2> QED
    BY <2>1, PrefixAt
<1> QED
  BY <1>1, <1>2, <1>3, <1>4, <1>5

\* A prefix of a prefix is one.
LEMMA PrefixTransitive ==
    ASSUME NEW S, NEW s \in Seq(S), NEW t \in Seq(S), NEW u \in Seq(S),
           IsPrefix(s, t), IsPrefix(t, u)
    PROVE  IsPrefix(s, u)
<1>1. Len(s) \in Nat /\ Len(t) \in Nat /\ Len(u) \in Nat
  OBVIOUS
<1>2. /\ Len(s) <= Len(t) /\ \A i \in 1..Len(s) : s[i] = t[i]
      /\ Len(t) <= Len(u) /\ \A i \in 1..Len(t) : t[i] = u[i]
  BY PrefixAt
<1> QED
  BY <1>1, <1>2, PrefixAt

\* stat() in a tree finds the one inode of a path.
LEMMA StatAt ==
    ASSUME NEW where, NEW p, Tree(where), p # <<Nowhere>>
    PROVE  /\ \A n \in Nodes : where[n] = p => Stat(where, p) = n
           /\ Stat(where, p) # Nowhere => Stat(where, p) \in Nodes /\ where[Stat(where, p)] = p
<1>1. ASSUME NEW n \in Nodes, where[n] = p PROVE Stat(where, p) = n
  <2>1. Stat(where, p) \in Nodes /\ where[Stat(where, p)] = p
    BY <1>1 DEF Stat
  <2> QED
    BY <1>1, <2>1 DEF Tree
<1> QED
  BY <1>1 DEF Stat

\* Root is the inode of the empty path.
LEMMA RootFirst == Root \in Nodes /\ Nowhere \notin Nodes /\ Nowhere \notin Names
BY TreeAssumption DEF Nodes

\* A path of a tree is a sequence, and only an unlinked inode has one that
\* does not consist of names.
LEMMA PathTyped ==
    ASSUME Tree(path), NEW n \in Nodes
    PROVE  /\ path[n] \in Seq(Names \cup {Nowhere})
           /\ path[n] \in Seq(Names) \/ path[n] = <<Nowhere>>
           /\ path[n] \in Seq(Names) => path[n] # <<Nowhere>>
           /\ Len(path[n]) \in Nat
<1>1. path[n] \in Seq(Names) \/ path[n] = <<Nowhere>>
  BY DEF Tree
<1>2. ASSUME path[n] \in Seq(Names)
      PROVE  path[n] \in Seq(Names \cup {Nowhere}) /\ path[n] # <<Nowhere>>
  <2>1. path[n] \in Seq(Names \cup {Nowhere})
    BY <1>2
  <2>2. Len(path[n]) = 1 => path[n][1] \in Names
    BY <1>2
  <2>3. path[n] # <<Nowhere>>
    BY <2>2, RootFirst
  <2> QED
    BY <2>1, <2>3
<1>3. <<Nowhere>> \in Seq(Names \cup {Nowhere})
  OBVIOUS
<1>4. path[n] \in Seq(Names \cup {Nowhere})
  BY <1>1, <1>2, <1>3
<1> QED
  BY <1>1, <1>2, <1>4

\* What is below a path of names has a path of names.
LEMMA BelowNamed ==
    ASSUME Tree(path), NEW n \in Nodes, NEW p \in Seq(Names), IsPrefix(p, path[n]), p # <<>>
    PROVE  path[n] \in Seq(Names)
<1> SUFFICES ASSUME path[n] = <<Nowhere>> PROVE FALSE
  BY PathTyped
<1>1. Len(p) \in Nat /\ Len(p) >= 1
  OBVIOUS
<1>2. p \in Seq(Names \cup {Nowhere}) /\ p[1] \in Names
  BY <1>1
<1>3. p[1] = path[n][1]
  BY <1>1, <1>2, PathTyped, PrefixAt
<1> QED
  BY <1>2, <1>3, RootFirst

\* Names are also a name or Nowhere.
LEMMA Wider == ASSUME NEW p \in Seq(Names) PROVE p \in Seq(Names \cup {Nowhere}) /\ Len(p) \in Nat
OBVIOUS

\* A rename that is done moves an inode other than Root to where nothing is but
\* possibly an inode without children.  Nothing else has the new path as a prefix.
LEMMA TargetEmpty ==
    ASSUME Tree(path), NEW new \in Seq(Names), new # <<>>,
           At(new) # Nowhere => At(new) # Root /\ Children(At(new)) = {},
           NEW n \in Nodes, n # At(new)
    PROVE  ~IsPrefix(new, path[n])
<1> SUFFICES ASSUME IsPrefix(new, path[n]) PROVE FALSE
  OBVIOUS
<1> DEFINE S == Names \cup {Nowhere}
<1>1. path[n] \in Seq(Names) /\ path[n] \in Seq(S) /\ new \in Seq(S)
      /\ Len(path[n]) \in Nat /\ Len(new) \in Nat
  BY BelowNamed, Wider
<1>2. new # <<Nowhere>>
  <2>1. Len(new) = 1 => new[1] \in Names
    OBVIOUS
  <2> QED
    BY <2>1, RootFirst
<1>3. path[n] # new
  BY <1>2, StatAt DEF At
<1>4. Len(new) <= Len(path[n]) /\ \A i \in 1..Len(new) : new[i] = path[n][i]
  <2> HIDE DEF S
  <2> QED
    BY <1>1, PrefixAt
<1>5. Len(new) < Len(path[n])
  <2> HIDE DEF S
  <2>1. Len(new) = Len(path[n]) => new = path[n]
    BY <1>1, <1>4, SameElements
  <2> QED
    BY <1>1, <1>3, <1>4, <2>1
<1>6. SubSeq(path[n], 1, Len(new)) = new
  BY <1>1, <1>4, <1>5
<1>7. PICK r \in Dirs \cup {Root} : path[r] = new
  BY <1>1, <1>5, <1>6 DEF Tree
<1>8. At(new) = r /\ r # Nowhere
  BY <1>2, <1>7, StatAt, RootFirst DEF At, Nodes
<1>9. PICK c \in Nodes : path[c] = SubSeq(path[n], 1, Len(new) + 1)
  <2>1. CASE Len(new) + 1 = Len(path[n])
    <3>1. path[n] = SubSeq(path[n], 1, Len(new) + 1)
      BY <1>1, <2>1
    <3> QED
      BY <3>1
  <2>2. CASE Len(new) + 1 < Len(path[n])
    BY <1>1, <2>2 DEF Tree, Nodes
  <2> QED
    BY <1>1, <1>5, <2>1, <2>2
<1>10. /\ path[c] \in Seq(Names) /\ Len(path[c]) = Len(new) + 1
       /\ \A i \in 1..(Len(new) + 1) : path[c][i] = path[n][i]
  BY <1>1, <1>5, <1>9
<1>11. Front(path[c]) = new
  <2>1. /\ Front(path[c]) \in Seq(Names) /\ Len(Front(path[c])) = Len(new)
        /\ \A i \in 1..Len(new) : Front(path[c])[i] = path[c][i]
    BY <1>1, <1>10 DEF Front
  <2> QED
    BY <1>1, <1>4, <1>10, <2>1, SameElements
<1>12. c # Root
  BY <1>1, <1>10 DEF Tree
<1>13. path[c] # <<Nowhere>>
  BY <1>10, PathTyped
<1>14. c \in Children(r)
  BY <1>7, <1>11, <1>12, <1>13 DEF Children
<1> QED
  BY <1>8, <1>14

\* Nowhere is no name.
LEMMA NamesOnly == ASSUME NEW p \in Seq(Names) PROVE p # <<Nowhere>>
<1>1. Len(p) = 1 => p[1] \in Names
  OBVIOUS
<1>2. Len(<<Nowhere>>) = 1 /\ <<Nowhere>>[1] = Nowhere
  OBVIOUS
<1> QED
  BY <1>1, <1>2, RootFirst

\* rename(old, new) is done.
Renames(old, new) == Renamed(old, new) # path

\* What a rename that is done has found, and what it leaves.
LEMMA RenameDone ==
    ASSUME Tree(path), NEW old \in Seq(Names), NEW new \in Seq(Names), Renames(old, new)
    PROVE  LET o == At(old)
               r == At(new)
               q == At(Front(new)) IN
           /\ o \in Nodes /\ path[o] = old /\ old # <<>> /\ o # r
           /\ new # <<>> /\ r # Root
           /\ r # Nowhere => r \in Nodes /\ path[r] = new
           /\ q \in Dirs \cup {Root} /\ path[q] = Front(new)
           /\ ~IsPrefix(old, new)
           /\ \A n \in Nodes : n # r => ~IsPrefix(new, path[n])
           /\ \A n \in Nodes :
                Renamed(old, new)[n] =
                  IF n = r THEN <<Nowhere>>
                  ELSE IF IsPrefix(old, path[n])
                       THEN new \o SubSeq(path[n], Len(old) + 1, Len(path[n]))
                  ELSE path[n]
           /\ \A n \in Nodes : IsPrefix(old, path[n]) => path[n] \in Seq(Names)
<1> DEFINE o == At(old)
           r == At(new)
           q == At(Front(new))
<1>1. /\ o # Nowhere /\ r # o /\ q \in Dirs \cup {Root} /\ ~IsPrefix(old, new)
      /\ r # Nowhere => r # Root /\ Children(r) = {}
  BY DEF Renames, Renamed
<1>2. \A n \in Nodes :
        Renamed(old, new)[n] =
          IF n = r THEN <<Nowhere>>
          ELSE IF IsPrefix(old, path[n])
               THEN new \o SubSeq(path[n], Len(old) + 1, Len(path[n]))
          ELSE path[n]
  BY DEF Renames, Renamed
<1>3. ASSUME NEW p \in Seq(Names) PROVE p # <<Nowhere>>
  BY NamesOnly
<1>4. o \in Nodes /\ path[o] = old
  BY <1>1, <1>3, StatAt DEF At
<1>5. r # Nowhere => r \in Nodes /\ path[r] = new
  BY <1>3, StatAt DEF At
<1>6. Front(new) \in Seq(Names)
  BY DEF Front
<1>7. path[q] = Front(new)
  BY <1>1, <1>3, <1>6, StatAt, RootFirst DEF At, Nodes
<1>8. old # <<>>
  <2>1. IsPrefix(<<>>, new)
    <3>1. <<>> \in Seq(Names) /\ Len(<<>>) = 0 /\ Len(new) \in Nat
      OBVIOUS
    <3>2. Len(<<>>) <= Len(new) /\ \A i \in 1..Len(<<>>) : <<>>[i] = new[i]
      BY <3>1
    <3> QED
      BY <3>1, <3>2, PrefixAt
  <2> QED
    BY <1>1, <2>1
<1>9. new # <<>>
  <2> SUFFICES ASSUME new = <<>> PROVE FALSE
    OBVIOUS
  <2>1. r = Root
    BY <1>3, RootFirst, StatAt DEF At, Tree
  <2> QED
    BY <1>1, <2>1, RootFirst
<1>10. r # Root
  BY <1>1, RootFirst
<1>11. \A n \in Nodes : n # r => ~IsPrefix(new, path[n])
  <2> HIDE DEF q, o
  <2>1. At(new) # Nowhere => At(new) # Root /\ Children(At(new)) = {}
    BY <1>1
  <2> QED
    BY <1>9, <2>1, TargetEmpty
<1>12. \A n \in Nodes : IsPrefix(old, path[n]) => path[n] \in Seq(Names)
  BY <1>8, BelowNamed
<1> HIDE DEF o, r, q
<1>13. /\ o \in Nodes /\ path[o] = old /\ old # <<>> /\ o # r
       /\ new # <<>> /\ r # Root
       /\ r # Nowhere => r \in Nodes /\ path[r] = new
       /\ q \in Dirs \cup {Root} /\ path[q] = Front(new)
       /\ ~IsPrefix(old, new)
  BY <1>1, <1>4, <1>5, <1>7, <1>8, <1>9, <1>10
<1> USE DEF o, r, q
<1> QED
  BY <1>2, <1>11, <1>12, <1>13, Zenon

\* What a rename leaves, inode by inode.
LEMMA RenamedAt ==
    ASSUME Tree(path), NEW old \in Seq(Names), NEW new \in Seq(Names), Renames(old, new),
           NEW n \in Nodes
    PROVE  /\ n = At(new) => Renamed(old, new)[n] = <<Nowhere>>
           /\ n # At(new) => ~IsPrefix(new, path[n])
           /\ n # At(new) /\ ~IsPrefix(old, path[n]) => Renamed(old, new)[n] = path[n]
<1>1. Renamed(old, new)[n] =
        IF n = At(new) THEN <<Nowhere>>
        ELSE IF IsPrefix(old, path[n])
             THEN new \o SubSeq(path[n], Len(old) + 1, Len(path[n]))
        ELSE path[n]
  BY DEF Renames, Renamed
<1>2. ASSUME n # At(new) PROVE ~IsPrefix(new, path[n])
  BY <1>2, RenameDone, Zenon
<1> QED
  BY <1>1, <1>2

\* A path without its last name.
LEMMA FrontAt ==
    ASSUME NEW S, NEW p \in Seq(S), p # <<>>
    PROVE  /\ Front(p) \in Seq(S) /\ Len(Front(p)) = Len(p) - 1
           /\ \A i \in 1..(Len(p) - 1) : Front(p)[i] = p[i]
           /\ Len(p) \in Nat /\ Len(p) >= 1
<1>1. Len(p) \in Nat /\ Len(p) >= 1
  OBVIOUS
<1>2. PICK k \in Nat : k = Len(p) - 1
  BY <1>1
<1>3. Front(p) = SubSeq(p, 1, k)
  BY <1>2 DEF Front
<1> QED
  BY <1>1, <1>2, <1>3, CutAt

\* Where the inodes of a moved directory are: the new path in front of the rest.
LEMMA MovedTo ==
    ASSUME Tree(path), NEW old \in Seq(Names), NEW new \in Seq(Names), Renames(old, new),
           NEW n \in Nodes, n # At(new), IsPrefix(old, path[n])
    PROVE  LET p == Renamed(old, new)[n] IN
           /\ p \in Seq(Names) /\ Len(p) = Len(new) + Len(path[n]) - Len(old)
           /\ \A i \in 1..Len(new) : p[i] = new[i]
           /\ \A i \in (Len(new) + 1)..Len(p) : p[i] = path[n][i - Len(new) + Len(old)]
           /\ IsPrefix(new, p) /\ p # path[n] /\ p # <<Nowhere>>
           /\ path[n] \in Seq(Names)
<1> DEFINE p == Renamed(old, new)[n]
<1>1. /\ path[n] \in Seq(Names) /\ ~IsPrefix(new, path[n])
      /\ p = new \o SubSeq(path[n], Len(old) + 1, Len(path[n]))
  BY RenameDone, Zenon
<1>2. /\ p \in Seq(Names) /\ Len(p) = Len(new) + Len(path[n]) - Len(old)
      /\ \A i \in 1..Len(new) : p[i] = new[i]
      /\ \A i \in (Len(new) + 1)..Len(p) : p[i] = path[n][i - Len(new) + Len(old)]
      /\ IsPrefix(new, p)
  <2> DEFINE q == new \o SubSeq(path[n], Len(old) + 1, Len(path[n]))
  <2>1. /\ q \in Seq(Names) /\ Len(q) = Len(new) + Len(path[n]) - Len(old)
        /\ \A i \in 1..Len(new) : q[i] = new[i]
        /\ \A i \in (Len(new) + 1)..Len(q) : q[i] = path[n][i - Len(new) + Len(old)]
        /\ IsPrefix(new, q)
    BY <1>1, Replaced, Zenon
  <2>2. p = q
    BY <1>1
  <2> HIDE DEF p, q
  <2> QED
    BY <2>1, <2>2
<1>3. p # <<Nowhere>>
  BY <1>2, NamesOnly
<1>4. p # path[n]
  BY <1>1, <1>2
<1> HIDE DEF p
<1>5. /\ p \in Seq(Names) /\ Len(p) = Len(new) + Len(path[n]) - Len(old)
      /\ \A i \in 1..Len(new) : p[i] = new[i]
      /\ \A i \in (Len(new) + 1)..Len(p) : p[i] = path[n][i - Len(new) + Len(old)]
      /\ IsPrefix(new, p) /\ p # path[n] /\ p # <<Nowhere>>
      /\ path[n] \in Seq(Names)
  BY <1>1, <1>2, <1>3, <1>4
<1> QED
  BY <1>5 DEF p

\* Every prefix of the new path is that of a directory that a rename leaves
\* where it is.
LEMMA NewParents ==
    ASSUME Tree(path), NEW old \in Seq(Names), NEW new \in Seq(Names), Renames(old, new),
           NEW k \in Nat, k < Len(new)
    PROVE  \E d \in Dirs \cup {Root} :
              path[d] = SubSeq(new, 1, k) /\ Renamed(old, new)[d] = path[d]
<1> DEFINE q == At(Front(new))
           r == At(new)
<1>1. /\ q \in Dirs \cup {Root} /\ path[q] = Front(new) /\ new # <<>> /\ ~IsPrefix(old, new)
      /\ r # Nowhere => r \in Nodes /\ path[r] = new
  BY RenameDone, Zenon
<1>2. Len(new) \in Nat /\ Len(new) >= 1
  BY <1>1
<1>3. /\ Front(new) \in Seq(Names) /\ Len(Front(new)) = Len(new) - 1
      /\ \A i \in 1..(Len(new) - 1) : Front(new)[i] = new[i]
  BY <1>1, FrontAt
<1>4. /\ SubSeq(new, 1, k) \in Seq(Names) /\ Len(SubSeq(new, 1, k)) = k
      /\ IsPrefix(SubSeq(new, 1, k), new)
  BY <1>2, CutAt
<1> HIDE DEF q
<1>5. PICK d \in Dirs \cup {Root} : path[d] = SubSeq(new, 1, k)
  <2>1. CASE k = Len(new) - 1
    BY <1>1, <2>1 DEF Front
  <2>2. CASE k < Len(new) - 1
    <3>1. PICK d \in Dirs \cup {Root} : path[d] = SubSeq(path[q], 1, k)
      BY <1>1, <1>2, <1>3, <2>2 DEF Tree, Nodes
    <3>2. SubSeq(Front(new), 1, k) = SubSeq(new, 1, k)
      <4>1. /\ SubSeq(Front(new), 1, k) \in Seq(Names) /\ Len(SubSeq(Front(new), 1, k)) = k
            /\ \A i \in 1..k : SubSeq(Front(new), 1, k)[i] = Front(new)[i]
        BY <1>2, <1>3, <2>2, CutAt
      <4>2. \A i \in 1..k : SubSeq(new, 1, k)[i] = new[i]
        BY <1>2, CutAt
      <4> QED
        BY <1>2, <1>3, <1>4, <2>2, <4>1, <4>2, SameElements
    <3> QED
      BY <1>1, <3>1, <3>2
  <2> QED
    BY <1>2, <2>1, <2>2
<1>6. d \in Nodes
  BY DEF Nodes
<1>7. d # r
  <2>1. Len(path[d]) = k
    BY <1>4, <1>5
  <2> HIDE DEF r
  <2> QED
    BY <1>1, <1>2, <1>6, <2>1, RootFirst
<1>8. ~IsPrefix(old, path[d])
  BY <1>1, <1>4, <1>5, PrefixTransitive
<1>9. Renamed(old, new)[d] = path[d]
  BY <1>6, <1>7, <1>8, RenamedAt
<1> QED
  BY <1>5, <1>9

\* What a rename moves has another path than what it leaves.
LEMMA MovedApart ==
    ASSUME Tree(path), NEW old \in Seq(Names), NEW new \in Seq(Names), Renames(old, new),
           NEW m \in Nodes, NEW n \in Nodes, m # At(new), n # At(new),
           IsPrefix(old, path[m]), ~IsPrefix(old, path[n])
    PROVE  Renamed(old, new)[m] # Renamed(old, new)[n]
<1>1. Renamed(old, new)[n] = path[n] /\ ~IsPrefix(new, path[n])
  BY RenamedAt
<1>2. IsPrefix(new, Renamed(old, new)[m])
  BY MovedTo, Zenon
<1> QED
  BY <1>1, <1>2

\* rename keeps the paths of different inodes different.
LEMMA RenameInjective ==
    ASSUME Tree(path), NEW old \in Seq(Names), NEW new \in Seq(Names), Renames(old, new),
           NEW m \in Nodes, NEW n \in Nodes,
           Renamed(old, new)[m] = Renamed(old, new)[n], Renamed(old, new)[m] # <<Nowhere>>
    PROVE  m = n
<1>1. m # At(new) /\ n # At(new)
  BY RenamedAt
<1>2. IsPrefix(old, path[m]) <=> IsPrefix(old, path[n])
  BY <1>1, MovedApart
<1>3. CASE ~IsPrefix(old, path[m])
  <2>1. Renamed(old, new)[m] = path[m] /\ Renamed(old, new)[n] = path[n]
    BY <1>1, <1>2, <1>3, RenamedAt
  <2> QED
    BY <2>1 DEF Tree
<1>4. CASE IsPrefix(old, path[m])
  <2> DEFINE p == Renamed(old, new)[m]
  <2>1. /\ p \in Seq(Names) /\ Len(p) = Len(new) + Len(path[m]) - Len(old)
        /\ \A i \in (Len(new) + 1)..Len(p) : p[i] = path[m][i - Len(new) + Len(old)]
        /\ path[m] \in Seq(Names)
    BY <1>1, <1>4, MovedTo, Zenon
  <2>2. /\ Len(p) = Len(new) + Len(path[n]) - Len(old)
        /\ \A i \in (Len(new) + 1)..Len(p) : p[i] = path[n][i - Len(new) + Len(old)]
        /\ path[n] \in Seq(Names)
    <3> DEFINE q == Renamed(old, new)[n]
    <3>1. /\ Len(q) = Len(new) + Len(path[n]) - Len(old)
          /\ \A i \in (Len(new) + 1)..Len(q) : q[i] = path[n][i - Len(new) + Len(old)]
          /\ path[n] \in Seq(Names)
      BY <1>1, <1>2, <1>4, MovedTo, Zenon
    <3>2. p = q
      OBVIOUS
    <3> HIDE DEF p, q
    <3> QED
      BY <3>1, <3>2
  <2> HIDE DEF p
  <2>3. PICK a \in Nat, b \in Nat, c \in Nat :
          a = Len(new) /\ b = Len(old) /\ c = Len(path[m])
    BY <2>1
  <2>4. Len(path[n]) = c /\ b <= c
    <3>1. b <= c
      BY <1>4, <2>3 DEF IsPrefix
    <3>2. Len(path[n]) \in Nat
      BY <2>2
    <3> QED
      BY <2>1, <2>2, <2>3, <3>1, <3>2
  <2>5. ASSUME NEW i \in 1..c, i <= b PROVE path[m][i] = path[n][i]
    <3>1. path[m][i] = old[i] /\ path[n][i] = old[i]
      BY <1>2, <1>4, <2>1, <2>2, <2>3, <2>5, PrefixAt
    <3> QED
      BY <3>1
  <2>6. ASSUME NEW i \in 1..c, i > b PROVE path[m][i] = path[n][i]
    <3>1. i - b + a \in (a + 1)..(a + c - b) /\ (i - b + a) - a + b = i
      BY <2>6
    <3>2. p[i - b + a] = path[m][i] /\ p[i - b + a] = path[n][i]
      BY <2>1, <2>2, <2>3, <3>1
    <3> QED
      BY <3>2
  <2>7. path[m] = path[n]
    <3>1. \A i \in 1..c : path[m][i] = path[n][i]
      BY <2>3, <2>5, <2>6
    <3> QED
      BY <2>1, <2>2, <2>3, <2>4, <3>1, SameElements
  <2> QED
    BY <2>1, <2>7, PathTyped DEF Tree
<1> QED
  BY <1>3, <1>4

\* rename keeps a directory over everything.
LEMMA RenameParents ==
    ASSUME Tree(path), NEW old \in Seq(Names), NEW new \in Seq(Names), Renames(old, new),
           NEW n \in Nodes, NEW k \in Nat, k < Len(Renamed(old, new)[n])
    PROVE  \E d \in Dirs \cup {Root} :
              Renamed(old, new)[d] = SubSeq(Renamed(old, new)[n], 1, k)
<1> DEFINE W == Renamed(old, new)
           r == At(new)
           S == Names \cup {Nowhere}
<1>1. /\ old \in Seq(S) /\ new \in Seq(S) /\ Len(old) \in Nat /\ Len(new) \in Nat
      /\ path[n] \in Seq(S) /\ Len(path[n]) \in Nat
  BY PathTyped, Wider
<1>2. /\ path[Root] = <<>> /\ Root # r /\ ~IsPrefix(old, new) /\ old # <<>> /\ new # <<>>
      /\ r # Nowhere => r \in Nodes /\ path[r] = new
  BY RenameDone, Zenon DEF Tree
<1>3. CASE n = r
  <2>1. W[n] = <<Nowhere>>
    BY <1>3, RenamedAt
  <2>2. k = 0
    BY <2>1
  <2>3. SubSeq(<<Nowhere>>, 1, 0) = <<>>
    OBVIOUS
  <2>4. ~IsPrefix(old, <<>>)
    <3>1. Len(old) # 0
      BY <1>2
    <3> QED
      BY <1>1, <3>1 DEF IsPrefix
  <2>5. W[Root] = <<>>
    BY <1>2, <2>4, RootFirst, RenamedAt
  <2> QED
    BY <2>1, <2>2, <2>3, <2>5
<1>4. CASE n # r /\ ~IsPrefix(old, path[n])
  <2>1. W[n] = path[n] /\ ~IsPrefix(new, path[n])
    BY <1>4, RenamedAt
  <2>2. PICK d \in Dirs \cup {Root} : path[d] = SubSeq(path[n], 1, k)
    BY <2>1 DEF Tree
  <2>3. d \in Nodes
    BY DEF Nodes
  <2>4. path[d] \in Seq(S) /\ IsPrefix(path[d], path[n])
    BY <1>1, <2>1, <2>2, CutAt
  <2>5. d # r
    BY <1>2, <2>1, <2>3, <2>4, RootFirst
  <2>6. ~IsPrefix(old, path[d])
    <3> HIDE DEF S
    <3> QED
      BY <1>1, <1>4, <2>4, PrefixTransitive
  <2>7. W[d] = path[d]
    BY <2>3, <2>5, <2>6, RenamedAt
  <2> QED
    BY <2>1, <2>2, <2>7
<1>5. CASE n # r /\ IsPrefix(old, path[n])
  <2>1. PICK a \in Nat, b \in Nat, c \in Nat :
          a = Len(new) /\ b = Len(old) /\ c = Len(path[n])
    BY <1>1
  <2>2. /\ W[n] \in Seq(Names) /\ Len(W[n]) = a + c - b
        /\ \A i \in 1..a : W[n][i] = new[i]
        /\ \A i \in (a + 1)..(a + c - b) : W[n][i] = path[n][i - a + b]
        /\ IsPrefix(new, W[n]) /\ path[n] \in Seq(Names)
    <3> DEFINE p == Renamed(old, new)[n]
    <3>1. /\ p \in Seq(Names) /\ Len(p) = Len(new) + Len(path[n]) - Len(old)
          /\ \A i \in 1..Len(new) : p[i] = new[i]
          /\ \A i \in (Len(new) + 1)..Len(p) : p[i] = path[n][i - Len(new) + Len(old)]
          /\ IsPrefix(new, p) /\ path[n] \in Seq(Names)
      BY <1>5, MovedTo, Zenon
    <3> HIDE DEF p
    <3>2. /\ p \in Seq(Names) /\ Len(p) = a + c - b
          /\ \A i \in 1..a : p[i] = new[i]
          /\ \A i \in (a + 1)..(a + c - b) : p[i] = path[n][i - a + b]
          /\ IsPrefix(new, p) /\ path[n] \in Seq(Names)
      BY <2>1, <3>1
    <3> USE DEF p
    <3> QED
      BY <3>2
  <2>6. k <= Len(W[n])
    BY <2>2
  <2>3. b <= c /\ \A i \in 1..b : old[i] = path[n][i]
    <3> HIDE DEF S
    <3> QED
      BY <1>1, <1>5, <2>1, PrefixAt
  <2>4. CASE k < a
    <3>1. PICK d \in Dirs \cup {Root} : path[d] = SubSeq(new, 1, k) /\ W[d] = path[d]
      BY <2>1, <2>4, NewParents
    <3>2. SubSeq(new, 1, k) = SubSeq(W[n], 1, k)
      <4> HIDE DEF W
      <4>1. /\ SubSeq(new, 1, k) \in Seq(Names) /\ Len(SubSeq(new, 1, k)) = k
            /\ \A i \in 1..k : SubSeq(new, 1, k)[i] = new[i]
        BY <2>1, <2>4, CutAt
      <4>2. /\ SubSeq(W[n], 1, k) \in Seq(Names) /\ Len(SubSeq(W[n], 1, k)) = k
            /\ \A i \in 1..k : SubSeq(W[n], 1, k)[i] = W[n][i]
        BY <2>2, <2>3, <2>4, CutAt
      <4>3. \A i \in 1..k : new[i] = W[n][i]
        BY <2>2, <2>4
      <4> QED
        BY <4>1, <4>2, <4>3, SameElements
    <3> QED
      BY <3>1, <3>2
  <2>5. CASE k >= a
    <3>1. PICK j \in Nat : j = k - a + b /\ j >= b /\ j < c
      <4>1. k < a + c - b
        BY <2>2
      <4> QED
        BY <2>5, <4>1
    <3>2. PICK d \in Dirs \cup {Root} : path[d] = SubSeq(path[n], 1, j)
      BY <2>1, <3>1 DEF Tree
    <3>3. d \in Nodes
      BY DEF Nodes
    <3>4. /\ path[d] \in Seq(Names) /\ Len(path[d]) = j
          /\ \A i \in 1..j : path[d][i] = path[n][i]
      BY <2>1, <2>2, <3>1, <3>2, CutAt
    <3>5. IsPrefix(old, path[d])
      <4>1. Len(old) <= Len(path[d]) /\ \A i \in 1..Len(old) : old[i] = path[d][i]
        BY <2>1, <2>3, <3>1, <3>4
      <4> QED
        BY <3>4, <4>1, PrefixAt
    <3>6. d # r
      BY <1>2, <3>3, <3>5, RootFirst
    <3> DEFINE q == Renamed(old, new)[d]
    <3>7. /\ q \in Seq(Names) /\ Len(q) = Len(new) + Len(path[d]) - Len(old)
          /\ \A i \in 1..Len(new) : q[i] = new[i]
          /\ \A i \in (Len(new) + 1)..Len(q) : q[i] = path[d][i - Len(new) + Len(old)]
      BY <3>3, <3>5, <3>6, MovedTo, Zenon
    <3>8. q = SubSeq(W[n], 1, k)
      <4> HIDE DEF q, W
      <4>1. /\ SubSeq(W[n], 1, k) \in Seq(Names) /\ Len(SubSeq(W[n], 1, k)) = k
            /\ \A i \in 1..k : SubSeq(W[n], 1, k)[i] = W[n][i]
        BY <2>2, <2>6, CutAt
      <4>2. Len(q) = k
        BY <2>1, <3>1, <3>4, <3>7
      <4>3. ASSUME NEW i \in 1..k PROVE q[i] = W[n][i]
        <5>1. CASE i <= a
          BY <2>1, <2>2, <3>7, <5>1
        <5>2. CASE i > a
          <6>1. i - a + b \in 1..j /\ i \in (a + 1)..(a + c - b)
            BY <3>1, <5>2
          <6>2. q[i] = path[d][i - a + b]
            BY <2>1, <3>7, <4>2, <5>2
          <6>3. W[n][i] = path[n][i - a + b]
            BY <2>2, <6>1
          <6> QED
            BY <3>4, <6>1, <6>2, <6>3
        <5> QED
          BY <2>1, <5>1, <5>2
      <4> QED
        BY <3>7, <4>1, <4>2, <4>3, SameElements
    <3> QED
      BY <3>8
  <2> QED
    BY <2>1, <2>4, <2>5
<1> QED
  BY <1>3, <1>4, <1>5

\* What rename of the host leaves is a tree.
LEMMA RenameTree ==
    ASSUME Tree(path), NEW old \in Seq(Names), NEW new \in Seq(Names)
    PROVE  Tree(Renamed(old, new))
<1>1. CASE Renamed(old, new) = path
  BY <1>1
<1>2. CASE Renames(old, new)
  <2> DEFINE W == Renamed(old, new)
  <2>1. W \in [Nodes -> Seq(Names) \cup {<<Nowhere>>}]
    <3>1. ASSUME NEW n \in Nodes PROVE W[n] \in Seq(Names) \cup {<<Nowhere>>}
      <4>1. CASE n = At(new)
        BY <4>1, <1>2, RenamedAt
      <4>2. CASE n # At(new) /\ ~IsPrefix(old, path[n])
        <5>1. W[n] = path[n]
          BY <4>2, <1>2, RenamedAt
        <5> QED
          BY <5>1 DEF Tree
      <4>3. CASE n # At(new) /\ IsPrefix(old, path[n])
        BY <4>3, <1>2, MovedTo, Zenon
      <4> QED
        BY <4>1, <4>2, <4>3
    <3>2. W = [n \in Nodes |-> W[n]]
      BY <1>2 DEF Renames, Renamed
    <3> HIDE DEF W
    <3> QED
      BY <3>1, <3>2
  <2>2. W[Root] = <<>>
    <3>1. path[Root] = <<>> /\ Root # At(new) /\ old # <<>>
      BY <1>2, RenameDone, Zenon DEF Tree
    <3>2. ~IsPrefix(old, path[Root])
      <4>1. Len(old) \in Nat /\ Len(old) # 0 /\ Len(<<>>) = 0
        BY <3>1
      <4> QED
        BY <3>1, <4>1 DEF IsPrefix
    <3> QED
      BY <1>2, <3>1, <3>2, RootFirst, RenamedAt
  <2>3. \A m, n \in Nodes : W[m] = W[n] => m = n \/ W[m] = <<Nowhere>>
    BY <1>2, RenameInjective
  <2>4. \A n \in Nodes, k \in Nat : k < Len(W[n]) =>
           \E d \in Dirs \cup {Root} : W[d] = SubSeq(W[n], 1, k)
    BY <1>2, RenameParents
  <2> HIDE DEF W
  <2>5. Tree(W)
    BY <2>1, <2>2, <2>3, <2>4 DEF Tree
  <2> QED
    BY <2>5 DEF W
<1> QED
  BY <1>1, <1>2 DEF Renames

\* What unlink of the host leaves, inode by inode: only a file goes.
LEMMA UnlinkedAt ==
    ASSUME Tree(path), NEW old \in Seq(Names), NEW n \in Nodes
    PROVE  /\ Unlinked(old)[n] # path[n] =>
                n \in Files /\ path[n] = old /\ Unlinked(old)[n] = <<Nowhere>>
           /\ DOMAIN Unlinked(old) = Nodes
<1>1. DOMAIN path = Nodes
  BY DEF Tree
<1>2. CASE At(old) \notin Files
  BY <1>1, <1>2 DEF Unlinked
<1>3. CASE At(old) \in Files
  <2>1. Unlinked(old) = [path EXCEPT ![At(old)] = <<Nowhere>>] /\ At(old) # Nowhere
    BY <1>3, RootFirst DEF Unlinked, Nodes
  <2>2. path[At(old)] = old
    BY <2>1, NamesOnly, StatAt DEF At
  <2> QED
    BY <1>1, <1>3, <2>1, <2>2
<1> QED
  BY <1>2, <1>3

\* What unlink of the host leaves is a tree.
LEMMA UnlinkTree ==
    ASSUME Tree(path), NEW old \in Seq(Names)
    PROVE  Tree(Unlinked(old))
<1> DEFINE W == Unlinked(old)
<1>1. \A n \in Nodes : W[n] # path[n] => n \in Files /\ W[n] = <<Nowhere>>
  BY UnlinkedAt
<1>2. W \in [Nodes -> Seq(Names) \cup {<<Nowhere>>}]
  BY DEF Tree, Unlinked
<1> HIDE DEF W
<1>3. \A d \in Dirs \cup {Root} : W[d] = path[d]
  BY <1>1, TreeAssumption DEF Nodes
<1>4. W[Root] = <<>>
  BY <1>3 DEF Tree
<1>5. \A m, n \in Nodes : W[m] = W[n] => m = n \/ W[m] = <<Nowhere>>
  BY <1>1 DEF Tree
<1>6. ASSUME NEW n \in Nodes, NEW k \in Nat, k < Len(W[n])
      PROVE  \E d \in Dirs \cup {Root} : W[d] = SubSeq(W[n], 1, k)
  <2>1. CASE W[n] = path[n]
    BY <1>3, <1>6, <2>1 DEF Tree
  <2>2. CASE W[n] = <<Nowhere>>
    <3>1. k = 0
      BY <1>6, <2>2
    <3>2. SubSeq(<<Nowhere>>, 1, 0) = <<>>
      OBVIOUS
    <3> QED
      BY <1>4, <2>2, <3>1, <3>2
  <2> QED
    BY <1>1, <2>1, <2>2
<1>7. Tree(W)
  BY <1>2, <1>4, <1>5, <1>6 DEF Tree
<1> QED
  BY <1>7 DEF W

\* An inode that keeps its path keeps all that is above it.
LEMMA AboveKept ==
    ASSUME Tree(path), NEW old \in Seq(Names), NEW new \in Seq(Names), NEW W,
           W = Renamed(old, new) \/ W = Unlinked(old),
           NEW d \in Nodes, NEW n \in Nodes, IsPrefix(path[d], path[n]),
           path[d] # <<Nowhere>>, W[n] = path[n]
    PROVE  W[d] = path[d]
<1> DEFINE S == Names \cup {Nowhere}
<1>1. /\ path[d] \in Seq(S) /\ path[n] \in Seq(S) /\ path[d] \in Seq(Names)
      /\ old \in Seq(S) /\ Len(path[d]) \in Nat /\ Len(path[n]) \in Nat
  BY PathTyped, Wider
<1> HIDE DEF S
<1>2. CASE W = Unlinked(old)
  <2> SUFFICES ASSUME W[d] # path[d] PROVE FALSE
    OBVIOUS
  <2>1. d \in Files /\ W[d] = <<Nowhere>>
    BY <1>2, UnlinkedAt
  <2>2. d # n
    BY <2>1
  <2>3. path[d] # path[n]
    BY <2>2 DEF Tree
  <2>4. /\ Len(path[d]) <= Len(path[n])
        /\ \A i \in 1..Len(path[d]) : path[d][i] = path[n][i]
    BY <1>1, PrefixAt
  <2>5. Len(path[d]) < Len(path[n])
    BY <1>1, <2>3, <2>4, SameElements
  <2>6. PICK c \in Dirs \cup {Root} : path[c] = SubSeq(path[n], 1, Len(path[d]))
    BY <1>1, <2>5 DEF Tree
  <2>7. path[c] = path[d]
    <3>1. /\ SubSeq(path[n], 1, Len(path[d])) \in Seq(S)
          /\ Len(SubSeq(path[n], 1, Len(path[d]))) = Len(path[d])
          /\ \A i \in 1..Len(path[d]) : SubSeq(path[n], 1, Len(path[d]))[i] = path[n][i]
      BY <1>1, <2>4, CutAt
    <3> QED
      BY <1>1, <2>4, <2>6, <3>1, SameElements
  <2>8. c = d
    BY <2>7 DEF Tree, Nodes
  <2> QED
    BY <2>1, <2>8, TreeAssumption
<1>3. CASE W = Renamed(old, new) /\ Renames(old, new)
  <2>1. CASE n = At(new)
    <3>1. W[n] = <<Nowhere>>
      BY <1>3, <2>1, RenamedAt
    <3>2. n \in Nodes /\ path[n] = new
      BY <1>3, <2>1, RootFirst, RenameDone, Zenon
    <3> QED
      BY <3>1, <3>2, NamesOnly
  <2>2. CASE n # At(new)
    <3>1. ~IsPrefix(new, path[n])
      BY <1>3, <2>2, RenamedAt
    <3>2. ~IsPrefix(old, path[n])
      <4> SUFFICES ASSUME IsPrefix(old, path[n]) PROVE FALSE
        OBVIOUS
      <4>1. Renamed(old, new)[n] # path[n]
        BY <1>3, <2>2, MovedTo, Zenon
      <4> QED
        BY <1>3, <4>1
    <3>3. ~IsPrefix(old, path[d])
      BY <1>1, <3>2, PrefixTransitive
    <3>4. d # At(new)
      <4> SUFFICES ASSUME d = At(new) PROVE FALSE
        OBVIOUS
      <4>1. path[d] = new
        BY <1>3, RootFirst, RenameDone, Zenon
      <4> QED
        BY <3>1, <4>1
    <3> QED
      BY <1>3, <3>3, <3>4, RenamedAt
  <2> QED
    BY <2>1, <2>2
<1> QED
  BY <1>2, <1>3 DEF Renames

(***************************************************************************)
(* What does not move, and what the transactions have locked.              *)
(***************************************************************************)

\* An inode that has not moved is where it was when the backup began, and so is
\* all that is above it.
SteadyPaths ==
    /\ Tree(path)
    /\ \A n \in Steady : path[n] = FirstPath[n]
    /\ \A n \in Steady, d \in Nodes : IsPrefix(FirstPath[d], FirstPath[n]) => d \in Steady

\* A transaction that locks or has locked executes one of the calls.
CallsKnown ==
    /\ call \in [Txns -> Calls \cup {Nowhere}]
    /\ pc \in [Txns -> {"idle", "lock", "ready", "ended"}]
    /\ \A t \in Txns : pc[t] \in {"lock", "ready"} => call[t] \in Calls

\* What a call is made of.
LEMMA CallTyped ==
    ASSUME NEW c \in Calls
    PROVE  c.op \in {"rename", "unlink"} /\ c.old \in Seq(Names) /\ c.new \in Seq(Names)
BY CallsAssumption

\* A commit renames or unlinks, and notes what has moved.
LEMMA CommitMoves ==
    ASSUME SteadyPaths, CallsKnown, NEW t \in Txns, Commit(t)
    PROVE  /\ call[t] \in Calls /\ call[t].old \in Seq(Names) /\ call[t].new \in Seq(Names)
           /\ \/ call[t].op = "rename" /\ path' = Renamed(call[t].old, call[t].new)
              \/ call[t].op = "unlink" /\ path' = Unlinked(call[t].old)
           /\ Tree(path)'
           /\ Steady' = {n \in Steady : path'[n] = path[n]}
<1>1. call[t] \in Calls
  BY DEF Commit, CallsKnown
<1>2. call[t].op \in {"rename", "unlink"} /\ call[t].old \in Seq(Names) /\ call[t].new \in Seq(Names)
  BY <1>1, CallTyped
<1>3. \/ call[t].op = "rename" /\ path' = Renamed(call[t].old, call[t].new)
      \/ call[t].op = "unlink" /\ path' = Unlinked(call[t].old)
  BY <1>2 DEF Commit
<1>4. Tree(path')
  BY <1>2, <1>3, RenameTree, UnlinkTree DEF SteadyPaths
<1>5. Tree(path)'
  BY <1>4 DEF Tree
<1>6. Steady' = {n \in Steady : path'[n] = path[n]}
  BY DEF Steady, Commit
<1> QED
  BY <1>1, <1>2, <1>3, <1>5, <1>6

\* Only a commit moves an inode.
LEMMA OthersKeepPaths ==
    ASSUME [Next]_vars, \A t \in Txns : ~Commit(t)
    PROVE  path' = path /\ moved' = moved /\ Steady' = Steady
<1>1. path' = path /\ moved' = moved
  <2>1. CASE UNCHANGED vars
    BY <2>1 DEF vars, tree
  <2>2. CASE BackupStep
    BY <2>2 DEF BackupStep, Pop, StatAgain, LockPath, Copy, MarkAsRead, List, Release, Done, tree
  <2>3. ASSUME NEW t \in Txns, (\E c \in Calls : Begin(t, c)) \/ Lock(t) \/ Abort(t)
        PROVE  path' = path /\ moved' = moved
    BY <2>3 DEF Begin, Lock, Abort, tree
  <2> QED
    BY <2>1, <2>2, <2>3 DEF Next
<1> QED
  BY <1>1 DEF Steady

\* Inodes that have not moved stay together with what is above them.
LEMMA SteadyStays ==
    ASSUME SteadyPaths, CallsKnown, [Next]_vars
    PROVE  SteadyPaths' /\ Steady' \subseteq Steady /\ \A n \in Steady' : path'[n] = path[n]
<1>1. CASE \A t \in Txns : ~Commit(t)
  <2>1. path' = path /\ Steady' = Steady
    BY <1>1, OthersKeepPaths
  <2>2. Tree(path)'
    BY <2>1 DEF SteadyPaths, Tree
  <2> QED
    BY <2>1, <2>2 DEF SteadyPaths
<1>2. ASSUME NEW t \in Txns, Commit(t)
      PROVE  SteadyPaths' /\ Steady' \subseteq Steady /\ \A n \in Steady' : path'[n] = path[n]
  <2> DEFINE old == call[t].old
             new == call[t].new
  <2>1. /\ old \in Seq(Names) /\ new \in Seq(Names)
        /\ path' = Renamed(old, new) \/ path' = Unlinked(old)
        /\ Tree(path)'
        /\ Steady' = {n \in Steady : path'[n] = path[n]}
    BY <1>2, CommitMoves
  <2> HIDE DEF old, new
  <2>2. ASSUME NEW n \in Steady', NEW d \in Nodes, IsPrefix(FirstPath[d], FirstPath[n])
        PROVE  d \in Steady'
    <3>1. n \in Nodes /\ n \in Steady /\ d \in Steady
      BY <2>1, <2>2 DEF SteadyPaths, Steady
    <3>2. path[n] = FirstPath[n] /\ path[d] = FirstPath[d] /\ path'[n] = path[n]
      BY <2>1, <2>2, <3>1 DEF SteadyPaths
    <3>3. path[d] # <<Nowhere>>
      BY <3>2, NamesOnly, TreeAssumption
    <3>4. path'[d] = path[d]
      BY <2>1, <2>2, <3>1, <3>2, <3>3, AboveKept DEF SteadyPaths
    <3> QED
      BY <2>1, <3>1, <3>4
  <2>3. \A n \in Steady' : path'[n] = FirstPath[n]
    BY <2>1 DEF SteadyPaths
  <2> QED
    BY <2>1, <2>2, <2>3 DEF SteadyPaths
<1> QED
  BY <1>1, <1>2

\* The directories above an inode that has not moved have not either.
LEMMA SteadyAbove ==
    ASSUME SteadyPaths, NEW n \in Steady, NEW k \in Nat, k < Len(path[n])
    PROVE  \E d \in Steady \cap (Dirs \cup {Root}) : path[d] = SubSeq(path[n], 1, k)
<1>1. n \in Nodes /\ path[n] = FirstPath[n] /\ path[n] \in Seq(Names)
  BY TreeAssumption DEF SteadyPaths, Steady
<1>2. Len(path[n]) \in Nat
  BY <1>1
<1>3. k \in 0..(Len(path[n]) - 1)
  BY <1>2
<1>4. PICK d \in Dirs \cup {Root} : FirstPath[d] = SubSeq(path[n], 1, k)
  BY <1>1, <1>3, TreeAssumption
<1>5. IsPrefix(FirstPath[d], FirstPath[n])
  BY <1>1, <1>2, <1>4, CutAt
<1>6. d \in Steady
  BY <1>5 DEF SteadyPaths, Nodes
<1> QED
  BY <1>4, <1>6 DEF SteadyPaths

\* stat() finds an inode that has not moved by its path.
LEMMA SteadyFound ==
    ASSUME SteadyPaths, NEW n \in Steady
    PROVE  /\ At(path[n]) = n /\ n \in Nodes /\ path[n] \in Seq(Names)
           /\ Answers(path[n]) = {n}
<1>1. n \in Nodes /\ path[n] \in Seq(Names)
  BY TreeAssumption DEF SteadyPaths, Steady
<1>2. At(path[n]) = n
  BY <1>1, NamesOnly, StatAt DEF SteadyPaths, At
<1> QED
  BY <1>1, <1>2, RootFirst DEF Answers

\* What a transaction has looked up is what it locks, in the order of its call,
\* and the inodes it has are the first of them.
Held(t) ==
    {n \in Nodes : owner[n] = t} =
      IF pc[t] \in {"lock", "ready"} THEN {target[t][i] : i \in 1..granted[t]} ELSE {}
LooksUp(t) ==
    pc[t] \in {"lock", "ready"} =>
      /\ Len(target[t]) <= Len(LockPaths(call[t]))
      /\ \A i \in 1..Len(target[t]), n \in Steady :
            LockPaths(call[t])[i] = FirstPath[n] => target[t][i] = n
InTurn(t) ==
    /\ pc[t] = "idle" => granted[t] = 0
    /\ pc[t] = "lock" => granted[t] < Len(target[t])
    /\ pc[t] = "ready" => /\ granted[t] = Len(LockPaths(call[t]))
                          /\ granted[t] <= Len(target[t])
TxnTypes ==
    /\ CallsKnown
    /\ target \in [Txns -> Seq(Nodes)]
    /\ granted \in [Txns -> Nat]
    /\ owner \in [Nodes -> Txns \cup {Backup, Nowhere}]
TxnLocks == TxnTypes /\ \A t \in Txns : Held(t) /\ LooksUp(t) /\ InTurn(t)

\* A call locks two or three paths.
LEMMA LockPathsTyped ==
    ASSUME NEW c \in Calls
    PROVE  /\ LockPaths(c) \in Seq(Seq(Names))
           /\ Len(LockPaths(c)) \in 2..3
           /\ LockPaths(c)[1] = Front(c.old)
           /\ LockPaths(c)[Len(LockPaths(c))] = c.old
           /\ c.op = "unlink" => Len(LockPaths(c)) = 2
<1>1. c.old \in Seq(Names) /\ Front(c.old) \in Seq(Names) /\ Front(c.new) \in Seq(Names)
  BY CallTyped DEF Front
<1>2. ASSUME NEW S, NEW a \in S, NEW b \in S, NEW d \in S
      PROVE  /\ <<a, b>> \in Seq(S) /\ Len(<<a, b>>) = 2 /\ <<a, b>>[1] = a /\ <<a, b>>[2] = b
             /\ <<a, b, d>> \in Seq(S) /\ Len(<<a, b, d>>) = 3
             /\ <<a, b, d>>[1] = a /\ <<a, b, d>>[3] = d
  OBVIOUS
<1>3. CASE LockPaths(c) = <<Front(c.old), c.old>>
  BY <1>1, <1>2, <1>3
<1>4. CASE LockPaths(c) = <<Front(c.old), Front(c.new), c.old>> /\ c.op # "unlink"
  BY <1>1, <1>2, <1>4
<1> QED
  BY <1>3, <1>4 DEF LockPaths

\* What a look-up answers is an inode, the right one if it has not moved.
LEMMA LookUp ==
    ASSUME SteadyPaths, NEW p, NEW n \in Answers(p)
    PROVE  n \in Nodes /\ \A m \in Steady : p = FirstPath[m] => n = m
<1>1. n \in Nodes
  BY AnswersType
<1>2. ASSUME NEW m \in Steady, p = FirstPath[m] PROVE n = m
  <2>1. p = path[m]
    BY <1>2 DEF SteadyPaths
  <2> QED
    BY <2>1, SteadyFound
<1> QED
  BY <1>1, <1>2

\* A step that leaves the locks, the calls and their look-ups alone.
LEMMA LocksAlone ==
    ASSUME TxnLocks, UNCHANGED <<call, pc, target, granted>>, Steady' \subseteq Steady,
           owner' \in [Nodes -> Txns \cup {Backup, Nowhere}],
           \A n \in Nodes : owner'[n] # owner[n] => owner[n] \notin Txns /\ owner'[n] \notin Txns
    PROVE  TxnLocks'
<1>1. TxnTypes'
  BY DEF TxnLocks, TxnTypes, CallsKnown
<1>2. ASSUME NEW t \in Txns PROVE Held(t)' /\ LooksUp(t)' /\ InTurn(t)'
  <2>1. {n \in Nodes : owner'[n] = t} = {n \in Nodes : owner[n] = t}
    OBVIOUS
  <2>2. Held(t) /\ LooksUp(t) /\ InTurn(t)
    BY DEF TxnLocks
  <2>3. Held(t)'
    BY <2>1, <2>2 DEF Held
  <2>4. LooksUp(t)'
    BY <2>2 DEF LooksUp, LockPaths
  <2>5. InTurn(t)'
    BY <2>2 DEF InTurn, LockPaths
  <2> QED
    BY <2>3, <2>4, <2>5
<1> QED
  BY <1>1, <1>2 DEF TxnLocks

\* The other transactions keep what they have when one locks or releases.
LEMMA OthersKeepLocks ==
    ASSUME TxnLocks, NEW t \in Txns, NEW u \in Txns, u # t, Steady' \subseteq Steady,
           call'[u] = call[u], pc'[u] = pc[u], target'[u] = target[u], granted'[u] = granted[u],
           \A n \in Nodes : owner'[n] # owner[n] =>
              owner[n] \in {t, Nowhere} /\ owner'[n] \in {t, Nowhere}
    PROVE  Held(u)' /\ LooksUp(u)' /\ InTurn(u)'
<1>1. u # Nowhere
  BY TxnsAssumption
<1>2. {n \in Nodes : owner'[n] = u} = {n \in Nodes : owner[n] = u}
  BY <1>1
<1>3. Held(u) /\ LooksUp(u) /\ InTurn(u)
  BY DEF TxnLocks
<1>4. Held(u)'
  BY <1>2, <1>3 DEF Held
<1>5. LooksUp(u)'
  BY <1>3 DEF LooksUp, LockPaths
<1>6. InTurn(u)'
  BY <1>3 DEF InTurn, LockPaths
<1> QED
  BY <1>4, <1>5, <1>6

\* One and two inodes in a row.
LEMMA Tuples ==
    ASSUME NEW S, NEW a \in S, NEW b \in S
    PROVE  /\ <<a>> \in Seq(S) /\ Len(<<a>>) = 1 /\ <<a>>[1] = a
           /\ <<a, b>> \in Seq(S) /\ Len(<<a, b>>) = 2 /\ <<a, b>>[1] = a /\ <<a, b>>[2] = b
OBVIOUS

\* Root is its own parent.
LEMMA EmptyFront == Front(<<>>) = <<>>
BY DEF Front

\* The first look-ups of a call (on_rename, on_unlink).
LEMMA BeginLocks ==
    ASSUME TxnLocks, SteadyPaths, NEW t \in Txns, NEW c \in Calls, Begin(t, c)
    PROVE  TxnLocks'
<1>1. /\ call' = [call EXCEPT ![t] = c] /\ pc[t] = "idle"
      /\ UNCHANGED <<path, owner, granted, moved>> /\ Steady' = Steady
  BY DEF Begin, tree, Steady
<1>2. granted[t] = 0 /\ {n \in Nodes : owner[n] = t} = {}
  BY <1>1 DEF TxnLocks, InTurn, Held
<1>3. /\ Len(LockPaths(c)) \in 2..3 /\ LockPaths(c)[1] = Front(c.old)
      /\ LockPaths(c)[Len(LockPaths(c))] = c.old
      /\ c.op = "unlink" => Len(LockPaths(c)) = 2
      /\ c.op \in {"rename", "unlink"}
  BY LockPathsTyped, CallTyped, Zenon
<1>4. \/ c.op = "unlink" /\ \E p \in Answers(Front(c.old)), n \in Answers(c.old) :
            pc' = [pc EXCEPT ![t] = "lock"] /\ target' = [target EXCEPT ![t] = <<p, n>>]
      \/ /\ At(c.old) # Nowhere
         /\ pc' = [pc EXCEPT ![t] = "lock"]
         /\ target' = [target EXCEPT ![t] = <<At(Front(c.old))>>]
      \/ pc' = [pc EXCEPT ![t] = "ended"] /\ target' = target
  BY DEF Begin
<1>5. /\ \/ pc'[t] = "lock" /\ pc' = [pc EXCEPT ![t] = "lock"]
         \/ pc'[t] = "ended" /\ pc' = [pc EXCEPT ![t] = "ended"]
      /\ call'[t] = c
      /\ \A u \in Txns : u # t => pc'[u] = pc[u] /\ call'[u] = call[u] /\ target'[u] = target[u]
  BY <1>1, <1>4 DEF TxnLocks, TxnTypes, CallsKnown
<1>6. /\ target'[t] \in Seq(Nodes) /\ target' = [target EXCEPT ![t] = target'[t]]
      /\ pc'[t] = "lock" =>
           /\ Len(target'[t]) \in 1..2 /\ Len(target'[t]) <= Len(LockPaths(c))
           /\ \A i \in 1..Len(target'[t]), n \in Steady :
                 LockPaths(c)[i] = FirstPath[n] => target'[t][i] = n
  <2>1. CASE c.op = "unlink" /\ \E p \in Answers(Front(c.old)), n \in Answers(c.old) :
            pc' = [pc EXCEPT ![t] = "lock"] /\ target' = [target EXCEPT ![t] = <<p, n>>]
    <3>1. PICK p \in Answers(Front(c.old)), n \in Answers(c.old) :
            target' = [target EXCEPT ![t] = <<p, n>>]
      BY <2>1
    <3>2. /\ p \in Nodes /\ \A m \in Steady : Front(c.old) = FirstPath[m] => p = m
          /\ n \in Nodes /\ \A m \in Steady : c.old = FirstPath[m] => n = m
      BY LookUp
    <3>3. target'[t] = <<p, n>>
      BY <3>1 DEF TxnLocks, TxnTypes
    <3>4. LockPaths(c)[1] = Front(c.old) /\ LockPaths(c)[2] = c.old /\ Len(LockPaths(c)) = 2
      BY <1>3, <2>1
    <3>5. \A i \in 1..2 : i = 1 \/ i = 2
      OBVIOUS
    <3>6. PICK new \in Seq(Nodes) : new = <<p, n>> /\ Len(new) = 2 /\ new[1] = p /\ new[2] = n
      <4>1. p \in Nodes /\ n \in Nodes
        BY <3>2
      <4>2. /\ <<p, n>> \in Seq(Nodes) /\ Len(<<p, n>>) = 2
            /\ <<p, n>>[1] = p /\ <<p, n>>[2] = n
        BY <4>1, Tuples, Zenon
      <4> QED
        BY <4>2, Zenon
    <3>7. \A i \in 1..2, m \in Steady : LockPaths(c)[i] = FirstPath[m] => new[i] = m
      BY <3>2, <3>4, <3>5, <3>6
    <3>8. target'[t] = new /\ target' = [target EXCEPT ![t] = target'[t]]
      BY <3>1, <3>3, <3>6
    <3> QED
      BY <3>4, <3>6, <3>7, <3>8
  <2>2. CASE /\ At(c.old) # Nowhere
             /\ target' = [target EXCEPT ![t] = <<At(Front(c.old))>>]
    <3> DEFINE p == At(Front(c.old))
    <3>1. c.old \in Seq(Names)
      BY CallTyped
    <3>2. p \in Nodes
      <4>1. At(c.old) \in Nodes /\ path[At(c.old)] = c.old
        BY <2>2, <3>1, NamesOnly, StatAt DEF At, SteadyPaths
      <4>2. CASE c.old = <<>>
        <5>1. Front(c.old) = c.old
          BY <4>2, EmptyFront
        <5> QED
          BY <4>1, <5>1
      <4>3. CASE c.old # <<>>
        <5>0. Len(c.old) \in Nat /\ Len(c.old) >= 1
          BY <3>1, <4>3, FrontAt
        <5>1. PICK k \in Nat : k = Len(c.old) - 1 /\ k < Len(c.old)
          <6>1. PICK l \in Nat : l = Len(c.old) /\ l >= 1
            BY <5>0
          <6>2. l - 1 \in Nat /\ l - 1 < l
            BY <6>1
          <6> QED
            BY <6>1, <6>2
        <5>2. PICK d \in Dirs \cup {Root} : path[d] = SubSeq(c.old, 1, k)
          <6>1. PICK o \in Nodes : path[o] = c.old
            BY <4>1
          <6>2. k < Len(path[o])
            BY <5>1, <6>1
          <6> QED
            BY <6>1, <6>2 DEF SteadyPaths, Tree
        <5>3. path[d] = Front(c.old)
          BY <5>1, <5>2 DEF Front
        <5>4. Front(c.old) # <<Nowhere>>
          BY <3>1, <4>3, FrontAt, NamesOnly
        <5>5. p = d
          BY <5>3, <5>4, StatAt DEF At, SteadyPaths, Nodes
        <5> QED
          BY <5>5 DEF Nodes
      <4> QED
        BY <4>2, <4>3
    <3>3. \A m \in Steady : Front(c.old) = FirstPath[m] => p = m
      BY SteadyFound DEF SteadyPaths
    <3> HIDE DEF p
    <3>4. target'[t] = <<p>>
      BY <2>2 DEF TxnLocks, TxnTypes, p
    <3>5. PICK new \in Seq(Nodes) : new = <<p>> /\ Len(new) = 1 /\ new[1] = p
      BY <3>2, Tuples
    <3>6. \A i \in 1..1 : i = 1
      OBVIOUS
    <3>7. \A i \in 1..1, m \in Steady : LockPaths(c)[i] = FirstPath[m] => new[i] = m
      BY <1>3, <3>3, <3>5, <3>6
    <3>8. target'[t] = new /\ target' = [target EXCEPT ![t] = target'[t]]
      BY <2>2, <3>4, <3>5 DEF p
    <3> QED
      BY <1>3, <3>5, <3>7, <3>8
  <2>3. CASE pc' = [pc EXCEPT ![t] = "ended"] /\ target' = target
    BY <2>3 DEF TxnLocks, TxnTypes, CallsKnown
  <2> QED
    BY <1>4, <2>1, <2>2, <2>3
<1>7. TxnTypes'
  <2>1. call' \in [Txns -> Calls \cup {Nowhere}]
    BY <1>1 DEF TxnLocks, TxnTypes, CallsKnown
  <2>2. pc' \in [Txns -> {"idle", "lock", "ready", "ended"}]
    BY <1>5 DEF TxnLocks, TxnTypes, CallsKnown
  <2>3. \A u \in Txns : pc'[u] \in {"lock", "ready"} => call'[u] \in Calls
    BY <1>5 DEF TxnLocks, TxnTypes, CallsKnown
  <2>4. target' \in [Txns -> Seq(Nodes)]
    BY <1>6 DEF TxnLocks, TxnTypes
  <2> QED
    BY <1>1, <2>1, <2>2, <2>3, <2>4 DEF TxnLocks, TxnTypes, CallsKnown
<1>8. Held(t)' /\ LooksUp(t)' /\ InTurn(t)'
  <2>1. Held(t)'
    <3>1. {target'[t][i] : i \in 1..0} = {}
      OBVIOUS
    <3> QED
      BY <1>1, <1>2, <3>1 DEF Held
  <2>2. LooksUp(t)'
    BY <1>1, <1>5, <1>6 DEF LooksUp, LockPaths
  <2>3. InTurn(t)'
    BY <1>1, <1>2, <1>5, <1>6 DEF InTurn
  <2> QED
    BY <2>1, <2>2, <2>3
<1>9. ASSUME NEW u \in Txns, u # t PROVE Held(u)' /\ LooksUp(u)' /\ InTurn(u)'
  BY <1>1, <1>5, <1>9, OthersKeepLocks
<1> QED
  BY <1>7, <1>8, <1>9 DEF TxnLocks

\* A lock is granted and the next path is looked up.
LEMMA LockLocks ==
    ASSUME TxnLocks, SteadyPaths, NEW t \in Txns, Lock(t)
    PROVE  TxnLocks'
<1> DEFINE steps == LockPaths(call[t])
<1>1. /\ pc[t] = "lock" /\ call' = call /\ Steady' = Steady
      /\ call[t] \in Calls
  BY DEF Lock, tree, Steady, TxnLocks, TxnTypes, CallsKnown
<1>2. PICK g \in Nat, k \in Nat, len \in Nat :
        g = granted[t] /\ k = g + 1 /\ len = Len(target[t]) /\ target[t] \in Seq(Nodes)
  <2>1. granted[t] \in Nat /\ target[t] \in Seq(Nodes)
    BY DEF TxnLocks, TxnTypes
  <2>2. granted[t] + 1 \in Nat /\ Len(target[t]) \in Nat
    BY <2>1
  <2> QED
    BY <2>1, <2>2
<1>3. g < len /\ len <= Len(steps) /\ Len(steps) \in 2..3
  BY <1>1, <1>2, LockPathsTyped DEF TxnLocks, InTurn, LooksUp
<1>4. PICK a \in Nodes : a = target[t][k] /\ a = Asked(t)
  BY <1>2, <1>3 DEF Asked
<1> HIDE DEF steps
<1>5. /\ owner[a] \in {Nowhere, t} /\ owner' = [owner EXCEPT ![a] = t]
      /\ granted' = [granted EXCEPT ![t] = k]
      /\ pc' = [pc EXCEPT ![t] = IF k = Len(steps) THEN "ready" ELSE "lock"]
      /\ \/ target' = target /\ (k < len \/ k = Len(steps))
         \/ /\ k >= len /\ k # Len(steps)
            /\ \E n \in Answers(steps[k + 1]) : target' = [target EXCEPT ![t] = Append(target[t], n)]
  BY <1>2, <1>4 DEF Lock, Free, TxnLocks, TxnTypes, steps
<1>6. /\ pc'[t] = IF k = Len(steps) THEN "ready" ELSE "lock"
      /\ granted'[t] = k
      /\ \A u \in Txns : u # t =>
            pc'[u] = pc[u] /\ granted'[u] = granted[u] /\ target'[u] = target[u]
  BY <1>5 DEF TxnLocks, TxnTypes, CallsKnown
<1>7. /\ target'[t] \in Seq(Nodes) /\ target' = [target EXCEPT ![t] = target'[t]]
      /\ Len(target'[t]) >= len /\ Len(target'[t]) <= Len(steps)
      /\ k # Len(steps) => k < Len(target'[t])
      /\ \A i \in 1..len : target'[t][i] = target[t][i]
      /\ \A i \in 1..Len(target'[t]), n \in Steady : steps[i] = FirstPath[n] => target'[t][i] = n
  <2>1. \A i \in 1..len, n \in Steady : steps[i] = FirstPath[n] => target[t][i] = n
    BY <1>1, <1>2 DEF TxnLocks, LooksUp, steps
  <2>2. CASE target' = target /\ (k < len \/ k = Len(steps))
    BY <1>2, <1>3, <2>1, <2>2 DEF TxnLocks, TxnTypes
  <2>3. CASE k >= len /\ k # Len(steps)
    <3>1. PICK n \in Answers(steps[k + 1]) : target' = [target EXCEPT ![t] = Append(target[t], n)]
      BY <1>5, <2>3
    <3>2. k = len /\ k < Len(steps)
      BY <1>2, <1>3, <2>3
    <3>3. n \in Nodes /\ \A m \in Steady : steps[k + 1] = FirstPath[m] => n = m
      BY LookUp
    <3>4. PICK new : new = target'[t] /\ new = Append(target[t], n)
      BY <3>1 DEF TxnLocks, TxnTypes
    <3>5. /\ new \in Seq(Nodes) /\ Len(new) = len + 1
          /\ \A i \in 1..len : new[i] = target[t][i]
          /\ new[len + 1] = n
      BY <1>2, <3>3, <3>4
    <3>6. \A i \in 1..(len + 1) : i \in 1..len \/ i = len + 1
      OBVIOUS
    <3>7. \A i \in 1..Len(new), m \in Steady : steps[i] = FirstPath[m] => new[i] = m
      BY <2>1, <3>2, <3>3, <3>5, <3>6
    <3>8. target' = [target EXCEPT ![t] = target'[t]]
      BY <3>1, <3>4
    <3>9. Len(steps) \in Nat
      BY <1>3
    <3> QED
      BY <3>2, <3>4, <3>5, <3>7, <3>8, <3>9
  <2> QED
    BY <1>5, <2>2, <2>3
<1>8. TxnTypes'
  <2>1. pc' \in [Txns -> {"idle", "lock", "ready", "ended"}]
    BY <1>5 DEF TxnLocks, TxnTypes, CallsKnown
  <2>2. \A u \in Txns : pc'[u] \in {"lock", "ready"} => call'[u] \in Calls
    BY <1>1, <1>6 DEF TxnLocks, TxnTypes, CallsKnown
  <2>3. target' \in [Txns -> Seq(Nodes)] /\ granted' \in [Txns -> Nat]
    BY <1>5, <1>7 DEF TxnLocks, TxnTypes
  <2>4. owner' \in [Nodes -> Txns \cup {Backup, Nowhere}]
    BY <1>5 DEF TxnLocks, TxnTypes
  <2> QED
    BY <1>1, <2>1, <2>2, <2>3, <2>4 DEF TxnLocks, TxnTypes, CallsKnown
<1>9. Held(t)'
  <2>1. {n \in Nodes : owner[n] = t} = {target[t][i] : i \in 1..g}
    BY <1>1, <1>2 DEF TxnLocks, Held
  <2>2. {n \in Nodes : owner'[n] = t} = {n \in Nodes : owner[n] = t} \cup {a}
    BY <1>5 DEF TxnLocks, TxnTypes
  <2>3. {target'[t][i] : i \in 1..k} = {target[t][i] : i \in 1..g} \cup {a}
    <3>1. \A i \in 1..k : target'[t][i] = target[t][i] /\ (i \in 1..g \/ i = k)
      BY <1>2, <1>3, <1>7
    <3>2. \A i \in 1..g : i \in 1..k
      BY <1>2
    <3>3. k \in 1..k
      BY <1>2
    <3> QED
      BY <1>4, <3>1, <3>2, <3>3
  <2> QED
    BY <1>6, <2>1, <2>2, <2>3 DEF Held
<1>10. LooksUp(t)'
  BY <1>1, <1>6, <1>7 DEF LooksUp, steps, LockPaths
<1>11. InTurn(t)'
  <2>1. LockPaths(call[t])' = steps
    BY <1>1 DEF LockPaths, steps
  <2>2. k <= Len(target'[t])
    <3>1. Len(target'[t]) \in Nat
      BY <1>7
    <3> QED
      BY <1>2, <1>3, <1>7, <3>1
  <2> QED
    BY <1>6, <1>7, <2>1, <2>2 DEF InTurn
<1>12. ASSUME NEW u \in Txns, u # t PROVE Held(u)' /\ LooksUp(u)' /\ InTurn(u)'
  BY <1>1, <1>5, <1>6, <1>12, OthersKeepLocks DEF TxnLocks, TxnTypes
<1> QED
  BY <1>8, <1>9, <1>10, <1>11, <1>12 DEF TxnLocks

\* The end of a transaction gives up its locks and nobody else's.
LEMMA EndLocks ==
    ASSUME TxnLocks, NEW t \in Txns, Ended(t), Steady' \subseteq Steady
    PROVE  TxnLocks'
<1>1. /\ pc' = [pc EXCEPT ![t] = "ended"] /\ UNCHANGED <<call, target, granted>>
      /\ owner' = [n \in Nodes |-> IF owner[n] = t THEN Nowhere ELSE owner[n]]
  BY DEF Ended
<1>2. t # Nowhere
  BY TxnsAssumption
<1>3. /\ pc'[t] = "ended" /\ \A u \in Txns : u # t => pc'[u] = pc[u]
      /\ \A n \in Nodes : owner'[n] # t
  BY <1>1, <1>2 DEF TxnLocks, TxnTypes, CallsKnown
<1>4. TxnTypes'
  <2>1. pc' \in [Txns -> {"idle", "lock", "ready", "ended"}]
    BY <1>1 DEF TxnLocks, TxnTypes, CallsKnown
  <2>2. \A u \in Txns : pc'[u] \in {"lock", "ready"} => call'[u] \in Calls
    BY <1>1, <1>3 DEF TxnLocks, TxnTypes, CallsKnown
  <2>3. owner' \in [Nodes -> Txns \cup {Backup, Nowhere}]
    BY <1>1 DEF TxnLocks, TxnTypes
  <2> QED
    BY <1>1, <2>1, <2>2, <2>3 DEF TxnLocks, TxnTypes, CallsKnown
<1>5. Held(t)' /\ LooksUp(t)' /\ InTurn(t)'
  BY <1>3 DEF Held, LooksUp, InTurn
<1>6. ASSUME NEW u \in Txns, u # t PROVE Held(u)' /\ LooksUp(u)' /\ InTurn(u)'
  <2>1. \A n \in Nodes : owner'[n] # owner[n] =>
           owner[n] \in {t, Nowhere} /\ owner'[n] \in {t, Nowhere}
    BY <1>1
  <2> QED
    BY <1>1, <1>3, <1>6, <2>1, OthersKeepLocks
<1> QED
  BY <1>4, <1>5, <1>6 DEF TxnLocks

\* The types of what the backup keeps, and room for its paths.
WalkTypes ==
    /\ sticky \in [Nodes -> BOOLEAN]
    /\ at \in {"pop", "stat", "lock", "copy", "mark", "list", "release", "done", "crashed", "overrun"}
    /\ stack \in Seq(Seq(Names)) /\ Len(stack) <= StackLimit
    /\ current \in Seq(Names)
    /\ opened \in Dirs \cup {Root, Nowhere}
    /\ copied \in [Nodes -> Nat]
    /\ path_buf.sticky \in BOOLEAN

\* The backup has no lock before it asks for one, and one at most.
BackupLocks ==
    /\ at \in {"pop", "stat", "lock", "done"} => \A n \in Nodes : owner[n] # Backup
    /\ \A n \in Nodes : owner[n] = Backup => n = locked

Sane == IInv /\ SteadyPaths /\ TxnLocks /\ WalkTypes /\ BackupLocks

\* The sequences readdir may give: each name once.
LEMMA SeqOfSet ==
    ASSUME NEW S, IsFiniteSet(S), NEW s \in SetToSeqs(S)
    PROVE  /\ s \in Seq(S) /\ Len(s) = Cardinality(S) /\ Cardinality(S) \in Nat
           /\ \A i, j \in 1..Len(s) : s[i] = s[j] => i = j
           /\ \A x \in S : \E i \in 1..Len(s) : s[i] = x
<1>1. PICK c \in Nat : c = Cardinality(S)
  BY FS_CardinalityType
<1>2. s \in [1..c -> S] /\ \A i, j \in 1..c : i # j => s[i] # s[j]
  BY <1>1 DEF SetToSeqs
<1>3. s \in Seq(S) /\ Len(s) = c
  BY <1>2
<1>4. s \in Injection(1..c, S)
  BY <1>2 DEF Injection, IsInjective
<1>5. IsFiniteSet(1..c) /\ Cardinality(1..c) = c
  <2>1. 1 \in Int /\ c \in Int /\ (IF 1 > c THEN 0 ELSE c - 1 + 1) = c
    OBVIOUS
  <2> QED
    BY <2>1, FS_Interval, Zenon
<1>6. s \in Surjection(1..c, S)
  BY <1>1, <1>4, <1>5, FS_Injection
<1>7. \A x \in S : \E i \in 1..c : s[i] = x
  BY <1>6 DEF Surjection
<1> QED
  BY <1>1, <1>2, <1>3, <1>7

\* readdir gives finitely many paths of names.
LEMMA ListingTyped ==
    ASSUME SteadyPaths, current \in Seq(Names), NEW d \in Nodes
    PROVE  /\ Listing(d) \subseteq Seq(Names) /\ IsFiniteSet(Listing(d))
           /\ \A n \in Children(d) : path[n] \in Seq(Names) /\ path[n] # <<>>
<1>1. ASSUME NEW n \in Children(d) PROVE path[n] \in Seq(Names) /\ path[n] # <<>>
  <2>1. n \in Nodes /\ n # Root /\ path[n] # <<Nowhere>>
    BY DEF Children
  <2>2. path[n] \in Seq(Names)
    BY <2>1, PathTyped DEF SteadyPaths
  <2>3. path[n] # path[Root] /\ path[Root] = <<>>
    BY <2>1, RootFirst DEF SteadyPaths, Tree
  <2> QED
    BY <2>2, <2>3
<1>2. ASSUME NEW n \in Children(d) PROVE current \o <<Last(path[n])>> \in Seq(Names)
  <2>1. PICK p \in Seq(Names) : p = path[n] /\ Len(p) \in Nat /\ Len(p) >= 1
    BY <1>1, FrontAt
  <2>2. Last(path[n]) \in Names
    BY <2>1 DEF Last
  <2> QED
    BY <2>2
<1> DEFINE Kids == {m \in Children(d) : Last(path[m]) \notin Hidden}
           f == [n \in Kids |-> current \o <<Last(path[n])>>]
<1>3. IsFiniteSet(Kids)
  <2>1. Kids \subseteq Nodes
    BY DEF Children
  <2> QED
    BY <2>1, TreeAssumption, FS_Subset
<1>4. f \in Surjection(Kids, Listing(d))
  BY DEF Surjection, Listing
<1>5. IsFiniteSet(Listing(d))
  BY <1>3, <1>4, FS_Surjection
<1>6. Listing(d) \subseteq Seq(Names)
  BY <1>2 DEF Listing
<1> QED
  BY <1>1, <1>5, <1>6

\* The backup starts sane.
LEMMA SaneInit == Init => Sane
<1> SUFFICES ASSUME Init PROVE Sane
  OBVIOUS
<1> USE DEF Init
<1>1. Tree(path)
  <2>1. \A n \in Nodes, k \in Nat : k < Len(FirstPath[n]) =>
           \E d \in Dirs \cup {Root} : FirstPath[d] = SubSeq(FirstPath[n], 1, k)
    <3> SUFFICES ASSUME NEW n \in Nodes, NEW k \in Nat, k < Len(FirstPath[n])
                 PROVE  \E d \in Dirs \cup {Root} : FirstPath[d] = SubSeq(FirstPath[n], 1, k)
      OBVIOUS
    <3>1. FirstPath[n] \in Seq(Names)
      BY TreeAssumption
    <3>2. k \in 0..(Len(FirstPath[n]) - 1)
      BY <3>1
    <3> QED
      BY <3>2, TreeAssumption
  <2>2. /\ FirstPath \in [Nodes -> Seq(Names) \cup {<<Nowhere>>}]
        /\ FirstPath[Root] = <<>>
        /\ \A m, n \in Nodes : FirstPath[m] = FirstPath[n] => m = n
    BY TreeAssumption
  <2> QED
    BY <2>1, <2>2 DEF Tree
<1>2. SteadyPaths
  BY <1>1 DEF SteadyPaths, Steady
<1>3. TxnLocks
  <2>1. TxnTypes
    <3>1. [t \in Txns |-> <<>>] \in [Txns -> Seq(Nodes)]
      OBVIOUS
    <3> QED
      BY <3>1 DEF TxnTypes, CallsKnown
  <2>2. ASSUME NEW t \in Txns PROVE Held(t) /\ LooksUp(t) /\ InTurn(t)
    BY TxnsAssumption DEF Held, LooksUp, InTurn
  <2> QED
    BY <2>1, <2>2 DEF TxnLocks
<1>4. WalkTypes
  <2>1. <<>> \in Seq(Names) /\ <<<<>>>> \in Seq(Seq(Names)) /\ Len(<<<<>>>>) = 1
    <3>1. <<>> \in Seq(Names)
      OBVIOUS
    <3> QED
      BY <3>1, Tuples
  <2>2. stack = <<<<>>>> /\ Len(stack) <= StackLimit
    BY <2>1, StackAssumption, TreeAssumption
  <2>3. sticky \in [Nodes -> BOOLEAN] /\ copied \in [Nodes -> Nat]
    OBVIOUS
  <2>4. path_buf.sticky \in BOOLEAN
    OBVIOUS
  <2> QED
    BY <2>1, <2>2, <2>3, <2>4 DEF WalkTypes
<1>5. BackupLocks
  BY TxnsAssumption DEF BackupLocks
<1> QED
  BY <1>2, <1>3, <1>4, <1>5, InitIInv DEF Sane

\* Every step keeps the locks of the transactions in order.
LEMMA TxnLocksStay ==
    ASSUME IInv, SteadyPaths, TxnLocks, [Next]_vars
    PROVE  TxnLocks'
<1>1. Steady' \subseteq Steady
  BY SteadyStays DEF TxnLocks, TxnTypes
<1>2. Backup \notin Txns /\ Nowhere \notin Txns
  BY TxnsAssumption
<1>3. CASE UNCHANGED vars
  <2>1. UNCHANGED <<call, pc, target, granted, owner>>
    BY <1>3 DEF vars, txns
  <2> QED
    BY <1>1, <2>1, LocksAlone DEF TxnLocks, TxnTypes
<1>4. CASE BackupStep
  <2>1. UNCHANGED <<call, pc, target, granted>>
    BY <1>4 DEF BackupStep, Pop, StatAgain, LockPath, Copy, MarkAsRead, List, Release, Done, txns
  <2>2. /\ owner' \in [Nodes -> Txns \cup {Backup, Nowhere}]
        /\ \A n \in Nodes : owner'[n] # owner[n] => owner[n] \notin Txns /\ owner'[n] \notin Txns
    <3>1. CASE LockPath
      BY <1>2, <3>1 DEF LockPath, TxnLocks, TxnTypes
    <3>2. CASE Release
      BY <1>2, <3>2 DEF Release, TxnLocks, TxnTypes
    <3>3. CASE Pop \/ StatAgain \/ Copy \/ MarkAsRead \/ List \/ Done
      <4>1. owner' = owner
        BY <3>3 DEF Pop, StatAgain, Copy, MarkAsRead, List, Done
      <4> QED
        BY <4>1 DEF TxnLocks, TxnTypes
    <3> QED
      BY <1>4, <3>1, <3>2, <3>3 DEF BackupStep
  <2> QED
    BY <1>1, <2>1, <2>2, LocksAlone
<1>5. ASSUME NEW t \in Txns, \E c \in Calls : Begin(t, c) PROVE TxnLocks'
  BY <1>5, BeginLocks
<1>6. ASSUME NEW t \in Txns, Lock(t) PROVE TxnLocks'
  BY <1>6, LockLocks
<1>7. ASSUME NEW t \in Txns, Abort(t) \/ Commit(t) PROVE TxnLocks'
  BY <1>1, <1>7, EndLocks DEF Abort, Commit
<1> QED
  BY <1>3, <1>4, <1>5, <1>6, <1>7 DEF Next

\* Every step keeps the types of the walk.
LEMMA WalkTypesStay ==
    ASSUME IInv, SteadyPaths, WalkTypes, [Next]_vars
    PROVE  WalkTypes'
<1>1. CASE UNCHANGED vars
  BY <1>1 DEF vars, tree, walk, WalkTypes
<1>2. ASSUME NEW t \in Txns,
             (\E c \in Calls : Begin(t, c)) \/ Lock(t) \/ Abort(t) \/ Commit(t)
      PROVE  WalkTypes'
  <2>1. UNCHANGED <<at, stack, current, path_buf, locked, opened, copied, sticky>>
    BY <1>2, TxnStep DEF walk
  <2> QED
    BY <2>1 DEF WalkTypes
<1>3. CASE Pop
  <2>1. /\ UNCHANGED <<sticky, copied, opened>> /\ stack # <<>>
        /\ current' = Last(stack) /\ stack' = Front(stack)
        /\ at' \in {"pop", "stat"}
        /\ \/ path_buf' = path_buf
           \/ path_buf'.sticky = sticky[At(Last(stack))] /\ At(Last(stack)) # Nowhere
    BY <1>3 DEF Pop, tree, WalkTypes
  <2>2. /\ stack' \in Seq(Seq(Names)) /\ Len(stack') <= StackLimit
        /\ current' \in Seq(Names)
    <3>1. /\ Front(stack) \in Seq(Seq(Names)) /\ Len(Front(stack)) = Len(stack) - 1
          /\ Len(stack) \in Nat /\ Len(stack) >= 1
      BY <2>1, FrontAt DEF WalkTypes
    <3>2. Last(stack) \in Seq(Names)
      BY <3>1 DEF Last, WalkTypes
    <3> QED
      BY <2>1, <3>1, <3>2, StackAssumption DEF WalkTypes
  <2>3. path_buf'.sticky \in BOOLEAN
    <3>1. At(Last(stack)) \in Nodes \cup {Nowhere}
      BY StatType DEF At
    <3> QED
      BY <2>1, <3>1 DEF WalkTypes
  <2> QED
    BY <2>1, <2>2, <2>3 DEF WalkTypes
<1>4. CASE Copy
  <2>1. At(current) \in Nodes \cup {Nowhere}
    BY StatType DEF At
  <2> QED
    BY <1>4, <2>1 DEF Copy, tree, WalkTypes
<1>5. CASE MarkAsRead
  <2>1. NewMark \in BOOLEAN
    BY DEF NewMark
  <2> QED
    BY <1>5, <2>1 DEF MarkAsRead, WalkTypes
<1>6. CASE List
  <2>1. UNCHANGED <<sticky, copied, current, opened, path_buf>> /\ at' \in {"crashed", "overrun", "release"}
    BY <1>6 DEF List, tree
  <2>2. CASE stack' = stack
    BY <2>1, <2>2 DEF WalkTypes
  <2>3. CASE /\ opened # Nowhere
             /\ ~(Len(stack) + Cardinality(Listing(opened)) > StackLimit)
             /\ \E s \in SetToSeqs(Listing(opened)) : stack' = stack \o s
    <3>1. opened \in Nodes
      BY <1>6, <2>3 DEF WalkTypes, Nodes
    <3>2. Listing(opened) \subseteq Seq(Names) /\ IsFiniteSet(Listing(opened))
      BY <3>1, ListingTyped DEF WalkTypes
    <3>3. PICK s \in SetToSeqs(Listing(opened)) : stack' = stack \o s
      BY <2>3
    <3>4. /\ s \in Seq(Listing(opened)) /\ Len(s) = Cardinality(Listing(opened))
          /\ Cardinality(Listing(opened)) \in Nat
      BY <3>2, SeqOfSet
    <3>5. s \in Seq(Seq(Names))
      BY <3>2, <3>4
    <3>6. stack' \in Seq(Seq(Names)) /\ Len(stack') = Len(stack) + Len(s) /\ Len(stack) \in Nat
      BY <3>3, <3>5 DEF WalkTypes
    <3> QED
      BY <2>1, <2>3, <3>4, <3>6, StackAssumption DEF WalkTypes
  <2> QED
    BY <1>6, <2>2, <2>3 DEF List
<1>7. CASE StatAgain \/ LockPath \/ Release \/ Done
  BY <1>7 DEF StatAgain, LockPath, Release, Done, tree, WalkTypes
<1> QED
  BY <1>1, <1>2, <1>3, <1>4, <1>5, <1>6, <1>7 DEF Next, BackupStep

\* The backup gets its lock when it has none, and gives up the one it has.
LEMMA BackupLocksStay ==
    ASSUME IInv, TxnLocks, BackupLocks, [Next]_vars
    PROVE  BackupLocks'
<1>0. Backup # Nowhere /\ \A t \in Txns : t # Backup
  BY TxnsAssumption
<1>1. CASE UNCHANGED vars
  BY <1>1 DEF vars, walk, BackupLocks
<1>2. ASSUME NEW t \in Txns,
             (\E c \in Calls : Begin(t, c)) \/ Lock(t) \/ Abort(t) \/ Commit(t)
      PROVE  BackupLocks'
  <2>1. at' = at /\ locked' = locked
    BY <1>2, TxnStep DEF walk
  <2>2. \A n \in Nodes : owner'[n] = Backup => owner[n] = Backup
    <3>1. CASE \E c \in Calls : Begin(t, c)
      BY <3>1 DEF Begin
    <3>2. CASE Lock(t)
      BY <1>0, <3>2 DEF Lock, TxnLocks, TxnTypes
    <3>3. CASE Abort(t) \/ Commit(t)
      BY <1>0, <3>3 DEF Abort, Commit, Ended
    <3> QED
      BY <1>2, <3>1, <3>2, <3>3
  <2> QED
    BY <2>1, <2>2 DEF BackupLocks
<1>3. CASE LockPath
  BY <1>0, <1>3 DEF LockPath, BackupLocks, TxnLocks, TxnTypes
<1>4. CASE Release
  <2>1. /\ at = "release" /\ locked' = locked
        /\ \/ at' = "pop" /\ owner[path_buf.ino] = Backup
              /\ owner' = [owner EXCEPT ![path_buf.ino] = Nowhere]
           \/ at' = "crashed" /\ owner' = owner
    BY <1>4 DEF Release
  <2>2. path_buf.ino \in Nodes
    BY DEF IInv, Types
  <2>3. \A n \in Nodes : owner'[n] = Backup => owner[n] = Backup
    BY <1>0, <2>1, <2>2 DEF TxnLocks, TxnTypes
  <2>4. at' = "pop" => \A n \in Nodes : owner'[n] # Backup
    BY <1>0, <2>1, <2>2, <2>3 DEF BackupLocks, TxnLocks, TxnTypes
  <2> QED
    BY <2>1, <2>3, <2>4 DEF BackupLocks
<1>5. CASE StatAgain
  BY <1>5 DEF StatAgain, BackupLocks
<1>6. CASE Pop \/ Copy \/ MarkAsRead \/ List \/ Done
  <2>1. owner' = owner /\ locked' = locked
    BY <1>6 DEF Pop, Copy, MarkAsRead, List, Done
  <2>2. at' \in {"pop", "stat", "lock", "done"} => at \in {"pop", "stat", "lock", "done"}
    BY <1>6 DEF Pop, Copy, MarkAsRead, List, Done
  <2> QED
    BY <2>1, <2>2 DEF BackupLocks
<1> QED
  BY <1>1, <1>2, <1>3, <1>4, <1>5, <1>6 DEF Next, BackupStep

\* Every step keeps the backup sane.
LEMMA SaneNext == Sane /\ [Next]_vars => Sane'
BY NextIInv, SteadyStays, TxnLocksStay, WalkTypesStay, BackupLocksStay DEF Sane, TxnLocks, TxnTypes

\* The backup is sane in every reachable state.
LEMMA SaneHolds == Spec => []Sane
BY SaneInit, SaneNext, PTL DEF Spec

\* Every variable has its type; renames and unlinks leave a tree behind, a
\* transaction has the locks it was granted and the backup one at most.
THEOREM TypeCorrect == Spec => []TypeOK
<1>1. Sane => TypeOK
  <2> SUFFICES ASSUME Sane PROVE TypeOK
    OBVIOUS
  <2>1. \A m, n \in Nodes : path[m] = path[n] => m = n \/ path[m] = <<Nowhere>>
    BY DEF Sane, SteadyPaths, Tree
  <2>2. \A t \in Txns :
          {n \in Nodes : owner[n] = t} =
            IF pc[t] \in {"lock", "ready"} THEN {target[t][i] : i \in 1..granted[t]} ELSE {}
    BY DEF Sane, TxnLocks, Held
  <2> QED
    BY <2>1, <2>2 DEF Sane, WalkTypes, BackupLocks, TypeOK
<1> QED
  BY <1>1, SaneHolds, PTL

\* What delayed_rename and delayed_unlink move is what their transaction has
\* locked, but for what is moved over and what goes along with its directory.
LEMMA CommitMovesItsOwn ==
    ASSUME Sane, NEW t \in Txns, Commit(t), NEW n \in Steady, path'[n] # path[n],
           owner[n] = Backup
    PROVE  \E m \in Nodes \ {n} :
              /\ path'[m] # path[m]
              /\ path'[m] = path[n] \/ IsStrictPrefix(path[m], path[n])
<1> DEFINE old == call[t].old
           new == call[t].new
           steps == LockPaths(call[t])
<1>1. /\ call[t] \in Calls /\ old \in Seq(Names) /\ new \in Seq(Names)
      /\ path' = Renamed(old, new) \/ path' = Unlinked(old)
      /\ Tree(path) /\ n \in Nodes /\ path[n] = FirstPath[n]
  BY CommitMoves DEF Sane, TxnLocks, TxnTypes, SteadyPaths, Steady
<1>2. path[n] # old
  <2> SUFFICES ASSUME path[n] = old PROVE FALSE
    OBVIOUS
  <2>1. pc[t] = "ready"
    BY DEF Commit
  <2>2. PICK k \in Nat : k = Len(steps) /\ k >= 1 /\ steps[k] = old
    <3>1. Len(steps) \in 2..3 /\ steps[Len(steps)] = old
      BY <1>1, LockPathsTyped, Zenon
    <3> HIDE DEF steps, old
    <3> QED
      BY <3>1
  <2>3. granted[t] = k /\ Len(target[t]) <= k /\ k <= Len(target[t])
    BY <2>1, <2>2 DEF Sane, TxnLocks, InTurn, LooksUp
  <2>4. Len(target[t]) \in Nat
    BY DEF Sane, TxnLocks, TxnTypes
  <2>5. k \in 1..Len(target[t]) /\ k \in 1..granted[t]
    BY <2>2, <2>3, <2>4
  <2>6. target[t][k] = n
    BY <1>1, <2>1, <2>2, <2>5 DEF Sane, TxnLocks, LooksUp
  <2>7. owner[n] = t
    BY <1>1, <2>1, <2>5, <2>6 DEF Sane, TxnLocks, Held
  <2> QED
    BY <2>7, TxnsAssumption
<1> HIDE DEF old, new, steps
<1>3. CASE path' = Unlinked(old)
  BY <1>1, <1>2, <1>3, UnlinkedAt
<1>4. CASE path' = Renamed(old, new)
  <2>1. Renames(old, new)
    BY <1>4 DEF Renames
  <2>2. /\ At(old) \in Nodes /\ path[At(old)] = old /\ At(old) # At(new)
        /\ At(new) # Nowhere => At(new) \in Nodes /\ path[At(new)] = new
    BY <1>1, <2>1, RenameDone, Zenon
  <2>3. PICK o \in Nodes : o = At(old) /\ path[o] = old /\ o # At(new)
    BY <2>2
  <2>4. IsPrefix(old, path[o])
    BY <2>3 DEF IsPrefix
  <2>5. Renamed(old, new)[o] # path[o] /\ o # n
    BY <1>1, <1>2, <2>1, <2>3, <2>4, MovedTo, Zenon
  <2>6. CASE n = At(new)
    <3>1. path[n] = new
      BY <1>1, <2>2, <2>6, RootFirst
    <3> DEFINE p == Renamed(old, new)[o]
    <3>2. /\ p \in Seq(Names) /\ Len(p) = Len(new) + Len(path[o]) - Len(old)
          /\ \A i \in 1..Len(new) : p[i] = new[i]
      BY <1>1, <2>1, <2>3, <2>4, MovedTo, Zenon
    <3> HIDE DEF p
    <3>3. p = new
      <4>1. Len(new) \in Nat /\ Len(old) \in Nat
        BY <1>1
      <4>2. Len(p) = Len(new)
        BY <2>3, <3>2, <4>1
      <4> QED
        BY <1>1, <3>2, <4>2, SameElements
    <3> USE DEF p
    <3> QED
      BY <1>4, <2>5, <3>1, <3>3
  <2>7. CASE n # At(new)
    <3>1. IsPrefix(old, path[n])
      BY <1>1, <1>4, <2>1, <2>7, RenamedAt
    <3>2. IsStrictPrefix(path[o], path[n])
      BY <1>2, <2>3, <3>1 DEF IsStrictPrefix
    <3> QED
      BY <1>4, <2>5, <3>2
  <2> QED
    BY <2>6, <2>7
<1> QED
  BY <1>1, <1>3, <1>4

\* What the backup has locked keeps its path, but for what is moved over it and
\* directories above it that move (on_rename, on_unlink lock neither).
THEOREM LockedKeepsItsPath == Spec => LockedStays
<1> DEFINE Stays ==
      \A n \in Nodes : path'[n] # path[n] /\ owner[n] = Backup /\ n \in Steady
        => \E m \in Nodes \ {n} :
              /\ path'[m] # path[m]
              /\ path'[m] = path[n] \/ IsStrictPrefix(path[m], path[n])
<1>1. Sane /\ [Next]_vars => [Stays]_vars
  <2> SUFFICES ASSUME Sane, [Next]_vars, NEW n \in Nodes,
                      path'[n] # path[n], owner[n] = Backup, n \in Steady
               PROVE  \E m \in Nodes \ {n} :
                        /\ path'[m] # path[m]
                        /\ path'[m] = path[n] \/ IsStrictPrefix(path[m], path[n])
    OBVIOUS
  <2>1. PICK t \in Txns : Commit(t)
    BY OthersKeepPaths
  <2> QED
    BY <2>1, CommitMovesItsOwn
<1> QED
  BY <1>1, SaneHolds, PTL DEF Spec, LockedStays

(***************************************************************************)
(* The walk covers the tree: what has not moved is behind it or ahead of   *)
(* it, on one path.                                                        *)
(***************************************************************************)

\* What the backup knows about an inode that has not moved while it works on
\* its path: the inode, its mark, the directory it opened, and that it is copied.
Knows ==
    \A n \in Steady : current = path[n] =>
      /\ at \in {"stat", "lock", "copy", "mark"} =>
            path_buf.ino = n /\ (path_buf.sticky <=> n \in FirstMarks)
      /\ at \in {"mark", "list"} /\ n \notin Files => opened = n
      /\ at = "mark" => copied[n] = 1

Positions(n) == {i \in DOMAIN stack : Leads(stack[i], n)}
Working(n) ==
    \/ at \in {"stat", "lock", "copy"} /\ Leads(current, n)
    \/ at \in {"mark", "list"} /\ Leads(current, n) /\ current # path[n]

\* A path leads to an inode if it is a prefix of its path and no name after it
\* is hidden.
LEMMA LeadsAt ==
    ASSUME SteadyPaths, NEW n \in Steady, NEW p \in Seq(Names)
    PROVE  Leads(p, n) <=>
             /\ Len(p) <= Len(path[n]) /\ \A i \in 1..Len(p) : p[i] = path[n][i]
             /\ \A i \in (Len(p) + 1)..Len(path[n]) : path[n][i] \notin Hidden
<1>1. path[n] \in Seq(Names)
  BY SteadyFound
<1> QED
  BY <1>1, PrefixAt DEF Leads

\* An inode's own path leads to it.
LEMMA LeadsSelf ==
    ASSUME SteadyPaths, NEW n \in Steady
    PROVE  Leads(path[n], n)
<1>1. path[n] \in Seq(Names) /\ Len(path[n]) \in Nat
  BY SteadyFound, Wider
<1>2. (Len(path[n]) + 1)..Len(path[n]) = {}
  BY <1>1
<1> QED
  BY <1>1, <1>2, LeadsAt

\* A path that leads to an inode that has not moved is that of one, a
\* directory if it is not the inode itself.
LEMMA LeadsFrom ==
    ASSUME SteadyPaths, NEW n \in Steady, NEW p \in Seq(Names), Leads(p, n)
    PROVE  /\ At(p) \in Steady /\ path[At(p)] = p /\ At(p) # Nowhere
           /\ p # path[n] => At(p) \in Dirs \cup {Root} /\ At(p) \notin Files
<1>1. n \in Nodes /\ path[n] \in Seq(Names) /\ At(path[n]) = n /\ Len(path[n]) \in Nat /\ Len(p) \in Nat
  BY SteadyFound, Wider
<1>2. Len(p) <= Len(path[n]) /\ \A i \in 1..Len(p) : p[i] = path[n][i]
  BY LeadsAt
<1>3. CASE p = path[n]
  BY <1>1, <1>3, RootFirst
<1>4. CASE p # path[n]
  <2>1. Len(p) < Len(path[n])
    BY <1>1, <1>2, <1>4, SameElements
  <2>2. PICK d \in Steady \cap (Dirs \cup {Root}) : path[d] = SubSeq(path[n], 1, Len(p))
    BY <1>1, <2>1, SteadyAbove
  <2>3. path[d] = p
    <3>1. /\ SubSeq(path[n], 1, Len(p)) \in Seq(Names) /\ Len(SubSeq(path[n], 1, Len(p))) = Len(p)
          /\ \A i \in 1..Len(p) : SubSeq(path[n], 1, Len(p))[i] = path[n][i]
      BY <1>1, <1>2, CutAt
    <3> QED
      BY <1>2, <2>2, <3>1, SameElements
  <2>4. At(p) = d /\ d \in Nodes
    BY <2>3, SteadyFound
  <2>5. d \notin Files
    BY TreeAssumption
  <2> QED
    BY <2>2, <2>3, <2>4, <2>5, RootFirst
<1> QED
  BY <1>3, <1>4

\* A path that readdir gives for the current one leads to what the current one
\* leads to, one name further.
LEMMA ListingLeads ==
    ASSUME SteadyPaths, current \in Seq(Names), NEW d \in Nodes, NEW n \in Steady,
           NEW x \in Listing(d), Leads(x, n)
    PROVE  /\ Leads(current, n) /\ current # path[n]
           /\ x = SubSeq(path[n], 1, Len(current) + 1)
<1>1. PICK m \in Children(d) : x = current \o <<Last(path[m])>> /\ Last(path[m]) \notin Hidden
  BY DEF Listing
<1>2. PICK k \in Nat, a \in Nat, name \in Names :
        k = Len(current) /\ a = Len(path[n]) /\ name = Last(path[m])
  <2>1. path[n] \in Seq(Names)
    BY SteadyFound
  <2>2. PICK p \in Seq(Names) : p = path[m] /\ Len(p) \in Nat /\ Len(p) >= 1
    BY ListingTyped, FrontAt
  <2>3. Last(path[m]) \in Names
    BY <2>2 DEF Last
  <2>4. Len(path[n]) \in Nat /\ Len(current) \in Nat
    BY <2>1
  <2> QED
    BY <2>3, <2>4
<1>3. /\ x \in Seq(Names) /\ Len(x) = k + 1 /\ x[k + 1] = name
      /\ \A i \in 1..k : x[i] = current[i]
  BY <1>1, <1>2
<1>4. /\ path[n] \in Seq(Names) /\ k + 1 <= a /\ \A i \in 1..(k + 1) : x[i] = path[n][i]
      /\ \A i \in (k + 2)..a : path[n][i] \notin Hidden
  <2>1. path[n] \in Seq(Names)
    BY SteadyFound
  <2>2. /\ Len(x) <= Len(path[n]) /\ \A i \in 1..Len(x) : x[i] = path[n][i]
        /\ \A i \in (Len(x) + 1)..Len(path[n]) : path[n][i] \notin Hidden
    BY <1>3, LeadsAt
  <2> QED
    BY <1>2, <1>3, <2>1, <2>2
<1>5. \A i \in (k + 1)..a : path[n][i] \notin Hidden
  <2>1. \A i \in (k + 1)..a : i = k + 1 \/ i \in (k + 2)..a
    OBVIOUS
  <2>2. path[n][k + 1] \notin Hidden
    <3>1. k + 1 \in 1..(k + 1)
      OBVIOUS
    <3> QED
      BY <1>1, <1>2, <1>3, <1>4, <3>1
  <2> QED
    BY <1>4, <2>1, <2>2
<1>6. Leads(current, n)
  <2>1. \A i \in 1..k : current[i] = path[n][i]
    BY <1>3, <1>4
  <2> QED
    BY <1>2, <1>4, <1>5, <2>1, LeadsAt
<1>7. current # path[n]
  BY <1>2, <1>4
<1>8. x = SubSeq(path[n], 1, k + 1)
  <2>1. /\ SubSeq(path[n], 1, k + 1) \in Seq(Names) /\ Len(SubSeq(path[n], 1, k + 1)) = k + 1
        /\ \A i \in 1..(k + 1) : SubSeq(path[n], 1, k + 1)[i] = path[n][i]
    BY <1>2, <1>4, CutAt
  <2> QED
    BY <1>3, <1>4, <2>1, SameElements
<1> QED
  BY <1>2, <1>6, <1>7, <1>8

\* readdir of a directory that has not moved gives the way to all that is below it.
LEMMA ListingHas ==
    ASSUME SteadyPaths, current \in Seq(Names), NEW d \in Nodes, path[d] = current,
           NEW n \in Steady, Leads(current, n), current # path[n]
    PROVE  LET x == SubSeq(path[n], 1, Len(current) + 1) IN
           x \in Listing(d) /\ Leads(x, n)
<1> DEFINE x == SubSeq(path[n], 1, Len(current) + 1)
<1>1. PICK k \in Nat, a \in Nat : k = Len(current) /\ a = Len(path[n])
  BY SteadyFound, Wider
<1>2. /\ path[n] \in Seq(Names) /\ k <= a /\ \A i \in 1..k : current[i] = path[n][i]
      /\ \A i \in (k + 1)..a : path[n][i] \notin Hidden
  <2>1. path[n] \in Seq(Names)
    BY SteadyFound
  <2> QED
    BY <1>1, <2>1, LeadsAt
<1>3. k < a
  <2>1. k = a => current = path[n]
    BY <1>1, <1>2, SameElements
  <2> QED
    BY <1>2, <2>1
<1>4. /\ x \in Seq(Names) /\ Len(x) = k + 1 /\ \A i \in 1..(k + 1) : x[i] = path[n][i]
  BY <1>1, <1>2, <1>3, CutAt
<1>5. PICK c \in Steady : path[c] = x
  <2>1. CASE k + 1 < a
    BY <1>1, <2>1, SteadyAbove
  <2>2. CASE k + 1 = a
    <3>1. x = path[n]
      BY <1>1, <1>2, <1>4, <2>2, SameElements
    <3> QED
      BY <3>1
  <2> QED
    BY <1>3, <2>1, <2>2
<1> HIDE DEF x
<1>6. c \in Nodes /\ c # Root /\ path[c] # <<Nowhere>>
  <2>1. c \in Nodes
    BY SteadyFound
  <2>2. path[Root] = <<>>
    BY DEF SteadyPaths, Tree
  <2>3. Len(path[c]) # 0
    BY <1>4, <1>5
  <2>4. Len(<<>>) = 0
    OBVIOUS
  <2> QED
    BY <1>4, <1>5, <2>1, <2>2, <2>3, <2>4, NamesOnly
<1>7. Front(x) = current /\ Last(x) = path[n][k + 1]
  <2>1. /\ Front(x) \in Seq(Names) /\ Len(Front(x)) = k /\ \A i \in 1..k : Front(x)[i] = x[i]
    <3>1. x # <<>>
      BY <1>4
    <3>2. (k + 1) - 1 = k
      OBVIOUS
    <3> QED
      BY <1>4, <3>1, <3>2, FrontAt
  <2>2. \A i \in 1..k : Front(x)[i] = current[i]
    BY <1>2, <1>4, <2>1
  <2>3. Front(x) = current
    BY <1>1, <2>1, <2>2, SameElements
  <2> QED
    BY <1>4, <2>3 DEF Last
<1>8. c \in Children(d) /\ Last(path[c]) \notin Hidden
  <2>1. k + 1 \in (k + 1)..a
    BY <1>3
  <2> QED
    BY <1>2, <1>5, <1>6, <1>7, <2>1 DEF Children
<1>9. x = current \o <<Last(path[c])>>
  <2>1. PICK name \in Names : name = Last(x) /\ name = x[k + 1]
    <3>1. k + 1 \in 1..Len(x)
      BY <1>4
    <3> QED
      BY <1>4, <3>1 DEF Last
  <2>2. PICK y : y = current \o <<name>>
    OBVIOUS
  <2>3. /\ y \in Seq(Names) /\ Len(y) = k + 1 /\ y[k + 1] = name
        /\ \A i \in 1..k : y[i] = current[i]
    BY <1>1, <2>2
  <2>4. \A i \in 1..(k + 1) : i \in 1..k \/ i = k + 1
    OBVIOUS
  <2>5. \A i \in 1..(k + 1) : x[i] = y[i]
    BY <1>2, <1>4, <2>1, <2>3, <2>4
  <2>6. x = y
    BY <1>4, <2>3, <2>5, SameElements
  <2> QED
    BY <1>5, <2>1, <2>2, <2>6
<1>10. x \in Listing(d)
  BY <1>8, <1>9 DEF Listing
<1>11. Leads(x, n)
  <2>1. \A i \in (k + 2)..a : path[n][i] \notin Hidden
    BY <1>2
  <2> QED
    BY <1>1, <1>3, <1>4, <2>1, LeadsAt
<1> QED
  BY <1>10, <1>11 DEF x

CInv == Sane /\ Knows /\ CoveredOnce

\* Ahead counts the positions on the stack and the current path.
LEMMA AheadSum ==
    ASSUME WalkTypes, NEW n \in Nodes
    PROVE  /\ IsFiniteSet(Positions(n)) /\ Cardinality(Positions(n)) \in Nat
           /\ Ahead(n) = Cardinality(Positions(n)) + (IF Working(n) THEN 1 ELSE 0)
           /\ Ahead(n) \in Nat
<1>1. Len(stack) \in Nat /\ DOMAIN stack = 1..Len(stack)
  BY DEF WalkTypes
<1>2. IsFiniteSet(1..Len(stack))
  <2>1. 1 \in Int /\ Len(stack) \in Int
    BY <1>1
  <2> QED
    BY <2>1, FS_Interval, Zenon
<1>3. IsFiniteSet(Positions(n))
  BY <1>1, <1>2, FS_Subset DEF Positions
<1>4. Cardinality(Positions(n)) \in Nat
  BY <1>3, FS_CardinalityType
<1>5. Ahead(n) = Cardinality(Positions(n)) + (IF Working(n) THEN 1 ELSE 0)
  BY DEF Ahead, Positions, Working
<1> QED
  BY <1>3, <1>4, <1>5

\* The inode's part of CoveredOnce.
Copies(n) == copied[n] + Ahead(n) = (IF Leads(<<>>, n) THEN 1 ELSE 0)
Marks(n) ==
    at # "mark" \/ current # path[n] =>
      (sticky[n] # (n \in FirstMarks) <=> copied[n] = 1)

\* What does not touch the walk leaves it where it is.
LEMMA WalkAlone ==
    ASSUME NEW n \in Nodes, path'[n] = path[n], stack' = stack, current' = current,
           copied'[n] = copied[n], sticky'[n] = sticky[n], Working(n)' <=> Working(n),
           Copies(n), sticky[n] # (n \in FirstMarks) <=> copied[n] = 1
    PROVE  Copies(n)' /\ Marks(n)'
<1>1. \A p : Leads(p, n)' <=> Leads(p, n)
  BY DEF Leads
<1>2. Positions(n)' = Positions(n)
  BY <1>1 DEF Positions
<1>3. /\ Ahead(n) = Cardinality(Positions(n)) + (IF Working(n) THEN 1 ELSE 0)
      /\ Ahead(n)' = Cardinality(Positions(n))' + (IF Working(n)' THEN 1 ELSE 0)
  BY DEF Ahead, Positions, Working
<1> QED
  BY <1>1, <1>2, <1>3 DEF Copies, Marks

\* What is asked of an inode, taken apart and put together.
LEMMA CoveredParts ==
    ASSUME CoveredOnce, Up, NEW n \in Steady
    PROVE  Copies(n) /\ Marks(n)
BY DEF CoveredOnce, Copies, Marks

\* An inode that has not moved after a step had not before it.
LEMMA StillSteady ==
    ASSUME Sane, [Next]_vars, NEW n \in Steady'
    PROVE  n \in Steady /\ n \in Nodes /\ path'[n] = path[n] /\ path[n] \in Seq(Names)
<1>1. n \in Steady /\ path'[n] = path[n]
  BY SteadyStays DEF Sane, TxnLocks, TxnTypes
<1> QED
  BY <1>1, SteadyFound DEF Sane

\* Steps of transactions, and those of the backup that only move it on.
LEMMA CoverAlone ==
    ASSUME CInv, [Next]_vars, UNCHANGED <<stack, current, copied, sticky, path_buf, opened>>,
           \/ at' = at
           \/ at \in {"stat", "lock"} /\ at' \in {"lock", "copy"}
           \/ at \in {"release", "pop"} /\ at' \in {"pop", "done", "crashed"}
    PROVE  Knows' /\ CoveredOnce'
<1>1. Knows'
  <2> SUFFICES ASSUME NEW n \in Steady', current' = path'[n]
               PROVE  /\ at' \in {"stat", "lock", "copy", "mark"} =>
                            path_buf'.ino = n /\ (path_buf'.sticky <=> n \in FirstMarks)
                      /\ at' \in {"mark", "list"} /\ n \notin Files => opened' = n
                      /\ at' = "mark" => copied'[n] = 1
    BY DEF Knows
  <2>1. n \in Steady /\ current = path[n]
    BY StillSteady DEF CInv
  <2> QED
    BY <2>1 DEF CInv, Knows
<1>2. ASSUME Up', NEW n \in Steady' PROVE Copies(n)' /\ Marks(n)'
  <2>1. n \in Steady /\ n \in Nodes /\ path'[n] = path[n]
    BY StillSteady DEF CInv
  <2>2. Up
    BY <1>2 DEF Up
  <2>3. Copies(n) /\ Marks(n)
    BY <2>1, <2>2, CoveredParts DEF CInv
  <2>4. Leads(current, n)' <=> Leads(current, n)
    BY <2>1 DEF Leads
  <2>5. Working(n)' <=> Working(n)
    BY <1>2, <2>1, <2>4 DEF Working, Up
  <2>6. CASE at = "mark" /\ current = path[n]
    <3>1. at' = at
      BY <2>6
    <3>2. \A p : Leads(p, n)' <=> Leads(p, n)
      BY <2>1 DEF Leads
    <3>3. Positions(n)' = Positions(n)
      BY <3>2 DEF Positions
    <3>4. Copies(n)'
      BY <2>3, <2>5, <3>2, <3>3 DEF Copies, Ahead, Positions, Working
    <3> QED
      BY <2>1, <2>6, <3>1, <3>4 DEF Marks
  <2>7. CASE ~(at = "mark" /\ current = path[n])
    <3>1. sticky[n] # (n \in FirstMarks) <=> copied[n] = 1
      BY <2>3, <2>7 DEF Marks
    <3> QED
      BY <2>1, <2>3, <2>5, <3>1, WalkAlone
  <2> QED
    BY <2>6, <2>7
<1>3. CoveredOnce'
  BY <1>2 DEF CoveredOnce, Copies, Marks
<1> QED
  BY <1>1, <1>3

\* The backup takes the next path (pop and the first stat in online_bck).
LEMMA CoverPop ==
    ASSUME CInv, [Next]_vars, Pop
    PROVE  Knows' /\ CoveredOnce'
<1> DEFINE top == Last(stack)
<1>1. /\ at = "pop" /\ stack # <<>> /\ current' = top /\ stack' = Front(stack)
      /\ UNCHANGED <<path, sticky, copied>>
      /\ \/ At(top) = Nowhere /\ at' = at
         \/ /\ At(top) # Nowhere /\ at' = "stat"
            /\ path_buf'.ino = At(top) /\ path_buf'.sticky = sticky[At(top)]
  BY DEF Pop, tree
<1>2. PICK len \in Nat :
        /\ len = Len(stack) /\ len >= 1 /\ DOMAIN stack = 1..len
        /\ Len(Front(stack)) = len - 1 /\ DOMAIN Front(stack) = 1..(len - 1)
        /\ \A i \in 1..(len - 1) : Front(stack)[i] = stack[i]
        /\ top = stack[len] /\ top \in Seq(Names)
  <2>1. PICK s \in Seq(Seq(Names)) : s = stack /\ s # <<>>
    BY <1>1 DEF CInv, Sane, WalkTypes
  <2>2. /\ Front(s) \in Seq(Seq(Names)) /\ Len(Front(s)) = Len(s) - 1
        /\ \A i \in 1..(Len(s) - 1) : Front(s)[i] = s[i]
        /\ Len(s) \in Nat /\ Len(s) >= 1
    BY <2>1, FrontAt
  <2>3. DOMAIN s = 1..Len(s) /\ DOMAIN Front(s) = 1..(Len(s) - 1)
    BY <2>2
  <2>4. Last(s) = s[Len(s)] /\ Last(s) \in Seq(Names)
    BY <2>2 DEF Last
  <2> QED
    BY <2>1, <2>2, <2>3, <2>4
<1> HIDE DEF top
<1>3. SteadyPaths /\ WalkTypes /\ Up
  BY <1>1 DEF CInv, Sane, Up
<1>4. ASSUME NEW n \in Steady'
      PROVE  /\ Copies(n)' /\ Marks(n)'
             /\ Leads(top, n) => copied[n] = 0 /\ (sticky[n] <=> n \in FirstMarks)
  <2>1. n \in Steady /\ n \in Nodes /\ path'[n] = path[n] /\ path[n] \in Seq(Names)
    BY StillSteady DEF CInv
  <2>2. Copies(n) /\ Marks(n)
    BY <1>3, <2>1, CoveredParts DEF CInv
  <2>3. \A p : Leads(p, n)' <=> Leads(p, n)
    BY <2>1 DEF Leads
  <2>4. /\ IsFiniteSet(Positions(n)) /\ Cardinality(Positions(n)) \in Nat
        /\ Ahead(n) = Cardinality(Positions(n)) + (IF Working(n) THEN 1 ELSE 0)
    BY <1>3, <2>1, AheadSum
  <2>5. ~Working(n)
    BY <1>1 DEF Working
  <2>6. Positions(n)' = Positions(n) \ {len}
    <3>1. Positions(n)' = {i \in 1..(len - 1) : Leads(stack[i], n)}
      BY <1>1, <1>2, <2>3 DEF Positions
    <3>2. Positions(n) = {i \in 1..len : Leads(stack[i], n)}
      BY <1>2 DEF Positions
    <3>3. \A i : i \in 1..(len - 1) <=> i \in 1..len /\ i # len
      BY <1>2
    <3> QED
      BY <3>1, <3>2, <3>3
  <2>7. len \in Positions(n) <=> Leads(top, n)
    BY <1>2 DEF Positions
  <2>8. Cardinality(Positions(n)') =
          IF Leads(top, n) THEN Cardinality(Positions(n)) - 1 ELSE Cardinality(Positions(n))
    BY <2>4, <2>6, <2>7, FS_RemoveElement
  <2>9. Working(n)' <=> Leads(top, n)
    <3>1. CASE At(top) = Nowhere
      <4>1. ~Leads(top, n)
        BY <1>2, <1>3, <2>1, <3>1, LeadsFrom
      <4> QED
        BY <1>1, <3>1, <4>1 DEF Working
    <3>2. CASE At(top) # Nowhere
      <4>1. Leads(current, n)' <=> Leads(top, n)
        BY <1>1, <2>1 DEF Leads
      <4> QED
        BY <1>1, <3>2, <4>1 DEF Working
    <3> QED
      BY <3>1, <3>2
  <2>10. Ahead(n)' = Cardinality(Positions(n)') + (IF Working(n)' THEN 1 ELSE 0)
    BY DEF Ahead, Positions, Working
  <2>11. Ahead(n)' = Ahead(n)
    BY <2>4, <2>5, <2>8, <2>9, <2>10
  <2>12. Copies(n)'
    BY <1>1, <2>2, <2>3, <2>11 DEF Copies
  <2>13. sticky[n] # (n \in FirstMarks) <=> copied[n] = 1
    BY <1>1, <2>2 DEF Marks
  <2>14. Marks(n)'
    BY <1>1, <2>13 DEF Marks
  <2>15. Leads(top, n) => copied[n] = 0
    <3>1. Leads(top, n) => Ahead(n) >= 1
      <4>1. len \in Positions(n) => Cardinality(Positions(n)) # 0
        BY <2>4, FS_EmptySet
      <4> QED
        BY <2>4, <2>5, <2>7, <4>1
    <3>2. copied[n] \in Nat /\ Ahead(n) \in Nat
      BY <1>3, <2>1, AheadSum DEF WalkTypes
    <3>3. copied[n] + Ahead(n) <= 1
      BY <2>2 DEF Copies
    <3> QED
      BY <3>1, <3>2, <3>3
  <2>16. Leads(top, n) => (sticky[n] <=> n \in FirstMarks)
    <3>1. sticky[n] \in BOOLEAN
      BY <1>3, <2>1 DEF WalkTypes
    <3>2. copied[n] = 0 => copied[n] # 1
      OBVIOUS
    <3>3. Leads(top, n) => ~(sticky[n] # (n \in FirstMarks))
      BY <2>13, <2>15, <3>2, Zenon
    <3> QED
      BY <3>1, <3>3
  <2> QED
    BY <2>12, <2>14, <2>15, <2>16
<1>5. CoveredOnce'
  BY <1>4 DEF CoveredOnce, Copies, Marks
<1>6. ASSUME NEW n \in Steady', current' = path'[n], at' = "stat"
      PROVE  path_buf'.ino = n /\ (path_buf'.sticky <=> n \in FirstMarks)
  <2>1. n \in Steady /\ path[n] = top
    BY <1>1, <1>6, StillSteady DEF CInv
  <2>2. At(top) = n /\ Leads(top, n)
    BY <1>3, <2>1, SteadyFound, LeadsSelf
  <2>3. path_buf'.ino = n /\ path_buf'.sticky = sticky[n]
    BY <1>1, <1>6, <2>2
  <2> QED
    BY <1>4, <2>2, <2>3
<1>7. Knows'
  BY <1>1, <1>6 DEF Knows
<1> QED
  BY <1>5, <1>7

\* The backup copies what its path leads to (copy_inode, copy_directory, copy_file).
LEMMA CoverCopy ==
    ASSUME CInv, [Next]_vars, Copy
    PROVE  Knows' /\ CoveredOnce'
<1> DEFINE o == At(current)
<1>1. /\ at = "copy" /\ at' = "mark"
      /\ UNCHANGED <<path, stack, current, sticky, path_buf>>
      /\ opened' = IF o \in Dirs \cup {Root} THEN o ELSE Nowhere
      /\ copied' = IF o = Nowhere THEN copied ELSE [copied EXCEPT ![o] = copied[o] + 1]
  BY DEF Copy, tree
<1>2. SteadyPaths /\ WalkTypes /\ Up
  BY <1>1 DEF CInv, Sane, Up
<1> HIDE DEF o
<1>3. ASSUME NEW n \in Steady, current = path[n]
      PROVE  o = n /\ copied'[n] = copied[n] + 1 /\ copied[n] = 0
  <2>1. At(current) = n /\ n \in Nodes /\ Leads(current, n)
    BY <1>2, <1>3, SteadyFound, LeadsSelf
  <2>2. copied'[n] = copied[n] + 1
    BY <1>1, <1>2, <2>1, RootFirst DEF o, WalkTypes
  <2>3. Working(n)
    BY <1>1, <2>1 DEF Working
  <2>4. /\ Cardinality(Positions(n)) \in Nat
        /\ Ahead(n) = Cardinality(Positions(n)) + 1
    BY <1>2, <2>1, <2>3, AheadSum
  <2>5. copied[n] \in Nat /\ copied[n] + Ahead(n) <= 1
    <3>1. Copies(n)
      BY <1>2, <1>3, CoveredParts DEF CInv
    <3> QED
      BY <1>2, <2>1, <3>1 DEF Copies, WalkTypes
  <2> QED
    BY <2>1, <2>2, <2>4, <2>5 DEF o
<1>4. ASSUME NEW n \in Steady, current # path[n]
      PROVE  copied'[n] = copied[n]
  <2>1. o # n
    <3> SUFFICES ASSUME o = n PROVE FALSE
      OBVIOUS
    <3>1. current # <<Nowhere>>
      BY <1>2, NamesOnly DEF WalkTypes
    <3>2. At(current) # Nowhere
      BY <1>2, SteadyFound, RootFirst DEF o
    <3>3. path[At(current)] = current
      BY <1>2, <3>1, <3>2, StatAt DEF At, SteadyPaths
    <3> QED
      BY <1>4, <3>3 DEF o
  <2> QED
    BY <1>1, <1>2, <2>1, SteadyFound DEF WalkTypes
<1>5. ASSUME NEW n \in Steady' PROVE Copies(n)' /\ Marks(n)'
  <2>1. n \in Steady /\ n \in Nodes /\ path'[n] = path[n]
    BY StillSteady DEF CInv
  <2>2. Copies(n) /\ Marks(n)
    BY <1>2, <2>1, CoveredParts DEF CInv
  <2>3. CASE current # path[n]
    <3>1. Working(n)' <=> Working(n)
      BY <1>1, <2>1, <2>3 DEF Working, Leads
    <3>2. copied'[n] = copied[n] /\ (sticky[n] # (n \in FirstMarks) <=> copied[n] = 1)
      BY <1>4, <2>1, <2>2, <2>3 DEF Marks
    <3> QED
      BY <1>1, <2>1, <2>2, <3>1, <3>2, WalkAlone
  <2>4. CASE current = path[n]
    <3>1. Marks(n)'
      BY <1>1, <2>1, <2>4 DEF Marks
    <3>2. \A p : Leads(p, n)' <=> Leads(p, n)
      BY <2>1 DEF Leads
    <3>3. Positions(n)' = Positions(n)
      BY <1>1, <3>2 DEF Positions
    <3>4. Working(n) /\ ~Working(n)'
      <4>1. Leads(current, n)
        BY <1>2, <2>1, <2>4, LeadsSelf
      <4> QED
        BY <1>1, <2>1, <2>4, <4>1 DEF Working
    <3>5. /\ Ahead(n) = Cardinality(Positions(n)) + 1
          /\ Ahead(n)' = Cardinality(Positions(n))
      <4>1. /\ Ahead(n) = Cardinality(Positions(n)) + (IF Working(n) THEN 1 ELSE 0)
            /\ Ahead(n)' = Cardinality(Positions(n))' + (IF Working(n)' THEN 1 ELSE 0)
        BY DEF Ahead, Positions, Working
      <4>2. Cardinality(Positions(n)) \in Nat
        BY <1>2, <2>1, AheadSum
      <4> QED
        BY <3>3, <3>4, <4>1, <4>2
    <3>6. Cardinality(Positions(n)) \in Nat
      BY <1>2, <2>1, AheadSum
    <3>7. copied'[n] + Ahead(n)' = copied[n] + Ahead(n)
      BY <1>3, <2>1, <2>4, <3>5, <3>6
    <3>8. Copies(n)'
      BY <2>2, <3>2, <3>7 DEF Copies
    <3> QED
      BY <3>1, <3>8
  <2> QED
    BY <2>3, <2>4
<1>6. CoveredOnce'
  BY <1>5 DEF CoveredOnce, Copies, Marks
<1>7. ASSUME NEW n \in Steady', current' = path'[n]
      PROVE  /\ path_buf'.ino = n /\ (path_buf'.sticky <=> n \in FirstMarks)
             /\ n \notin Files => opened' = n
             /\ copied'[n] = 1
  <2>1. n \in Steady /\ n \in Nodes /\ current = path[n]
    BY <1>1, <1>7, StillSteady DEF CInv
  <2>2. path_buf.ino = n /\ (path_buf.sticky <=> n \in FirstMarks)
    BY <1>1, <2>1 DEF CInv, Knows
  <2>3. o = n /\ copied'[n] = 1
    BY <1>3, <2>1
  <2>4. n \notin Files => opened' = n
    BY <1>1, <2>1, <2>3 DEF Nodes
  <2> QED
    BY <1>1, <2>2, <2>3, <2>4
<1>8. Knows'
  BY <1>1, <1>7 DEF Knows
<1> QED
  BY <1>6, <1>8

\* The backup marks what its path leads to (mark_as_read).
LEMMA CoverMark ==
    ASSUME CInv, [Next]_vars, MarkAsRead
    PROVE  Knows' /\ CoveredOnce'
<1> DEFINE o == At(current)
<1>1. /\ at = "mark" /\ at' = IF path_buf.ino \in Files THEN "release" ELSE "list"
      /\ UNCHANGED <<path, stack, current, copied, path_buf, opened>>
      /\ sticky' = IF o = Nowhere THEN sticky ELSE [sticky EXCEPT ![o] = ~path_buf.sticky]
  BY DEF MarkAsRead, NewMark
<1>2. SteadyPaths /\ WalkTypes /\ Up
  BY <1>1 DEF CInv, Sane, Up
<1> HIDE DEF o
<1>3. ASSUME NEW n \in Steady, current = path[n]
      PROVE  sticky'[n] # (n \in FirstMarks) /\ copied[n] = 1
  <2>1. o = n /\ n \in Nodes
    BY <1>2, <1>3, SteadyFound DEF o
  <2>2. /\ path_buf.sticky <=> n \in FirstMarks
        /\ copied[n] = 1
    BY <1>1, <1>3 DEF CInv, Knows
  <2>3. sticky'[n] = ~path_buf.sticky
    BY <1>1, <1>2, <2>1, RootFirst DEF WalkTypes
  <2> QED
    BY <2>2, <2>3
<1>4. ASSUME NEW n \in Steady, current # path[n]
      PROVE  sticky'[n] = sticky[n]
  <2>1. o # n
    <3> SUFFICES ASSUME o = n PROVE FALSE
      OBVIOUS
    <3>1. current # <<Nowhere>>
      BY <1>2, NamesOnly DEF WalkTypes
    <3>2. At(current) # Nowhere
      BY <1>2, SteadyFound, RootFirst DEF o
    <3>3. path[At(current)] = current
      BY <1>2, <3>1, <3>2, StatAt DEF At, SteadyPaths
    <3> QED
      BY <1>4, <3>3 DEF o
  <2> QED
    BY <1>1, <1>2, <2>1, SteadyFound DEF WalkTypes
<1>5. ASSUME NEW n \in Steady' PROVE Copies(n)' /\ Marks(n)'
  <2>1. n \in Steady /\ n \in Nodes /\ path'[n] = path[n]
    BY StillSteady DEF CInv
  <2>2. Copies(n) /\ Marks(n)
    BY <1>2, <2>1, CoveredParts DEF CInv
  <2>3. \A p : Leads(p, n)' <=> Leads(p, n)
    BY <2>1 DEF Leads
  <2>4. Leads(current, n)' <=> Leads(current, n)
    BY <1>1, <2>1 DEF Leads
  <2>5. Positions(n)' = Positions(n)
    BY <1>1, <2>3 DEF Positions
  <2>6. Working(n)' <=> Working(n)
    <3>1. CASE Leads(current, n) /\ current # path[n]
      <4>1. PICK d \in Steady : path[d] = current /\ d \notin Files
        BY <1>2, <2>1, <3>1, LeadsFrom DEF WalkTypes
      <4>2. path_buf.ino = d
        BY <1>1, <4>1 DEF CInv, Knows
      <4>3. at' = "list"
        BY <1>1, <4>1, <4>2
      <4> QED
        BY <1>1, <2>1, <2>4, <3>1, <4>3 DEF Working
    <3>2. CASE ~(Leads(current, n) /\ current # path[n])
      BY <1>1, <2>1, <2>4, <3>2 DEF Working
    <3> QED
      BY <3>1, <3>2
  <2>7. Ahead(n)' = Ahead(n)
    <3>1. /\ Ahead(n) = Cardinality(Positions(n)) + (IF Working(n) THEN 1 ELSE 0)
          /\ Ahead(n)' = Cardinality(Positions(n))' + (IF Working(n)' THEN 1 ELSE 0)
      BY DEF Ahead, Positions, Working
    <3> QED
      BY <2>5, <2>6, <3>1
  <2>8. Copies(n)'
    BY <1>1, <2>2, <2>3, <2>7 DEF Copies
  <2>9. sticky'[n] # (n \in FirstMarks) <=> copied[n] = 1
    <3>1. CASE current = path[n]
      BY <1>3, <2>1, <3>1
    <3>2. CASE current # path[n]
      <4>1. sticky'[n] = sticky[n]
        BY <1>4, <2>1, <3>2
      <4>2. sticky[n] # (n \in FirstMarks) <=> copied[n] = 1
        BY <2>2, <3>2 DEF Marks
      <4> QED
        BY <4>1, <4>2
    <3> QED
      BY <3>1, <3>2
  <2>10. Marks(n)'
    BY <1>1, <2>9 DEF Marks
  <2> QED
    BY <2>8, <2>10
<1>6. CoveredOnce'
  BY <1>5 DEF CoveredOnce, Copies, Marks
<1>7. ASSUME NEW n \in Steady', current' = path'[n], n \notin Files
      PROVE  opened' = n
  <2>1. n \in Steady /\ current = path[n]
    BY <1>1, <1>7, StillSteady DEF CInv
  <2> QED
    BY <1>1, <1>7, <2>1 DEF CInv, Knows
<1>8. Knows'
  BY <1>1, <1>7 DEF Knows
<1> QED
  BY <1>6, <1>8

\* Pushing what readdir gives turns the work on an inode into one position on
\* the stack.
LEMMA ListedOnce ==
    ASSUME SteadyPaths, WalkTypes, at = "list", opened \in Nodes,
           NEW s \in SetToSeqs(Listing(opened)), stack' = stack \o s,
           NEW n \in Steady, path'[n] = path[n],
           current # path[n] /\ Leads(current, n) => path[opened] = current
    PROVE  /\ IsFiniteSet(Positions(n)) /\ Cardinality(Positions(n)) \in Nat
           /\ Cardinality(Positions(n)') = Cardinality(Positions(n)) + (IF Working(n) THEN 1 ELSE 0)
<1>1. n \in Nodes
  BY SteadyFound
<1>2. IsFiniteSet(Positions(n)) /\ Cardinality(Positions(n)) \in Nat
  BY <1>1, AheadSum
<1>3. Listing(opened) \subseteq Seq(Names) /\ IsFiniteSet(Listing(opened))
  BY ListingTyped DEF WalkTypes
<1>4. PICK len \in Nat, k \in Nat :
        /\ len = Len(stack) /\ k = Len(s)
        /\ s \in Seq(Listing(opened))
        /\ \A i, j \in 1..k : s[i] = s[j] => i = j
        /\ \A x \in Listing(opened) : \E i \in 1..k : s[i] = x
  <2>1. /\ s \in Seq(Listing(opened)) /\ Len(s) \in Nat
        /\ \A i, j \in 1..Len(s) : s[i] = s[j] => i = j
        /\ \A x \in Listing(opened) : \E i \in 1..Len(s) : s[i] = x
    <3> DEFINE S == Listing(opened)
    <3>1. IsFiniteSet(S) /\ s \in SetToSeqs(S)
      BY <1>3
    <3> HIDE DEF S
    <3>2. s \in Seq(S) /\ Len(s) = Cardinality(S) /\ Cardinality(S) \in Nat
      BY <3>1, SeqOfSet
    <3>3. ASSUME NEW i \in 1..Len(s), NEW j \in 1..Len(s), s[i] = s[j] PROVE i = j
      BY <3>1, <3>3, SeqOfSet
    <3>4. ASSUME NEW x \in S PROVE \E i \in 1..Len(s) : s[i] = x
      BY <3>1, <3>4, SeqOfSet
    <3> QED
      BY <3>2, <3>3, <3>4 DEF S
  <2>2. Len(stack) \in Nat
    BY DEF WalkTypes
  <2> QED
    BY <2>1, <2>2
<1>5. /\ DOMAIN stack = 1..len /\ DOMAIN stack' = 1..(len + k)
      /\ \A i \in 1..len : stack'[i] = stack[i]
      /\ \A i \in 1..k : stack'[len + i] = s[i]
      /\ \A i \in 1..k : s[i] \in Listing(opened)
  <2>1. stack \in Seq(Seq(Names)) /\ s \in Seq(Seq(Names))
    BY <1>3, <1>4 DEF WalkTypes
  <2>2. \A i \in 1..k : s[i] \in Listing(opened)
    BY <1>4
  <2> QED
    BY <1>4, <2>1, <2>2
<1>6. \A p : Leads(p, n)' <=> Leads(p, n)
  BY DEF Leads
<1>7. Positions(n) = {i \in 1..len : Leads(stack[i], n)}
  BY <1>5 DEF Positions
<1>8. Positions(n)' = {i \in 1..(len + k) : Leads(stack'[i], n)}
  BY <1>5, <1>6 DEF Positions
<1>9. \A i : i \in 1..(len + k) <=> i \in 1..len \/ \E j \in 1..k : i = len + j
  <2>1. ASSUME NEW i \in 1..(len + k), i \notin 1..len PROVE \E j \in 1..k : i = len + j
    <3>1. i - len \in 1..k /\ i = len + (i - len)
      BY <2>1
    <3> QED
      BY <3>1
  <2>2. \A i : (i \in 1..len \/ \E j \in 1..k : i = len + j) => i \in 1..(len + k)
    OBVIOUS
  <2> QED
    BY <2>1, <2>2
<1>10. CASE Working(n)
  <2>1. Leads(current, n) /\ current # path[n] /\ path[opened] = current
    BY <1>10 DEF Working
  <2>2. PICK x \in Listing(opened) : x = SubSeq(path[n], 1, Len(current) + 1) /\ Leads(x, n)
    BY <2>1, ListingHas DEF WalkTypes
  <2>3. PICK j \in 1..k : s[j] = x
    BY <1>4, <2>2
  <2>4. \A i \in 1..k : Leads(s[i], n) <=> i = j
    <3>1. ASSUME NEW i \in 1..k, Leads(s[i], n) PROVE i = j
      <4>1. s[i] = x
        BY <1>5, <2>2, <3>1, ListingLeads DEF WalkTypes
      <4> QED
        BY <1>4, <2>3, <4>1
    <3> QED
      BY <2>2, <2>3, <3>1
  <2>5. Positions(n)' = Positions(n) \cup {len + j}
    <3>1. \A i \in 1..len : Leads(stack'[i], n) <=> Leads(stack[i], n)
      BY <1>5
    <3>2. \A i \in 1..k : Leads(stack'[len + i], n) <=> i = j
      BY <1>5, <2>4
    <3> QED
      BY <1>7, <1>8, <1>9, <3>1, <3>2
  <2>6. len + j \notin Positions(n)
    BY <1>7
  <2> QED
    BY <1>2, <1>10, <2>5, <2>6, FS_AddElement
<1>11. CASE ~Working(n)
  <2>1. \A i \in 1..k : ~Leads(s[i], n)
    <3>1. ~(Leads(current, n) /\ current # path[n])
      BY <1>11 DEF Working
    <3> QED
      BY <1>5, <3>1, ListingLeads DEF WalkTypes
  <2>2. Positions(n)' = Positions(n)
    <3>1. \A i \in 1..len : Leads(stack'[i], n) <=> Leads(stack[i], n)
      BY <1>5
    <3>2. \A i \in 1..k : ~Leads(stack'[len + i], n)
      BY <1>5, <2>1
    <3> QED
      BY <1>7, <1>8, <1>9, <3>1, <3>2
  <2> QED
    BY <1>2, <1>11, <2>2
<1> QED
  BY <1>2, <1>10, <1>11

\* The backup pushes what readdir gives (the loop over readdir in online_bck).
LEMMA CoverList ==
    ASSUME CInv, [Next]_vars, List
    PROVE  Knows' /\ CoveredOnce'
<1>1. /\ at = "list" /\ at' \in {"release", "crashed", "overrun"}
      /\ UNCHANGED <<path, current, sticky, copied>>
      /\ at' = "release" =>
            /\ opened # Nowhere
            /\ \E s \in SetToSeqs(Listing(opened)) : stack' = stack \o s
  BY DEF List, tree
<1>2. SteadyPaths /\ WalkTypes /\ Up
  BY <1>1 DEF CInv, Sane, Up
<1>3. Knows'
  BY <1>1 DEF Knows
<1>4. ASSUME at' = "release", NEW n \in Steady' PROVE Copies(n)' /\ Marks(n)'
  <2>1. n \in Steady /\ n \in Nodes /\ path'[n] = path[n]
    BY <1>4, StillSteady DEF CInv
  <2>2. Copies(n) /\ Marks(n)
    BY <1>2, <2>1, CoveredParts DEF CInv
  <2>3. opened \in Nodes
    BY <1>1, <1>2, <1>4 DEF WalkTypes, Nodes
  <2>4. current # path[n] /\ Leads(current, n) => path[opened] = current
    <3> SUFFICES ASSUME current # path[n], Leads(current, n) PROVE path[opened] = current
      OBVIOUS
    <3>1. PICK d \in Steady : path[d] = current /\ d \notin Files
      BY <1>2, <2>1, LeadsFrom DEF WalkTypes
    <3>2. opened = d
      BY <1>1, <3>1 DEF CInv, Knows
    <3> QED
      BY <3>1, <3>2
  <2>5. PICK s \in SetToSeqs(Listing(opened)) : stack' = stack \o s
    BY <1>1, <1>4
  <2>6. /\ Cardinality(Positions(n)) \in Nat
        /\ Cardinality(Positions(n)') = Cardinality(Positions(n)) + (IF Working(n) THEN 1 ELSE 0)
    BY <1>1, <1>2, <2>1, <2>3, <2>4, <2>5, ListedOnce
  <2>7. ~Working(n)'
    BY <1>4 DEF Working
  <2>8. /\ Ahead(n) = Cardinality(Positions(n)) + (IF Working(n) THEN 1 ELSE 0)
        /\ Ahead(n)' = Cardinality(Positions(n)') + (IF Working(n)' THEN 1 ELSE 0)
    BY DEF Ahead, Positions, Working
  <2>9. Ahead(n)' = Ahead(n)
    BY <2>6, <2>7, <2>8
  <2>10. Leads(<<>>, n)' <=> Leads(<<>>, n)
    BY <2>1 DEF Leads
  <2>11. Copies(n)'
    BY <1>1, <2>2, <2>9, <2>10 DEF Copies
  <2>12. Marks(n)'
    BY <1>1, <2>2 DEF Marks
  <2> QED
    BY <2>11, <2>12
<1>5. CoveredOnce'
  <2>1. Up' => at' = "release"
    BY <1>1 DEF Up
  <2> QED
    BY <1>4, <2>1 DEF CoveredOnce, Copies, Marks
<1> QED
  BY <1>3, <1>5

\* When the backup begins, the whole tree is ahead of it, below the root.
LEMMA CoverInit == Init => CInv
<1> SUFFICES ASSUME Init PROVE CInv
  OBVIOUS
<1>1. Sane
  BY SaneInit
<1>2. WalkTypes /\ at = "pop" /\ Up
  BY <1>1 DEF Sane, Init, Up
<1>3. stack = <<<<>>>> /\ DOMAIN stack = {1} /\ stack[1] = <<>>
  BY TreeAssumption DEF Init
<1>4. ASSUME NEW n \in Steady PROVE Copies(n) /\ Marks(n)
  <2>1. n \in Nodes
    BY DEF Steady
  <2>2. ~Working(n)
    BY <1>2 DEF Working
  <2>3. Ahead(n) = Cardinality(Positions(n)) + 0 /\ Cardinality(Positions(n)) \in Nat
    BY <1>2, <2>1, <2>2, AheadSum
  <2>4. Positions(n) = IF Leads(<<>>, n) THEN {1} ELSE {}
    BY <1>3 DEF Positions
  <2>5. Cardinality({1}) = 1 /\ Cardinality({}) = 0
    BY FS_Singleton, FS_EmptySet
  <2>6. copied[n] = 0
    BY <2>1 DEF Init
  <2>7. Copies(n)
    BY <2>3, <2>4, <2>5, <2>6 DEF Copies
  <2>8. Marks(n)
    BY <2>1, <2>6 DEF Marks, Init
  <2> QED
    BY <2>7, <2>8
<1>5. CoveredOnce
  BY <1>4 DEF CoveredOnce, Copies, Marks
<1>6. Knows
  BY <1>2 DEF Knows, Init
<1> QED
  BY <1>1, <1>5, <1>6 DEF CInv

\* Every step keeps it.
LEMMA CoverNext == CInv /\ [Next]_vars => CInv'
<1> SUFFICES ASSUME CInv, [Next]_vars PROVE CInv'
  OBVIOUS
<1>1. Sane'
  BY SaneNext DEF CInv
<1>2. Knows' /\ CoveredOnce'
  <2>1. CASE Pop
    BY <2>1, CoverPop
  <2>2. CASE Copy
    BY <2>2, CoverCopy
  <2>3. CASE MarkAsRead
    BY <2>3, CoverMark
  <2>4. CASE List
    BY <2>4, CoverList
  <2>5. CASE StatAgain \/ LockPath \/ Release \/ Done
    <3>1. UNCHANGED <<stack, current, copied, sticky, path_buf, opened>>
      BY <2>5 DEF StatAgain, LockPath, Release, Done, tree
    <3>2. \/ at \in {"stat", "lock"} /\ at' \in {"lock", "copy"}
          \/ at \in {"release", "pop"} /\ at' \in {"pop", "done", "crashed"}
      BY <2>5 DEF StatAgain, LockPath, Release, Done
    <3> QED
      BY <3>1, <3>2, CoverAlone
  <2>6. CASE UNCHANGED vars
    <3>1. UNCHANGED <<stack, current, copied, sticky, path_buf, opened, at>>
      BY <2>6 DEF vars, walk, tree
    <3> QED
      BY <3>1, CoverAlone
  <2>7. CASE \E t \in Txns : (\E c \in Calls : Begin(t, c)) \/ Lock(t) \/ Abort(t) \/ Commit(t)
    <3>1. UNCHANGED <<stack, current, copied, sticky, path_buf, opened, at>>
      BY <2>7 DEF Begin, Lock, Abort, Commit, Ended, walk, tree
    <3> QED
      BY <3>1, CoverAlone
  <2> QED
    BY <2>1, <2>2, <2>3, <2>4, <2>5, <2>6, <2>7 DEF Next, BackupStep
<1> QED
  BY <1>1, <1>2 DEF CInv

\* The walk has each inode that has not moved either behind it, copied once and
\* with its mark turned, or ahead of it on exactly one of its paths, whatever
\* the transactions rename and unlink around it.  (online_bck.)
THEOREM WalkCovers == Spec => []CoveredOnce
<1>1. CInv => CoveredOnce
  BY DEF CInv
<1> QED
  BY <1>1, CoverInit, CoverNext, PTL DEF Spec
=============================================================================
