------------------------- MODULE LockManagerProofs -------------------------
(***************************************************************************)
(* Proofs about LockManager, for every set of transactions, files and      *)
(* calls, every walk of the backup and every value of the read bits.       *)
(***************************************************************************)
EXTENDS LockManager, FiniteSetTheorems, TLAPS

InCall == {"call", "wait", "woken", "paused"}

On(x, s) == \E i \in 1..Len(s) : s[i] = x

Distinct(s) == \A i, j \in 1..Len(s) : s[i] = s[j] => i = j

(***************************************************************************)
(* The inductive invariant, in parts.                                      *)
(***************************************************************************)

\* A thread inside insert_file_list has a request; one that has not begun or
\* has released has no lock.
Control ==
    \A t \in Txns :
        /\ pc[t] \in InCall => todo[t] # <<>>
        /\ pc[t] \in {"idle", "ending", "done"} =>
              \A f \in Files : held[t][f] = Unlocked

\* The backup asks for the file it stands at and has no other.
BackupControl ==
    /\ pc[Backup] \notin {"paused", "commit", "abort", "ending"}
    /\ fallible[Backup] = FALSE
    /\ pc[Backup] \in {"call", "wait", "woken"} =>
          /\ \A f \in Files : held[Backup][f] = Unlocked
          /\ walk # <<>>
          /\ todo[Backup] = <<Want(Head(walk), Exclusive)>>
    /\ pc[Backup] = "run" =>
          \A f \in Files : held[Backup][f] # Unlocked => walk # <<>> /\ f = Head(walk)

\* What TraceDiscipline established still holds of the requests to come.
Discipline ==
    \A t \in Txns : pc[t] \in InCall =>
        /\ \A i \in 1..Len(todo[t]) : held[t][todo[t][i].inode] # Shared
        /\ SharedOnce(todo[t])

\* The nodes of an inode: their owners have locks, each owner has one node, an
\* exclusive owner has the only one, and nobody else has a lock as long as no
\* freed node was used.
Nodes ==
    \A f \in Files :
        /\ \A i \in 1..Len(lockList[f]) : held[lockList[f][i]][f] # Unlocked
        /\ Distinct(lockList[f])
        /\ \A t \in Txns : held[t][f] = Exclusive => lockList[f] = <<t>>
        /\ heap # "used" => \A t \in Txns : held[t][f] # Unlocked => On(t, lockList[f])

IInv == TypeOK /\ Control /\ BackupControl /\ Discipline /\ Nodes

-----------------------------------------------------------------------------
(***************************************************************************)
(* Sequences.                                                              *)
(***************************************************************************)

\* delete_file_list takes out the node of e and nothing else.
LEMMA WithoutProperties ==
    ASSUME NEW S, NEW s \in Seq(S), NEW e, Distinct(s)
    PROVE  /\ Without(s, e) \in Seq(S)
           /\ Distinct(Without(s, e))
           /\ \A x : On(x, Without(s, e)) <=> On(x, s) /\ x # e
<1>1. CASE ~On(e, s)
  BY <1>1 DEF Without, On
<1>2. CASE On(e, s)
  <2> DEFINE k == CHOOSE i \in 1..Len(s) : s[i] = e
             w == [i \in 1..Len(s) - 1 |-> IF i < k THEN s[i] ELSE s[i + 1]]
  <2>1. Without(s, e) = w
    BY <1>2 DEF Without, On
  <2>2. k \in 1..Len(s) /\ s[k] = e
    BY <1>2 DEF On
  <2> HIDE DEF k
  <2>3. Len(s) \in Nat /\ Len(s) >= 1
    BY <2>2
  <2>4. w \in Seq(S) /\ Len(w) = Len(s) - 1
    <3>1. \A i \in 1..Len(s) - 1 : w[i] \in S
      BY <2>2, <2>3
    <3>2. w \in [1..Len(s) - 1 -> S]
      BY <3>1
    <3> QED BY <2>3, <3>2
  <2>5. Distinct(w)
    BY <2>2, <2>3, <2>4 DEF Distinct
  <2>6. ASSUME NEW x PROVE On(x, w) <=> On(x, s) /\ x # e
    <3>1. ASSUME On(x, w) PROVE On(x, s) /\ x # e
      <4>1. PICK i \in 1..Len(s) - 1 : w[i] = x
        BY <3>1, <2>4 DEF On
      <4>2. CASE i < k
        BY <4>1, <4>2, <2>2, <2>3 DEF On, Distinct
      <4>3. CASE ~(i < k)
        <5>1. x = s[i + 1] /\ i + 1 \in 1..Len(s) /\ i + 1 # k
          BY <4>1, <4>3, <2>2, <2>3
        <5> QED BY <5>1, <2>2 DEF On, Distinct
      <4> QED BY <4>2, <4>3
    <3>2. ASSUME On(x, s), x # e PROVE On(x, w)
      <4>1. PICK i \in 1..Len(s) : s[i] = x
        BY <3>2 DEF On
      <4>2. i # k
        BY <4>1, <3>2, <2>2
      <4>3. CASE i < k
        <5>1. i \in 1..Len(w) /\ w[i] = x
          BY <4>1, <4>3, <2>2, <2>3, <2>4
        <5> QED BY <5>1 DEF On
      <4>4. CASE i > k
        <5>1. i - 1 \in 1..Len(w) /\ w[i - 1] = x
          BY <4>1, <4>4, <2>2, <2>3, <2>4
        <5> QED BY <5>1 DEF On
      <4> QED BY <4>2, <4>3, <4>4, <2>2
    <3> QED BY <3>1, <3>2
  <2> QED BY <2>1, <2>4, <2>5, <2>6
<1> QED BY <1>1, <1>2

\* insert_file_list puts a new node among the nodes of the inode.
LEMMA InsertProperties ==
    ASSUME NEW S, NEW s \in Seq(S), NEW e \in S, NEW k \in 0..Len(s),
           Distinct(s), ~On(e, s)
    PROVE  /\ InsertAfter(s, k, e) \in Seq(S)
           /\ Distinct(InsertAfter(s, k, e))
           /\ \A x : On(x, InsertAfter(s, k, e)) <=> On(x, s) \/ x = e
<1> DEFINE n == Len(s) + 1
           w == [i \in 1..n |-> IF i <= k THEN s[i]
                                ELSE IF i = k + 1 THEN e ELSE s[i - 1]]
<1>1. InsertAfter(s, k, e) = w
  BY DEF InsertAfter
<1>2. Len(s) \in Nat
  OBVIOUS
<1>3. w \in Seq(S) /\ Len(w) = n
  <2>1. \A i \in 1..n : w[i] \in S
    BY <1>2
  <2> QED BY <1>2, <2>1
<1>4. Distinct(w)
  BY <1>2, <1>3 DEF Distinct, On
<1>5. ASSUME NEW x PROVE On(x, w) <=> On(x, s) \/ x = e
  <2>1. ASSUME On(x, w) PROVE On(x, s) \/ x = e
    BY <2>1, <1>2, <1>3 DEF On
  <2>2. ASSUME x = e PROVE On(x, w)
    <3>1. k + 1 \in 1..Len(w) /\ w[k + 1] = x
      BY <2>2, <1>2, <1>3
    <3> QED BY <3>1 DEF On
  <2>3. ASSUME On(x, s) PROVE On(x, w)
    <3>1. PICK i \in 1..Len(s) : s[i] = x
      BY <2>3 DEF On
    <3>2. CASE i <= k
      <4>1. i \in 1..Len(w) /\ w[i] = x
        BY <3>1, <3>2, <1>2, <1>3
      <4> QED BY <4>1 DEF On
    <3>3. CASE i > k
      <4>1. i + 1 \in 1..Len(w) /\ w[i + 1] = x
        BY <3>1, <3>3, <1>2, <1>3
      <4> QED BY <4>1 DEF On
    <3> QED BY <3>2, <3>3, <1>2
  <2> QED BY <2>1, <2>2, <2>3
<1> QED BY <1>1, <1>3, <1>4, <1>5

\* A call with more than one request left has one after the first.
LEMMA TailNonEmpty ==
    ASSUME NEW S, NEW s \in Seq(S), Len(s) > 1
    PROVE  Tail(s) # <<>>
<1> SUFFICES ASSUME NEW u, u = Tail(s) PROVE u # <<>>
  OBVIOUS
<1>1. u \in Seq(S) /\ Len(u) = Len(s) - 1 /\ Len(s) \in Nat
  OBVIOUS
<1>2. Len(u) > 0
  BY <1>1
<1>3. Len(<<>>) = 0
  OBVIOUS
<1>4. ~(0 > 0)
  OBVIOUS
<1> QED BY <1>2, <1>3, <1>4, Zenon

-----------------------------------------------------------------------------
(***************************************************************************)
(* Steps.  The facts that several actions share come first.                *)
(***************************************************************************)

\* The request a thread stands at, and the rest of its call.
LEMMA Requests ==
    ASSUME TypeOK, Control, NEW t \in Txns, pc[t] \in InCall
    PROVE  /\ Req(t) \in Request /\ Req(t) = todo[t][1]
           /\ Len(todo[t]) \in Nat /\ Len(todo[t]) >= 1
           /\ Tail(todo[t]) \in Seq(Request)
           /\ Len(Tail(todo[t])) = Len(todo[t]) - 1
           /\ \A i \in 1..Len(todo[t]) - 1 : Tail(todo[t])[i] = todo[t][i + 1]
<1>1. todo[t] \in Seq(Request) /\ todo[t] # <<>>
  BY DEF TypeOK, Control
<1> QED BY <1>1 DEF Req

\* Returning from insert_file_list with a lock keeps the control invariants.
LEMMA ProceedKeeps ==
    ASSUME TypeOK, Control, BackupControl, Discipline,
           NEW t \in Txns, EntersInsert(t), Proceed(t),
           \/ held' = held
           \/ held' = [held EXCEPT ![t][Req(t).inode] = Req(t).mode]
    PROVE  /\ pc' \in [Txns -> PC] /\ todo' \in [Txns -> Seq(Request)]
           /\ mutex' \in Txns \cup {NoTxn}
           /\ held' \in [Txns -> [Files -> {Unlocked, Shared, Exclusive}]]
           /\ Control' /\ BackupControl' /\ Discipline'
<1>1. pc[t] = "call" /\ pc[t] \in InCall
  BY DEF EntersInsert, InCall
<1> DEFINE f == Req(t).inode
<1>2. /\ Req(t) \in Request /\ Req(t) = todo[t][1]
      /\ Len(todo[t]) \in Nat /\ Len(todo[t]) >= 1
      /\ Tail(todo[t]) \in Seq(Request)
      /\ Len(Tail(todo[t])) = Len(todo[t]) - 1
      /\ \A i \in 1..Len(todo[t]) - 1 : Tail(todo[t])[i] = todo[t][i + 1]
  BY <1>1, Requests
<1>3. f \in Files /\ Req(t).mode \in {Shared, Exclusive}
  BY <1>2 DEF Request
<1>4. held' \in [Txns -> [Files -> {Unlocked, Shared, Exclusive}]]
  <2>1. held \in [Txns -> [Files -> {Unlocked, Shared, Exclusive}]]
    BY DEF TypeOK
  <2>2. CASE held' = held
    BY <2>1, <2>2
  <2>3. CASE held' = [held EXCEPT ![t][Req(t).inode] = Req(t).mode]
    BY <2>1, <2>3, <1>3
  <2> QED BY <2>2, <2>3
<1>5. /\ pc' \in [Txns -> PC] /\ todo' \in [Txns -> Seq(Request)]
      /\ mutex' \in Txns \cup {NoTxn}
  BY <1>2 DEF Proceed, TypeOK, PC
<1>6. \A u \in Txns : u # t => pc'[u] = pc[u] /\ todo'[u] = todo[u] /\ held'[u] = held[u]
  BY <1>3 DEF Proceed, TypeOK
<1>7. /\ todo'[t] = Tail(todo[t])
      /\ pc'[t] \in {"call", "run", "abort"}
      /\ pc'[t] = "call" => Len(todo[t]) > 1
      /\ pc'[t] = "abort" => fallible[t]
      /\ fallible' = fallible /\ walk' = walk
  BY <1>1, <1>2 DEF Proceed, TypeOK
<1>8. Control'
  <2>1. pc'[t] = "call" => todo'[t] # <<>>
    <3>1. todo[t] \in Seq(Request)
      BY DEF TypeOK
    <3> QED BY <3>1, <1>7, TailNonEmpty
  <2>2. ASSUME NEW u \in Txns
        PROVE  /\ pc'[u] \in InCall => todo'[u] # <<>>
               /\ pc'[u] \in {"idle", "ending", "done"} =>
                     \A g \in Files : held'[u][g] = Unlocked
    <3>1. CASE u = t
      BY <3>1, <2>1, <1>7 DEF InCall
    <3>2. CASE u # t
      BY <3>2, <1>6 DEF Control
    <3> QED BY <3>1, <3>2
  <2> QED BY <2>2 DEF Control
<1>9. Discipline'
  <2>1. ASSUME NEW i \in 1..Len(todo'[t])
        PROVE  held'[t][todo'[t][i].inode] # Shared
    <3>1. i + 1 \in 1..Len(todo[t]) /\ todo'[t][i] = todo[t][i + 1] /\ 1 \in 1..Len(todo[t])
      BY <1>2, <1>7
    <3>2. todo[t][i + 1].inode = f => Req(t).mode # Shared
      <4>1. SharedOnce(todo[t])
        BY <1>1 DEF Discipline
      <4>2. 1 < i + 1
        BY <1>2, <1>7
      <4> QED BY <3>1, <4>1, <4>2, <1>2 DEF SharedOnce
    <3>3. held[t][todo[t][i + 1].inode] # Shared
      BY <3>1, <1>1 DEF Discipline
    <3>4. todo[t][i + 1] \in Request
      BY <3>1 DEF TypeOK
    <3>5. todo[t][i + 1].inode \in Files
      BY <3>4 DEF Request
    <3> QED BY <3>1, <3>2, <3>3, <3>5, <1>3 DEF TypeOK
  <2>2. SharedOnce(todo'[t])
    <3> SUFFICES ASSUME NEW i \in 1..Len(todo'[t]), NEW j \in 1..Len(todo'[t]),
                        i < j, todo'[t][i].mode = Shared
                 PROVE  todo'[t][i].inode # todo'[t][j].inode
      BY DEF SharedOnce
    <3>1. /\ i + 1 \in 1..Len(todo[t]) /\ j + 1 \in 1..Len(todo[t])
          /\ todo'[t][i] = todo[t][i + 1] /\ todo'[t][j] = todo[t][j + 1]
      BY <1>2, <1>7
    <3> QED BY <3>1, <1>1 DEF Discipline, SharedOnce
  <2> QED BY <2>1, <2>2, <1>6 DEF Discipline, InCall
<1>10. BackupControl'
  <2>1. CASE t # Backup
    BY <2>1, <1>6, <1>7 DEF BackupControl, Txns
  <2>2. CASE t = Backup
    <3>1. todo[t] = <<Want(Head(walk), Exclusive)>> /\ walk # <<>>
      BY <2>2, <1>1 DEF BackupControl
    <3>2. Len(todo[t]) = 1 /\ f = Head(walk)
      BY <3>1, <1>2 DEF Want
    <3>3. pc'[t] = "run"
      BY <3>2, <1>7, <2>2 DEF BackupControl
    <3>4. \A g \in Files : g # f => held'[t][g] = Unlocked
      BY <2>2, <1>1, <1>3 DEF BackupControl, TypeOK
    <3> QED BY <2>2, <3>1, <3>2, <3>3, <3>4, <1>7 DEF BackupControl
  <2> QED BY <2>1, <2>2
<1> QED BY <1>4, <1>5, <1>8, <1>9, <1>10

\* The release loops give up t's nodes on the files F and leave the others.
LEMMA ReleaseKeeps ==
    ASSUME TypeOK, Nodes, NEW t \in Txns, NEW F \in SUBSET Files, ReleaseNodes(t, F)
    PROVE  /\ lockList' \in [Files -> Seq(Txns)]
           /\ held' \in [Txns -> [Files -> {Unlocked, Shared, Exclusive}]]
           /\ psr' \in [Txns -> [Files -> Txns \cup {NoTxn}]]
           /\ nsr' \in [Txns -> [Files -> Txns \cup {NoTxn}]]
           /\ heap' \in {"sound", "dangling", "used"}
           /\ heap = "used" => heap' = "used"
           /\ \A u \in Txns : u # t => held'[u] = held[u]
           /\ \A f \in Files : held'[t][f] = IF f \in F THEN Unlocked ELSE held[t][f]
           /\ Nodes'
<1>1. \A f \in F : /\ Without(lockList[f], t) \in Seq(Txns)
                   /\ Distinct(Without(lockList[f], t))
                   /\ \A x : On(x, Without(lockList[f], t)) <=> On(x, lockList[f]) /\ x # t
  BY WithoutProperties DEF TypeOK, Nodes
<1>2. lockList' \in [Files -> Seq(Txns)]
  BY <1>1 DEF ReleaseNodes, TypeOK
<1>3. held' \in [Txns -> [Files -> {Unlocked, Shared, Exclusive}]]
  BY DEF ReleaseNodes, TypeOK
<1>4. /\ psr' \in [Txns -> [Files -> Txns \cup {NoTxn}]]
      /\ nsr' \in [Txns -> [Files -> Txns \cup {NoTxn}]]
  <2>1. psr \in [Txns -> [Files -> Txns \cup {NoTxn}]] /\ nsr \in [Txns -> [Files -> Txns \cup {NoTxn}]]
    BY DEF TypeOK
  <2> QED BY <2>1 DEF ReleaseNodes
<1>5. heap' \in {"sound", "dangling", "used"} /\ (heap = "used" => heap' = "used")
  BY DEF ReleaseNodes, TypeOK
<1>6. \A u \in Txns : u # t => held'[u] = held[u]
  BY DEF ReleaseNodes, TypeOK
<1>7. \A f \in Files : held'[t][f] = IF f \in F THEN Unlocked ELSE held[t][f]
  BY DEF ReleaseNodes, TypeOK
<1>8. \A f \in Files : lockList'[f] = IF f \in F THEN Without(lockList[f], t) ELSE lockList[f]
  BY DEF ReleaseNodes
<1>9. ASSUME NEW f \in Files
      PROVE  /\ \A i \in 1..Len(lockList'[f]) : held'[lockList'[f][i]][f] # Unlocked
             /\ Distinct(lockList'[f])
             /\ \A u \in Txns : held'[u][f] = Exclusive => lockList'[f] = <<u>>
             /\ heap' # "used" => \A u \in Txns : held'[u][f] # Unlocked => On(u, lockList'[f])
  <2>0. /\ lockList[f] \in Seq(Txns) /\ lockList'[f] \in Seq(Txns)
        /\ \A i \in 1..Len(lockList[f]) : held[lockList[f][i]][f] # Unlocked
        /\ Distinct(lockList[f])
        /\ \A u \in Txns : held[u][f] = Exclusive => lockList[f] = <<u>>
        /\ heap # "used" => \A u \in Txns : held[u][f] # Unlocked => On(u, lockList[f])
    BY <1>2 DEF Nodes, TypeOK
  <2>1. CASE f \in F
    <3>1. /\ Distinct(lockList'[f])
          /\ \A x : On(x, lockList'[f]) <=> On(x, lockList[f]) /\ x # t
          /\ lockList'[f] = Without(lockList[f], t)
      BY <2>1, <1>1, <1>8
    <3>2. ASSUME NEW i \in 1..Len(lockList'[f])
          PROVE  held'[lockList'[f][i]][f] # Unlocked
      <4>1. On(lockList'[f][i], lockList'[f]) /\ lockList'[f][i] \in Txns
        BY <2>0 DEF On
      <4>2. On(lockList'[f][i], lockList[f]) /\ lockList'[f][i] # t
        BY <4>1, <3>1
      <4>3. held[lockList'[f][i]][f] # Unlocked
        BY <4>2, <2>0 DEF On
      <4> QED BY <4>1, <4>2, <4>3, <1>6
    <3>3. ASSUME NEW u \in Txns, held'[u][f] = Exclusive
          PROVE  lockList'[f] = <<u>>
      <4>1. u # t
        BY <3>3, <2>1, <1>7 DEF Exclusive, Unlocked
      <4>2. lockList[f] = <<u>>
        BY <4>1, <3>3, <1>6, <2>0
      <4> QED BY <4>1, <4>2, <3>1 DEF Without
    <3>4. ASSUME heap' # "used", NEW u \in Txns, held'[u][f] # Unlocked
          PROVE  On(u, lockList'[f])
      <4>1. u # t
        BY <3>4, <2>1, <1>7
      <4>2. On(u, lockList[f])
        BY <4>1, <3>4, <1>5, <1>6, <2>0
      <4> QED BY <4>1, <4>2, <3>1
    <3> QED BY <3>1, <3>2, <3>3, <3>4
  <2>2. CASE f \notin F
    <3>1. lockList'[f] = lockList[f] /\ \A u \in Txns : held'[u][f] = held[u][f]
      BY <2>2, <1>6, <1>7, <1>8
    <3>2. \A i \in 1..Len(lockList[f]) : lockList[f][i] \in Txns
      BY <2>0
    <3> QED BY <3>1, <3>2, <2>0, <1>5
  <2> QED BY <2>1, <2>2
<1>10. Nodes'
  BY <1>9 DEF Nodes
<1> QED BY <1>2, <1>3, <1>4, <1>5, <1>6, <1>7, <1>10

\* A broadcast moves sleeping threads and no others.
LEMMA WakesKeep ==
    ASSUME TypeOK, NEW t \in Txns, NEW F, NEW next \in PC, pc' = AfterWakes(t, F, next)
    PROVE  /\ pc' \in [Txns -> PC]
           /\ pc'[t] = next
           /\ \A u \in Txns : u # t => \/ pc'[u] = pc[u]
                                       \/ pc[u] = "wait" /\ pc'[u] = "woken"
BY DEF TypeOK, AfterWakes, PC

\* A lock on a file nobody has goes to t alone.
LEMMA FreshKeepsNodes ==
    ASSUME TypeOK, Control, Nodes, NEW t \in Txns, GrantFresh(t)
    PROVE  Nodes' /\ lockList' \in [Files -> Seq(Txns)]
<1> DEFINE f == Req(t).inode
<1>1. pc[t] \in InCall
  BY DEF GrantFresh, EntersInsert, InCall
<1>2. f \in Files /\ Req(t).mode \in {Shared, Exclusive}
  BY <1>1, Requests DEF Request
<1> HIDE DEF f
<1>3. /\ lockList' = [lockList EXCEPT ![f] = <<t>>] /\ heap' = heap
      /\ held' = [held EXCEPT ![t][f] = Req(t).mode]
      /\ lockList[f] = <<>>
  BY DEF GrantFresh, Fresh, f
<1>4. lockList'[f] = <<t>> /\ \A g \in Files : g # f => lockList'[g] = lockList[g]
  BY <1>2, <1>3 DEF TypeOK
<1>5. /\ held'[t][f] \in {Shared, Exclusive}
      /\ \A u \in Txns, g \in Files : u # t \/ g # f => held'[u][g] = held[u][g]
  BY <1>2, <1>3 DEF TypeOK
<1>6. lockList' \in [Files -> Seq(Txns)]
  BY <1>2, <1>3 DEF TypeOK
<1>7. ASSUME NEW g \in Files
      PROVE  /\ \A i \in 1..Len(lockList'[g]) : held'[lockList'[g][i]][g] # Unlocked
             /\ Distinct(lockList'[g])
             /\ \A u \in Txns : held'[u][g] = Exclusive => lockList'[g] = <<u>>
             /\ heap' # "used" => \A u \in Txns : held'[u][g] # Unlocked => On(u, lockList'[g])
  <2>0. /\ lockList[g] \in Seq(Txns)
        /\ \A i \in 1..Len(lockList[g]) : held[lockList[g][i]][g] # Unlocked
        /\ Distinct(lockList[g])
        /\ \A u \in Txns : held[u][g] = Exclusive => lockList[g] = <<u>>
        /\ heap # "used" => \A u \in Txns : held[u][g] # Unlocked => On(u, lockList[g])
    BY DEF Nodes, TypeOK
  <2>1. CASE g # f
    <3>1. \A i \in 1..Len(lockList[g]) : lockList[g][i] \in Txns
      BY <2>0
    <3> QED BY <2>0, <2>1, <3>1, <1>3, <1>4, <1>5
  <2>2. CASE g = f
    <3>1. \A u \in Txns : held[u][f] # Exclusive
      BY <2>0, <2>2, <1>3
    <3>2. heap # "used" => \A u \in Txns : held[u][f] = Unlocked
      BY <2>0, <2>2, <1>3 DEF On
    <3>3. /\ \A i \in 1..Len(<<t>>) : <<t>>[i] = t
          /\ On(t, <<t>>) /\ Distinct(<<t>>)
      BY DEF On, Distinct
    <3>4. held'[t][f] # Unlocked
      BY <1>5 DEF Shared, Exclusive, Unlocked
    <3> QED BY <2>2, <3>1, <3>2, <3>3, <3>4, <1>3, <1>4, <1>5
  <2> QED BY <2>1, <2>2
<1> QED BY <1>6, <1>7 DEF Nodes

\* search_file_list returns a node of the list.
LEMMA LocOnList ==
    ASSUME TypeOK, NEW f \in Files, lockList[f] # <<>>
    PROVE  /\ LocIndex(f) \in 1..Len(lockList[f])
           /\ Loc(f) \in Txns /\ On(Loc(f), lockList[f])
           /\ \A t \in Txns : lockList[f] = <<t>> => Loc(f) = t
<1>1. lockList[f] \in Seq(Txns)
  BY DEF TypeOK
<1>2. Len(lockList[f]) \in Nat /\ Len(lockList[f]) # 0
  BY <1>1
<1>3. LocIndex(f) \in 1..Len(lockList[f])
  BY <1>2 DEF LocIndex
<1>4. ASSUME NEW t \in Txns, lockList[f] = <<t>> PROVE Loc(f) = t
  <2>1. LocIndex(f) = 1
    BY <1>4, <1>3
  <2> QED BY <1>4, <2>1 DEF Loc
<1> QED BY <1>1, <1>3, <1>4 DEF Loc, On

\* A sharable file is held in shared mode only, and not by t.
LEMMA SharableMeans ==
    ASSUME TypeOK, Control, Discipline, Nodes, NEW t \in Txns,
           EntersInsert(t), Sharable(t)
    PROVE  /\ Req(t).inode \in Files /\ Req(t).mode = Shared
           /\ lockList[Req(t).inode] # <<>>
           /\ ~On(t, lockList[Req(t).inode])
           /\ held[t][Req(t).inode] = Unlocked
           /\ \A u \in Txns : held[u][Req(t).inode] # Exclusive
<1> DEFINE f == Req(t).inode
<1>1. pc[t] \in InCall
  BY DEF EntersInsert, InCall
<1>2. Req(t) \in Request /\ Req(t) = todo[t][1] /\ 1 \in 1..Len(todo[t])
  BY <1>1, Requests
<1>3. f \in Files /\ Req(t).mode = Shared
  BY <1>2 DEF Request, Sharable
<1>4. lockList[f] # <<>> /\ Loc(f) # t /\ held[Loc(f)][f] = Shared
  BY DEF Sharable
<1>5. held[t][f] # Shared
  BY <1>1, <1>2 DEF Discipline
<1>6. \A u \in Txns : held[u][f] = Exclusive => lockList[f] = <<u>>
  BY <1>3 DEF Nodes
<1>7. \A u \in Txns : held[u][f] # Exclusive
  BY <1>3, <1>4, <1>6, LocOnList DEF Shared, Exclusive
<1>8. held[t][f] = Unlocked
  BY <1>3, <1>5, <1>7 DEF TypeOK
<1>9. ~On(t, lockList[f])
  BY <1>3, <1>8 DEF Nodes, On
<1> QED BY <1>3, <1>4, <1>7, <1>8, <1>9

\* What linking a sharer writes.
LEMMA LinkWrites ==
    ASSUME TypeOK, NEW t \in Txns, NEW f \in Files, NEW k \in 1..Len(lockList[f]),
           LinkShared(t, f, k),
           \A j \in 0..Len(lockList[f]) : InsertAfter(lockList[f], j, t) \in Seq(Txns)
    PROVE  /\ lockList' \in [Files -> Seq(Txns)]
           /\ \A g \in Files : g # f => lockList'[g] = lockList[g]
           /\ \/ lockList'[f] = lockList[f] /\ heap' = "used"
              \/ \E j \in 0..Len(lockList[f]) : lockList'[f] = InsertAfter(lockList[f], j, t)
           /\ heap' = heap \/ heap' = "used"
           /\ psr' \in [Txns -> [Files -> Txns \cup {NoTxn}]]
           /\ nsr' \in [Txns -> [Files -> Txns \cup {NoTxn}]]
<1> DEFINE p == lockList[f][k]
<1>1. lockList \in [Files -> Seq(Txns)] /\ lockList[f] \in Seq(Txns)
  BY DEF TypeOK
<1>2. /\ Len(lockList[f]) \in Nat /\ p \in Txns
      /\ k \in 0..Len(lockList[f]) /\ Len(lockList[f]) \in 0..Len(lockList[f])
  BY <1>1
<1> HIDE DEF p
<1>3. /\ psr \in [Txns -> [Files -> Txns \cup {NoTxn}]]
      /\ nsr \in [Txns -> [Files -> Txns \cup {NoTxn}]]
  BY DEF TypeOK
<1>4. nsr[p][f] \in Txns \cup {NoTxn} /\ p \in Txns \cup {NoTxn} /\ t \in Txns \cup {NoTxn}
  BY <1>2, <1>3
<1>5. CASE /\ lockList' = [lockList EXCEPT ![f] = InsertAfter(@, k, t)]
           /\ nsr' = [nsr EXCEPT ![p][f] = t, ![t][f] = NoTxn]
           /\ psr' = [psr EXCEPT ![t][f] = p]
           /\ heap' = heap
  <2>1. InsertAfter(lockList[f], k, t) \in Seq(Txns)
    BY <1>2
  <2>2. /\ lockList' \in [Files -> Seq(Txns)]
        /\ \A g \in Files : g # f => lockList'[g] = lockList[g]
        /\ lockList'[f] = InsertAfter(lockList[f], k, t)
    BY <2>1, <1>1, <1>5
  <2>3. psr' \in [Txns -> [Files -> Txns \cup {NoTxn}]]
    BY <1>3, <1>4, <1>5
  <2>4. nsr' \in [Txns -> [Files -> Txns \cup {NoTxn}]]
    BY <1>2, <1>3, <1>4, <1>5
  <2> QED BY <1>2, <2>2, <2>3, <2>4, <1>5
<1>6. CASE /\ lockList' = lockList \/ lockList' = [lockList EXCEPT ![f] = InsertAfter(@, Len(@), t)]
           /\ nsr' = [nsr EXCEPT ![t][f] = NoTxn]
           /\ psr' = [psr EXCEPT ![t][f] = nsr[p][f]]
           /\ heap' = "used"
  <2>1. InsertAfter(lockList[f], Len(lockList[f]), t) \in Seq(Txns)
    BY <1>2
  <2>2. CASE lockList' = lockList
    BY <2>2, <1>1, <1>3, <1>4, <1>6
  <2>3. CASE lockList' = [lockList EXCEPT ![f] = InsertAfter(@, Len(@), t)]
    <3>1. /\ lockList' \in [Files -> Seq(Txns)]
          /\ \A g \in Files : g # f => lockList'[g] = lockList[g]
          /\ lockList'[f] = InsertAfter(lockList[f], Len(lockList[f]), t)
      BY <2>1, <2>3, <1>1
    <3> QED BY <3>1, <1>2, <1>3, <1>4, <1>6
  <2> QED BY <2>2, <2>3, <1>6
<1> QED BY <1>5, <1>6 DEF LinkShared, p

\* Linking a sharer keeps the nodes in order.
LEMMA SharedKeepsNodes ==
    ASSUME TypeOK, Control, Discipline, Nodes, NEW t \in Txns, GrantShared(t)
    PROVE  /\ Nodes' /\ lockList' \in [Files -> Seq(Txns)]
           /\ psr' \in [Txns -> [Files -> Txns \cup {NoTxn}]]
           /\ nsr' \in [Txns -> [Files -> Txns \cup {NoTxn}]]
           /\ heap' \in {"sound", "dangling", "used"}
<1> DEFINE f == Req(t).inode
<1>1. EntersInsert(t) /\ Sharable(t)
  BY DEF GrantShared
<1>2. /\ f \in Files /\ Req(t).mode = Shared /\ lockList[f] # <<>>
      /\ ~On(t, lockList[f]) /\ held[t][f] = Unlocked
      /\ \A u \in Txns : held[u][f] # Exclusive
  BY <1>1, SharableMeans
<1>3. PICK k \in 1..Len(lockList[f]) : ChainEnd(f, k) /\ LinkShared(t, f, k)
  BY DEF GrantShared
<1>4. held' = [held EXCEPT ![t][f] = Req(t).mode]
  BY DEF GrantShared
<1> HIDE DEF f
<1>5. lockList[f] \in Seq(Txns) /\ Len(lockList[f]) \in Nat
  BY <1>2 DEF TypeOK
<1>6. Distinct(lockList[f])
  BY <1>2 DEF Nodes
<1>7. \A j \in 0..Len(lockList[f]) :
         /\ InsertAfter(lockList[f], j, t) \in Seq(Txns)
         /\ Distinct(InsertAfter(lockList[f], j, t))
         /\ \A x : On(x, InsertAfter(lockList[f], j, t)) <=> On(x, lockList[f]) \/ x = t
  BY <1>2, <1>5, <1>6, InsertProperties
<1>8. /\ lockList' \in [Files -> Seq(Txns)]
      /\ \A g \in Files : g # f => lockList'[g] = lockList[g]
      /\ \/ lockList'[f] = lockList[f] /\ heap' = "used"
         \/ \E j \in 0..Len(lockList[f]) : lockList'[f] = InsertAfter(lockList[f], j, t)
      /\ heap' = heap \/ heap' = "used"
      /\ psr' \in [Txns -> [Files -> Txns \cup {NoTxn}]]
      /\ nsr' \in [Txns -> [Files -> Txns \cup {NoTxn}]]
  BY <1>2, <1>3, <1>7, LinkWrites
<1>9. heap' \in {"sound", "dangling", "used"}
  BY <1>8 DEF TypeOK
<1>10. /\ held'[t][f] = Shared
       /\ \A u \in Txns, g \in Files : u # t \/ g # f => held'[u][g] = held[u][g]
  BY <1>2, <1>4 DEF TypeOK
<1>11. ASSUME NEW g \in Files
       PROVE  /\ \A i \in 1..Len(lockList'[g]) : held'[lockList'[g][i]][g] # Unlocked
              /\ Distinct(lockList'[g])
              /\ \A u \in Txns : held'[u][g] = Exclusive => lockList'[g] = <<u>>
              /\ heap' # "used" => \A u \in Txns : held'[u][g] # Unlocked => On(u, lockList'[g])
  <2>0. /\ lockList[g] \in Seq(Txns) /\ lockList'[g] \in Seq(Txns)
        /\ \A i \in 1..Len(lockList[g]) : held[lockList[g][i]][g] # Unlocked
        /\ Distinct(lockList[g])
        /\ \A u \in Txns : held[u][g] = Exclusive => lockList[g] = <<u>>
        /\ heap # "used" => \A u \in Txns : held[u][g] # Unlocked => On(u, lockList[g])
    BY <1>8 DEF Nodes, TypeOK
  <2>1. CASE g # f
    <3>1. \A i \in 1..Len(lockList[g]) : lockList[g][i] \in Txns
      BY <2>0
    <3>2. lockList'[g] = lockList[g] /\ \A u \in Txns : held'[u][g] = held[u][g]
      BY <2>1, <1>8, <1>10
    <3>3. heap' # "used" => heap # "used"
      BY <1>8
    <3> QED BY <2>0, <3>1, <3>2, <3>3
  <2>2. CASE g = f
    <3>1. Distinct(lockList'[f])
      BY <1>6, <1>7, <1>8
    <3>2. \A x : On(x, lockList'[f]) => On(x, lockList[f]) \/ x = t
      BY <1>7, <1>8
    <3>3. ASSUME NEW i \in 1..Len(lockList'[f])
          PROVE  held'[lockList'[f][i]][f] # Unlocked
      <4>1. On(lockList'[f][i], lockList'[f]) /\ lockList'[f][i] \in Txns
        BY <2>0, <2>2 DEF On
      <4>2. CASE lockList'[f][i] = t
        BY <4>2, <1>10 DEF Shared, Unlocked
      <4>3. CASE lockList'[f][i] # t
        <5>1. On(lockList'[f][i], lockList[f])
          BY <4>1, <4>3, <3>2
        <5>2. held[lockList'[f][i]][f] # Unlocked
          BY <5>1, <2>0, <2>2 DEF On
        <5> QED BY <5>2, <4>1, <4>3, <1>2, <1>10
      <4> QED BY <4>2, <4>3
    <3>4. \A u \in Txns : held'[u][f] # Exclusive
      BY <1>2, <1>10 DEF Shared, Exclusive
    <3>5. ASSUME heap' # "used", NEW u \in Txns, held'[u][f] # Unlocked
          PROVE  On(u, lockList'[f])
      <4>1. heap # "used" /\ \A x : On(x, lockList'[f]) <=> On(x, lockList[f]) \/ x = t
        BY <3>5, <1>7, <1>8
      <4> QED BY <4>1, <3>5, <2>0, <2>2, <1>2, <1>10
    <3> QED BY <2>2, <3>1, <3>3, <3>4, <3>5
  <2> QED BY <2>1, <2>2
<1> QED BY <1>8, <1>9, <1>11 DEF Nodes

\* Steps that write no node.
LEMMA NodesUnchanged ==
    ASSUME Nodes, UNCHANGED <<lockList, held, heap>>
    PROVE  Nodes'
BY DEF Nodes, On, Distinct

\* A thread that moves on without a change to its locks.
LEMMA MoveKeeps ==
    ASSUME TypeOK, Control, BackupControl, Discipline,
           NEW t \in Txns, NEW next \in PC,
           pc' = [pc EXCEPT ![t] = next],
           UNCHANGED <<held, fallible, walk>>,
           \A u \in Txns : u # t => todo'[u] = todo[u],
           next \in InCall => pc[t] \in InCall /\ todo'[t] = todo[t],
           next \in {"idle", "ending", "done"} => \A f \in Files : held[t][f] = Unlocked,
           t = Backup => \/ next \in {"call", "wait", "woken"}
                         \/ next = "run" /\ pc[t] = "idle"
                         \/ next = "done"
    PROVE  pc' \in [Txns -> PC] /\ Control' /\ BackupControl' /\ Discipline'
<1>1. pc' \in [Txns -> PC] /\ pc'[t] = next /\ \A u \in Txns : u # t => pc'[u] = pc[u]
  BY DEF TypeOK
<1>2. Control'
  <2> SUFFICES ASSUME NEW u \in Txns
               PROVE  /\ pc'[u] \in InCall => todo'[u] # <<>>
                      /\ pc'[u] \in {"idle", "ending", "done"} =>
                            \A f \in Files : held'[u][f] = Unlocked
    BY DEF Control
  <2>1. CASE u = t
    BY <2>1, <1>1 DEF Control
  <2>2. CASE u # t
    BY <2>2, <1>1 DEF Control
  <2> QED BY <2>1, <2>2
<1>3. Discipline'
  <2> SUFFICES ASSUME NEW u \in Txns, pc'[u] \in InCall
               PROVE  /\ \A i \in 1..Len(todo'[u]) : held'[u][todo'[u][i].inode] # Shared
                      /\ SharedOnce(todo'[u])
    BY DEF Discipline
  <2>1. todo'[u] = todo[u] /\ pc[u] \in InCall
    BY <1>1
  <2> QED BY <2>1 DEF Discipline
<1>4. BackupControl'
  <2>1. CASE t # Backup
    BY <2>1, <1>1 DEF BackupControl, Txns
  <2>2. CASE t = Backup
    <3>1. CASE next \in {"call", "wait", "woken"}
      <4>1. pc[t] \in {"call", "wait", "woken"} /\ todo'[t] = todo[t]
        BY <3>1, <2>2 DEF InCall, BackupControl
      <4> QED BY <2>2, <3>1, <4>1, <1>1 DEF BackupControl
    <3>2. CASE next = "run" /\ pc[t] = "idle"
      <4>1. \A f \in Files : held[t][f] = Unlocked
        BY <3>2 DEF Control
      <4> QED BY <2>2, <3>2, <4>1, <1>1 DEF BackupControl
    <3>3. CASE next = "done"
      BY <2>2, <3>3, <1>1 DEF BackupControl
    <3> QED BY <2>2, <3>1, <3>2, <3>3
  <2> QED BY <2>1, <2>2
<1> QED BY <1>1, <1>2, <1>3, <1>4

\* insert_file_list takes the lock, blocks, pauses or aborts.
LEMMA InsertKeeps ==
    ASSUME IInv, ConstantsAssumption, NEW t \in Txns, InsertFileList(t)
    PROVE  IInv'
<1> USE DEF IInv
<1>1. EntersInsert(t) /\ pc[t] = "call" /\ pc[t] \in InCall
  BY DEF InsertFileList, Own, GrantFresh, GrantShared, Block, MSPause, MSAbort,
         EntersInsert, InCall
<1>2. Req(t) \in Request
  BY <1>1, Requests
<1>3. Req(t).inode \in Files /\ Req(t).mode \in {Shared, Exclusive}
  BY <1>2 DEF Request
<1>4. CASE Own(t)
  <2>1. Proceed(t) /\ UNCHANGED <<lockVars, msVars>>
    BY <1>4 DEF Own
  <2>2. /\ pc' \in [Txns -> PC] /\ todo' \in [Txns -> Seq(Request)]
        /\ mutex' \in Txns \cup {NoTxn}
        /\ Control' /\ BackupControl' /\ Discipline'
    BY <2>1, <1>1, ProceedKeeps DEF lockVars
  <2>3. Nodes'
    BY <2>1, NodesUnchanged DEF lockVars
  <2>4. TypeOK'
    BY <2>1, <2>2 DEF TypeOK, lockVars, msVars, Proceed
  <2> QED BY <2>2, <2>3, <2>4
<1>5. ASSUME NEW rb \in ReadBits, TakeReadBit(t, rb, MSChecked(t))
      PROVE  /\ before_after' \in [Txns -> ReadBits]
             /\ pause_times' \in [Txns -> 0..PauseLimit + 1]
  BY <1>5 DEF TakeReadBit, TypeOK, ConstantsAssumption
<1>6. CASE GrantFresh(t)
  <2>1. /\ Proceed(t) /\ held' = [held EXCEPT ![t][Req(t).inode] = Req(t).mode]
        /\ psr' = [psr EXCEPT ![t][Req(t).inode] = NoTxn]
        /\ nsr' = [nsr EXCEPT ![t][Req(t).inode] = NoTxn]
        /\ heap' = heap
        /\ \E rb \in ReadBits : TakeReadBit(t, rb, MSChecked(t))
    BY <1>6 DEF GrantFresh
  <2>2. /\ pc' \in [Txns -> PC] /\ todo' \in [Txns -> Seq(Request)]
        /\ mutex' \in Txns \cup {NoTxn}
        /\ held' \in [Txns -> [Files -> {Unlocked, Shared, Exclusive}]]
        /\ Control' /\ BackupControl' /\ Discipline'
    BY <2>1, <1>1, ProceedKeeps
  <2>3. Nodes' /\ lockList' \in [Files -> Seq(Txns)]
    BY <1>6, FreshKeepsNodes
  <2>4. /\ psr' \in [Txns -> [Files -> Txns \cup {NoTxn}]]
        /\ nsr' \in [Txns -> [Files -> Txns \cup {NoTxn}]]
    BY <2>1, <1>3 DEF TypeOK
  <2>5. TypeOK'
    BY <2>1, <2>2, <2>3, <2>4, <1>5 DEF TypeOK, Proceed
  <2> QED BY <2>2, <2>3, <2>5
<1>7. CASE GrantShared(t)
  <2>1. /\ Proceed(t) /\ held' = [held EXCEPT ![t][Req(t).inode] = Req(t).mode]
        /\ \E rb \in ReadBits : TakeReadBit(t, rb, MSChecked(t))
    BY <1>7 DEF GrantShared
  <2>2. /\ pc' \in [Txns -> PC] /\ todo' \in [Txns -> Seq(Request)]
        /\ mutex' \in Txns \cup {NoTxn}
        /\ held' \in [Txns -> [Files -> {Unlocked, Shared, Exclusive}]]
        /\ Control' /\ BackupControl' /\ Discipline'
    BY <2>1, <1>1, ProceedKeeps
  <2>3. /\ Nodes' /\ lockList' \in [Files -> Seq(Txns)]
        /\ psr' \in [Txns -> [Files -> Txns \cup {NoTxn}]]
        /\ nsr' \in [Txns -> [Files -> Txns \cup {NoTxn}]]
        /\ heap' \in {"sound", "dangling", "used"}
    BY <1>7, SharedKeepsNodes
  <2>4. TypeOK'
    BY <2>1, <2>2, <2>3, <1>5 DEF TypeOK, Proceed
  <2> QED BY <2>2, <2>3, <2>4
<1>8. CASE Block(t)
  <2>1. /\ pc' = [pc EXCEPT ![t] = "wait"] /\ mutex' = NoTxn
        /\ in_wait' = [in_wait EXCEPT ![Req(t).inode] = @ + 1]
        /\ UNCHANGED <<lockVars, msVars, todo, fallible, calls, walk>>
    BY <1>8 DEF Block
  <2>2. "wait" \in PC
    BY DEF PC
  <2>3. pc' \in [Txns -> PC] /\ Control' /\ BackupControl' /\ Discipline'
    BY <2>1, <2>2, <1>1, MoveKeeps DEF lockVars
  <2>4. Nodes'
    BY <2>1, NodesUnchanged DEF lockVars
  <2>5. in_wait' \in [Files -> Int]
    <3>1. in_wait \in [Files -> Int]
      BY DEF TypeOK
    <3> QED BY <3>1, <2>1, <1>3
  <2>6. TypeOK'
    BY <2>1, <2>3, <2>5 DEF TypeOK, lockVars, msVars
  <2> QED BY <2>3, <2>4, <2>6
<1>9. CASE MSPause(t)
  <2>1. /\ pc' = [pc EXCEPT ![t] = "paused"] /\ mutex' = NoTxn /\ t # Backup
        /\ pause_times[t] <= PauseLimit
        /\ pause_times' = [pause_times EXCEPT ![t] = @ + 1]
        /\ UNCHANGED <<lockVars, before_after, in_wait, todo, fallible, calls, walk>>
    BY <1>9 DEF MSPause, PauseAgain, MSChecked
  <2>2. "paused" \in PC
    BY DEF PC
  <2>3. pc' \in [Txns -> PC] /\ Control' /\ BackupControl' /\ Discipline'
    BY <2>1, <2>2, <1>1, MoveKeeps DEF lockVars
  <2>4. Nodes'
    BY <2>1, NodesUnchanged DEF lockVars
  <2>5. pause_times' \in [Txns -> 0..PauseLimit + 1]
    BY <2>1 DEF TypeOK, ConstantsAssumption
  <2>6. TypeOK'
    BY <2>1, <2>3, <2>5 DEF TypeOK, lockVars
  <2> QED BY <2>3, <2>4, <2>6
<1>10. CASE MSAbort(t)
  <2>1. /\ pc' = [pc EXCEPT ![t] = "abort"] /\ mutex' = NoTxn /\ t # Backup
        /\ todo' = [todo EXCEPT ![t] = <<>>]
        /\ UNCHANGED <<lockVars, msVars, in_wait, fallible, calls, walk>>
    BY <1>10 DEF MSAbort, MSChecked
  <2>2. "abort" \in PC /\ "abort" \notin InCall
    BY DEF PC, InCall
  <2>3. \A u \in Txns : u # t => todo'[u] = todo[u]
    BY <2>1 DEF TypeOK
  <2>4. pc' \in [Txns -> PC] /\ Control' /\ BackupControl' /\ Discipline'
    BY <2>1, <2>2, <2>3, MoveKeeps DEF lockVars
  <2>5. Nodes'
    BY <2>1, NodesUnchanged DEF lockVars
  <2>6. todo' \in [Txns -> Seq(Request)]
    BY <2>1 DEF TypeOK
  <2>7. TypeOK'
    BY <2>1, <2>4, <2>6 DEF TypeOK, lockVars, msVars
  <2> QED BY <2>4, <2>5, <2>7
<1> QED BY <1>4, <1>6, <1>7, <1>8, <1>9, <1>10 DEF InsertFileList

\* The client begins, issues a call, commits or aborts.
LEMMA ClientKeeps ==
    ASSUME IInv, ConstantsAssumption, NEW t \in Txns, Client(t)
    PROVE  IInv'
<1> USE DEF IInv
<1>1. ASSUME NEW next \in {"run", "commit", "abort"}, t # Backup,
             pc' = [pc EXCEPT ![t] = next],
             UNCHANGED <<lockVars, msVars, in_wait, todo, fallible, calls, mutex, walk>>
      PROVE  IInv'
  <2>1. next \in PC /\ next \notin InCall /\ next \notin {"idle", "ending", "done"}
    BY DEF PC, InCall
  <2>2. pc' \in [Txns -> PC] /\ Control' /\ BackupControl' /\ Discipline'
    BY <2>1, <1>1, MoveKeeps DEF lockVars
  <2>3. Nodes'
    BY <1>1, NodesUnchanged DEF lockVars
  <2>4. TypeOK'
    BY <1>1, <2>2 DEF TypeOK, lockVars, msVars
  <2> QED BY <2>2, <2>3, <2>4
<1>2. CASE on_txn_beg(t) \/ on_txn_commit(t) \/ on_txn_abort(t)
  BY <1>1, <1>2 DEF on_txn_beg, on_txn_commit, on_txn_abort
<1>3. CASE StartCall(t)
  <2>1. PICK c \in Calls : /\ TraceDiscipline(t, c)
                           /\ todo' = [todo EXCEPT ![t] = c.reqs]
                           /\ fallible' = [fallible EXCEPT ![t] = c.fallible]
    BY <1>3 DEF StartCall
  <2>2. /\ t # Backup /\ pc[t] = "run"
        /\ pc' = [pc EXCEPT ![t] = "call"] /\ calls' = [calls EXCEPT ![t] = @ + 1]
        /\ UNCHANGED <<lockVars, msVars, in_wait, mutex, walk>>
    BY <1>3 DEF StartCall
  <2>3. /\ c.reqs \in Seq(Request) /\ c.reqs # <<>> /\ c.fallible \in BOOLEAN
        /\ SharedOnce(c.reqs)
    BY DEF ConstantsAssumption, Call
  <2>4. /\ pc' \in [Txns -> PC] /\ todo' \in [Txns -> Seq(Request)]
        /\ calls' \in [Txns -> Nat] /\ fallible' \in [Txns -> BOOLEAN]
    <3>1. pc' \in [Txns -> PC]
      BY <2>2 DEF TypeOK, PC
    <3>2. todo' \in [Txns -> Seq(Request)]
      BY <2>1, <2>3 DEF TypeOK
    <3>3. calls' \in [Txns -> Nat]
      BY <2>2 DEF TypeOK
    <3>4. fallible' \in [Txns -> BOOLEAN]
      BY <2>1, <2>3 DEF TypeOK
    <3> QED BY <3>1, <3>2, <3>3, <3>4
  <2>5. pc'[t] = "call" /\ todo'[t] = c.reqs
    BY <2>1, <2>2 DEF TypeOK
  <2>6. \A u \in Txns : u # t => /\ pc'[u] = pc[u] /\ todo'[u] = todo[u]
                                 /\ fallible'[u] = fallible[u]
    BY <2>1, <2>2 DEF TypeOK
  <2>7. held' = held /\ walk' = walk
    BY <2>2 DEF lockVars
  <2>8. Control'
    <3> SUFFICES ASSUME NEW u \in Txns
                 PROVE  /\ pc'[u] \in InCall => todo'[u] # <<>>
                        /\ pc'[u] \in {"idle", "ending", "done"} =>
                              \A f \in Files : held'[u][f] = Unlocked
      BY DEF Control
    <3>1. CASE u = t
      BY <3>1, <2>3, <2>5
    <3>2. CASE u # t
      BY <3>2, <2>6, <2>7 DEF Control
    <3> QED BY <3>1, <3>2
  <2>9. Discipline'
    <3> SUFFICES ASSUME NEW u \in Txns, pc'[u] \in InCall
                 PROVE  /\ \A i \in 1..Len(todo'[u]) : held'[u][todo'[u][i].inode] # Shared
                        /\ SharedOnce(todo'[u])
      BY DEF Discipline
    <3>1. CASE u = t
      BY <3>1, <2>1, <2>3, <2>5, <2>7 DEF TraceDiscipline
    <3>2. CASE u # t
      BY <3>2, <2>6, <2>7 DEF Discipline
    <3> QED BY <3>1, <3>2
  <2>10. BackupControl'
    BY <2>2, <2>6, <2>7 DEF BackupControl, Txns
  <2>11. Nodes'
    BY <2>2, NodesUnchanged DEF lockVars
  <2>12. TypeOK'
    BY <2>2, <2>4 DEF TypeOK, lockVars, msVars
  <2> QED BY <2>8, <2>9, <2>10, <2>11, <2>12
<1> QED BY <1>2, <1>3 DEF Client

\* A thread wakes up, by itself or not, or its pause is over.
LEMMA ResumeKeeps ==
    ASSUME IInv, NEW t \in Txns, PauseEnds(t) \/ SpuriousWake(t) \/ WakeUp(t)
    PROVE  IInv'
<1> USE DEF IInv
<1>1. PICK next \in {"call", "woken"} : pc' = [pc EXCEPT ![t] = next]
  BY DEF PauseEnds, SpuriousWake, WakeUp
<1>2. /\ pc[t] \in InCall
      /\ UNCHANGED <<lockVars, msVars, todo, fallible, calls, mutex, walk>>
  BY DEF PauseEnds, SpuriousWake, WakeUp, InCall
<1>3. next \in PC /\ next \notin {"idle", "ending", "done"}
  BY DEF PC
<1>4. pc' \in [Txns -> PC] /\ Control' /\ BackupControl' /\ Discipline'
  BY <1>1, <1>2, <1>3, MoveKeeps DEF lockVars
<1>5. Nodes'
  BY <1>2, NodesUnchanged DEF lockVars
<1>6. Req(t).inode \in Files
  BY <1>2, Requests DEF Request
<1>7. in_wait' \in [Files -> Int]
  BY <1>6 DEF PauseEnds, SpuriousWake, WakeUp, TypeOK
<1>8. TypeOK'
  BY <1>2, <1>4, <1>7 DEF TypeOK, lockVars, msVars
<1> QED BY <1>4, <1>5, <1>8

\* A release, and the wake-ups it causes, keep the control invariants of the
\* other threads.
LEMMA OthersKeep ==
    ASSUME Control, BackupControl, Discipline, NEW t \in Txns,
           UNCHANGED <<todo, fallible>>,
           \A u \in Txns : u # t => held'[u] = held[u],
           \A u \in Txns : u # t => \/ pc'[u] = pc[u]
                                    \/ pc[u] = "wait" /\ pc'[u] = "woken",
           pc'[t] \notin InCall,
           pc'[t] \in {"idle", "ending", "done"} => \A f \in Files : held'[t][f] = Unlocked
    PROVE  /\ Control' /\ Discipline'
           /\ t # Backup /\ walk' = walk => BackupControl'
<1>1. Control'
  BY DEF Control, InCall
<1>2. Discipline'
  <2> SUFFICES ASSUME NEW u \in Txns, pc'[u] \in InCall
               PROVE  /\ \A i \in 1..Len(todo'[u]) : held'[u][todo'[u][i].inode] # Shared
                      /\ SharedOnce(todo'[u])
    BY DEF Discipline
  <2>1. u # t /\ held'[u] = held[u] /\ pc[u] \in InCall /\ todo'[u] = todo[u]
    BY DEF InCall
  <2> QED BY <2>1 DEF Discipline
<1>3. ASSUME t # Backup, walk' = walk PROVE BackupControl'
  BY <1>3 DEF BackupControl, Txns
<1> QED BY <1>1, <1>2, <1>3

\* A transaction gives back its locks, and leaves the transaction list.
LEMMA ReleaseStepKeeps ==
    ASSUME IInv, NEW t \in Txns, ReleaseStep(t)
    PROVE  IInv'
<1> USE DEF IInv
<1>1. CASE txn_delete(t)
  <2>1. /\ pc[t] = "ending" /\ pc' = [pc EXCEPT ![t] = "done"]
        /\ UNCHANGED <<lockVars, msVars, in_wait, todo, fallible, calls, mutex, walk>>
    BY <1>1 DEF txn_delete
  <2>2. "done" \in PC /\ "done" \notin InCall /\ \A f \in Files : held[t][f] = Unlocked
    BY <2>1 DEF PC, InCall, Control
  <2>3. pc' \in [Txns -> PC] /\ Control' /\ BackupControl' /\ Discipline'
    BY <2>1, <2>2, MoveKeeps DEF lockVars
  <2>4. Nodes'
    BY <2>1, NodesUnchanged DEF lockVars
  <2>5. TypeOK'
    BY <2>1, <2>3 DEF TypeOK, lockVars, msVars
  <2> QED BY <2>3, <2>4, <2>5
<1>2. CASE release_locks_on_success(t) \/ release_locks_on_abort(t)
  <2> DEFINE F == {f \in Files : held[t][f] # Unlocked}
  <2>1. /\ ReleaseNodes(t, F) /\ pc' = AfterWakes(t, F, "ending")
        /\ UNCHANGED <<msVars, in_wait, todo, fallible, calls, mutex, walk>>
        /\ pc[t] \in {"commit", "abort"}
    BY <1>2 DEF release_locks_on_success, release_locks_on_abort, ReleaseAll
  <2>2. t # Backup
    BY <2>1 DEF BackupControl
  <2>3. F \in SUBSET Files /\ "ending" \in PC /\ "ending" \notin InCall
    BY DEF PC, InCall
  <2>4. \A f \in Files : f \notin F => held[t][f] = Unlocked
    OBVIOUS
  <2> HIDE DEF F
  <2>5. /\ lockList' \in [Files -> Seq(Txns)]
        /\ held' \in [Txns -> [Files -> {Unlocked, Shared, Exclusive}]]
        /\ psr' \in [Txns -> [Files -> Txns \cup {NoTxn}]]
        /\ nsr' \in [Txns -> [Files -> Txns \cup {NoTxn}]]
        /\ heap' \in {"sound", "dangling", "used"}
        /\ \A u \in Txns : u # t => held'[u] = held[u]
        /\ \A f \in Files : held'[t][f] = IF f \in F THEN Unlocked ELSE held[t][f]
        /\ Nodes'
    BY <2>1, <2>3, ReleaseKeeps
  <2>6. /\ pc' \in [Txns -> PC] /\ pc'[t] = "ending"
        /\ \A u \in Txns : u # t => \/ pc'[u] = pc[u]
                                    \/ pc[u] = "wait" /\ pc'[u] = "woken"
    BY <2>1, <2>3, WakesKeep
  <2>7. \A f \in Files : held'[t][f] = Unlocked
    BY <2>4, <2>5
  <2>8. Control' /\ Discipline' /\ BackupControl'
    BY <2>1, <2>2, <2>3, <2>5, <2>6, <2>7, OthersKeep
  <2>9. TypeOK'
    BY <2>1, <2>5, <2>6 DEF TypeOK, msVars
  <2> QED BY <2>5, <2>8, <2>9
<1> QED BY <1>1, <1>2 DEF ReleaseStep

\* The steps of the backup's own loop.
LEMMA BackupKeeps ==
    ASSUME IInv, BackupThread
    PROVE  IInv'
<1> USE DEF IInv
<1>0. Backup \in Txns
  BY DEF Txns
<1>1. CASE on_bck_beg
  <2>1. /\ pc[Backup] = "idle" /\ pc' = [pc EXCEPT ![Backup] = "run"]
        /\ UNCHANGED <<lockVars, msVars, in_wait, todo, fallible, calls, mutex, walk>>
    BY <1>1 DEF on_bck_beg
  <2>2. "run" \in PC /\ "run" \notin InCall
    BY DEF PC, InCall
  <2>3. pc' \in [Txns -> PC] /\ Control' /\ BackupControl' /\ Discipline'
    BY <2>1, <2>2, <1>0, MoveKeeps DEF lockVars
  <2>4. Nodes'
    BY <2>1, NodesUnchanged DEF lockVars
  <2>5. TypeOK'
    BY <2>1, <2>3 DEF TypeOK, lockVars, msVars
  <2> QED BY <2>3, <2>4, <2>5
<1>2. CASE EndBackup
  <2>1. /\ pc[Backup] = "run" /\ walk = <<>> /\ pc' = [pc EXCEPT ![Backup] = "done"]
        /\ UNCHANGED <<lockVars, msVars, in_wait, todo, fallible, calls, mutex, walk>>
    BY <1>2 DEF EndBackup
  <2>2. "done" \in PC /\ "done" \notin InCall /\ \A f \in Files : held[Backup][f] = Unlocked
    BY <2>1 DEF PC, InCall, BackupControl
  <2>3. pc' \in [Txns -> PC] /\ Control' /\ BackupControl' /\ Discipline'
    BY <2>1, <2>2, <1>0, MoveKeeps DEF lockVars
  <2>4. Nodes'
    BY <2>1, NodesUnchanged DEF lockVars
  <2>5. TypeOK'
    BY <2>1, <2>3 DEF TypeOK, lockVars, msVars
  <2> QED BY <2>3, <2>4, <2>5
<1>3. CASE lock_file
  <2> DEFINE q == <<Want(Head(walk), Exclusive)>>
  <2>1. /\ pc[Backup] = "run" /\ walk # <<>> /\ held[Backup][Head(walk)] = Unlocked
        /\ pc' = [pc EXCEPT ![Backup] = "call"]
        /\ todo' = [todo EXCEPT ![Backup] = q]
        /\ UNCHANGED <<lockVars, msVars, in_wait, fallible, calls, mutex, walk>>
    BY <1>3 DEF lock_file
  <2>2. Head(walk) \in Files
    BY <2>1 DEF TypeOK
  <2>3. /\ q \in Seq(Request) /\ q # <<>> /\ Len(q) = 1
        /\ q[1].inode \in Files
    BY <2>2 DEF Want, Request
  <2>4. \A f \in Files : held[Backup][f] = Unlocked
    BY <2>1 DEF BackupControl
  <2>5. /\ pc' \in [Txns -> PC] /\ pc'[Backup] = "call" /\ todo'[Backup] = q
        /\ \A u \in Txns : u # Backup => pc'[u] = pc[u] /\ todo'[u] = todo[u]
    BY <2>1, <1>0 DEF TypeOK, PC
  <2>6. todo' \in [Txns -> Seq(Request)]
    BY <2>1, <2>3, <1>0 DEF TypeOK
  <2>7. held' = held /\ walk' = walk /\ fallible' = fallible
    BY <2>1 DEF lockVars
  <2>8. BackupControl'
    BY <2>1, <2>4, <2>5, <2>7 DEF BackupControl
  <2>9. SharedOnce(q) /\ \A i \in 1..Len(q) : held[Backup][q[i].inode] # Shared
    <3>1. \A i \in 1..Len(q) : i = 1
      BY <2>3
    <3>2. held[Backup][q[1].inode] # Shared
      BY <2>3, <2>4 DEF Shared, Unlocked
    <3>3. SharedOnce(q)
      <4>1. ASSUME NEW i \in 1..Len(q), NEW j \in 1..Len(q) PROVE ~(i < j)
        BY <3>1
      <4> QED BY <4>1 DEF SharedOnce
    <3> QED BY <3>1, <3>2, <3>3
  <2> HIDE DEF q
  <2>10. Control'
    <3> SUFFICES ASSUME NEW u \in Txns
                 PROVE  /\ pc'[u] \in InCall => todo'[u] # <<>>
                        /\ pc'[u] \in {"idle", "ending", "done"} =>
                              \A f \in Files : held'[u][f] = Unlocked
      BY DEF Control
    <3>1. CASE u = Backup
      BY <3>1, <2>3, <2>5
    <3>2. CASE u # Backup
      BY <3>2, <2>5, <2>7 DEF Control
    <3> QED BY <3>1, <3>2
  <2>11. Discipline'
    <3> SUFFICES ASSUME NEW u \in Txns, pc'[u] \in InCall
                 PROVE  /\ \A i \in 1..Len(todo'[u]) : held'[u][todo'[u][i].inode] # Shared
                        /\ SharedOnce(todo'[u])
      BY DEF Discipline
    <3>1. CASE u = Backup
      BY <3>1, <2>5, <2>7, <2>9
    <3>2. CASE u # Backup
      BY <3>2, <2>5, <2>7 DEF Discipline
    <3> QED BY <3>1, <3>2
  <2>12. Nodes'
    BY <2>1, NodesUnchanged DEF lockVars
  <2>13. TypeOK'
    BY <2>1, <2>5, <2>6 DEF TypeOK, lockVars, msVars
  <2> QED BY <2>8, <2>10, <2>11, <2>12, <2>13
<1>4. CASE release_locks_by_backup
  <2> DEFINE F == {Head(walk)}
  <2>1. /\ pc[Backup] = "run" /\ walk # <<>>
        /\ ReleaseNodes(Backup, F) /\ pc' = AfterWakes(Backup, F, "run")
        /\ walk' = Tail(walk)
        /\ UNCHANGED <<msVars, in_wait, todo, fallible, calls, mutex>>
    BY <1>4 DEF release_locks_by_backup
  <2>2. walk \in Seq(Files)
    BY DEF TypeOK
  <2>3. F \in SUBSET Files /\ walk' \in Seq(Files) /\ "run" \in PC /\ "run" \notin InCall
    BY <2>1, <2>2 DEF PC, InCall
  <2>4. \A f \in Files : f \notin F => held[Backup][f] = Unlocked
    BY <2>1 DEF BackupControl
  <2> HIDE DEF F
  <2>5. /\ lockList' \in [Files -> Seq(Txns)]
        /\ held' \in [Txns -> [Files -> {Unlocked, Shared, Exclusive}]]
        /\ psr' \in [Txns -> [Files -> Txns \cup {NoTxn}]]
        /\ nsr' \in [Txns -> [Files -> Txns \cup {NoTxn}]]
        /\ heap' \in {"sound", "dangling", "used"}
        /\ \A u \in Txns : u # Backup => held'[u] = held[u]
        /\ \A f \in Files : held'[Backup][f] = IF f \in F THEN Unlocked ELSE held[Backup][f]
        /\ Nodes'
    BY <2>1, <2>3, <1>0, ReleaseKeeps
  <2>6. /\ pc' \in [Txns -> PC] /\ pc'[Backup] = "run"
        /\ \A u \in Txns : u # Backup => \/ pc'[u] = pc[u]
                                         \/ pc[u] = "wait" /\ pc'[u] = "woken"
    BY <2>1, <2>3, <1>0, WakesKeep
  <2>7. \A f \in Files : held'[Backup][f] = Unlocked
    BY <2>4, <2>5
  <2>8. Control' /\ Discipline'
    BY <2>1, <2>3, <2>5, <2>6, <2>7, <1>0, OthersKeep
  <2>9. BackupControl'
    BY <2>1, <2>6, <2>7 DEF BackupControl
  <2>10. TypeOK'
    BY <2>1, <2>3, <2>5, <2>6 DEF TypeOK, msVars
  <2> QED BY <2>5, <2>8, <2>9, <2>10
<1> QED BY <1>1, <1>2, <1>3, <1>4 DEF BackupThread

-----------------------------------------------------------------------------
(***************************************************************************)
(* The theorems.                                                           *)
(***************************************************************************)

\* The empty lock list of global_init satisfies the invariant.
LEMMA InitEstablishes ==
    ASSUME ConstantsAssumption, Init
    PROVE  IInv
<1>1. TypeOK
  BY DEF TypeOK, Init, ConstantsAssumption, PC
<1>2. \A t \in Txns : pc[t] = "idle" /\ \A f \in Files : held[t][f] = Unlocked
  BY DEF Init
<1>3. Control /\ Discipline
  BY <1>2 DEF Control, Discipline, InCall
<1>4. Backup \in Txns
  BY DEF Txns
<1>5. BackupControl
  BY <1>2, <1>4 DEF BackupControl, Init
<1>6. Nodes
  <2>1. \A f \in Files : lockList[f] = <<>>
    BY DEF Init
  <2>2. Distinct(<<>>) /\ \A i \in 1..Len(<<>>) : FALSE
    BY DEF Distinct
  <2>3. Unlocked # Exclusive
    BY DEF Unlocked, Exclusive
  <2> QED BY <1>2, <2>1, <2>2, <2>3 DEF Nodes
<1> QED BY <1>1, <1>3, <1>5, <1>6 DEF IInv

\* Every step of every thread, client and of the backup keeps it.
LEMMA NextKeeps ==
    ASSUME ConstantsAssumption, IInv, [Next]_vars
    PROVE  IInv'
<1>1. CASE \E t \in Txns : Thread(t) \/ Client(t) \/ SpuriousWake(t)
  <2>1. PICK t \in Txns : Thread(t) \/ Client(t) \/ SpuriousWake(t)
    BY <1>1
  <2>2. CASE InsertFileList(t)
    BY <2>2, InsertKeeps
  <2>3. CASE PauseEnds(t) \/ SpuriousWake(t) \/ WakeUp(t)
    BY <2>3, ResumeKeeps
  <2>4. CASE ReleaseStep(t)
    BY <2>4, ReleaseStepKeeps
  <2>5. CASE Client(t)
    BY <2>5, ClientKeeps
  <2> QED BY <2>1, <2>2, <2>3, <2>4, <2>5 DEF Thread
<1>2. CASE BackupThread
  BY <1>2, BackupKeeps
<1>3. CASE UNCHANGED vars
  <2>1. UNCHANGED <<lockList, held, psr, nsr, in_wait, pc, todo, fallible, calls, mutex,
                    before_after, pause_times, walk, heap>>
    BY <1>3 DEF vars
  <2>2. TypeOK'
    BY <2>1 DEF IInv, TypeOK
  <2>3. Control' /\ BackupControl' /\ Discipline'
    BY <2>1 DEF IInv, Control, BackupControl, Discipline
  <2>4. Nodes'
    BY <2>1, NodesUnchanged DEF IInv
  <2> QED BY <2>2, <2>3, <2>4 DEF IInv
<1> QED BY <1>1, <1>2, <1>3 DEF Next, Finished

\* The inductive invariant holds of every state the server reaches.
THEOREM Invariance == Spec => []IInv
<1>1. Init => IInv
  BY InitEstablishes, ConstantsAssumption
<1>2. IInv /\ [Next]_vars => IInv'
  BY NextKeeps, ConstantsAssumption
<1> QED BY <1>1, <1>2, PTL DEF Spec

\* Every variable of the lock manager keeps its type: no count goes astray and
\* no list holds anything but transactions, whatever the threads do.
THEOREM TypeCorrect == Spec => []TypeOK
<1>1. IInv => TypeOK
  BY DEF IInv
<1> QED BY <1>1, Invariance, PTL

\* insert_file_list never gives a file to a second transaction next to an
\* exclusive owner, as long as no freed node of the shared chain was used.
THEOREM ExclusionHolds == Spec => []Exclusion
<1>1. IInv => Exclusion
  <2> SUFFICES ASSUME IInv, heap # "used", NEW f \in Files, NEW t \in Txns, NEW u \in Txns,
                      t # u, held[t][f] = Exclusive
               PROVE  held[u][f] = Unlocked
    BY DEF Exclusion, ExclusiveAlone
  <2>1. lockList[f] = <<t>> /\ (held[u][f] # Unlocked => On(u, lockList[f]))
    BY DEF IInv, Nodes
  <2>2. ~On(u, <<t>>)
    BY DEF On
  <2> QED BY <2>1, <2>2
<1> QED BY <1>1, Invariance, PTL

\* The release loops of commit and abort leave no node behind: what ended, or
\* never began, blocks nobody, freed nodes or not.
THEOREM NothingIsLeftBehind == Spec => []NothingLeftBehind
<1>1. IInv => NothingLeftBehind
  <2> SUFFICES ASSUME IInv, NEW t \in Txns, pc[t] \in {"idle", "ending", "done"},
                      NEW f \in Files
               PROVE  /\ held[t][f] = Unlocked
                      /\ \A i \in 1..Len(lockList[f]) : lockList[f][i] # t
    BY DEF NothingLeftBehind
  <2>1. held[t][f] = Unlocked
    BY DEF IInv, Control
  <2>2. \A i \in 1..Len(lockList[f]) : held[lockList[f][i]][f] # Unlocked
    BY DEF IInv, Nodes
  <2> QED BY <2>1, <2>2
<1> QED BY <1>1, Invariance, PTL

-----------------------------------------------------------------------------
(***************************************************************************)
(* The wait node of an inode.  in_wait is only ever added to and taken     *)
(* from, so that it counts the waiting threads is an invariant by itself,  *)
(* next to IInv.                                                           *)
(***************************************************************************)
Waits == {"wait", "woken"}

Counts ==
    \A f \in Files : /\ IsFiniteSet(WaitingOn(f))
                     /\ in_wait[f] = Cardinality(WaitingOn(f))

\* A step counts right when it leaves in_wait alone and, of every thread,
\* whether it waits and for what.
LEMMA SameWaiters ==
    ASSUME Counts, in_wait' = in_wait,
           \A u \in Txns : pc'[u] \in Waits <=> pc[u] \in Waits,
           \A u \in Txns : pc[u] \in Waits => todo'[u] = todo[u]
    PROVE  Counts'
<1>1. ASSUME NEW f \in Files PROVE WaitingOn(f)' = WaitingOn(f)
  <2>1. ASSUME NEW u \in Txns
        PROVE  pc'[u] \in {"wait", "woken"} /\ Head(todo'[u]).inode = f
               <=> pc[u] \in {"wait", "woken"} /\ Head(todo[u]).inode = f
    BY DEF Waits
  <2> QED BY <2>1 DEF WaitingOn
<1>2. ASSUME NEW f \in Files
      PROVE  IsFiniteSet(WaitingOn(f)') /\ in_wait'[f] = Cardinality(WaitingOn(f)')
  BY <1>1, <1>2 DEF Counts
<1> QED BY <1>2 DEF Counts

\* The step of a thread that does not wait, before or after it.
LEMMA RunnerCounts ==
    ASSUME TypeOK, Counts, in_wait' = in_wait, NEW t \in Txns, NEW q, q \notin Waits,
           pc[t] \notin Waits, pc' = pc \/ pc' = [pc EXCEPT ![t] = q],
           NEW r, todo' = todo \/ todo' = [todo EXCEPT ![t] = r]
    PROVE  Counts'
<1>1. pc \in [Txns -> PC] /\ DOMAIN todo = Txns
  BY DEF TypeOK
<1>2. \A u \in Txns : pc'[u] \in Waits <=> pc[u] \in Waits
  BY <1>1
<1>3. \A u \in Txns : pc[u] \in Waits => todo'[u] = todo[u]
  BY <1>1
<1> QED BY <1>2, <1>3, SameWaiters

\* insert_wait_list, update_wait_list: one thread more, and counted.
LEMMA BlockCounts ==
    ASSUME IInv, Counts, NEW t \in Txns, Block(t)
    PROVE  Counts'
<1>1. pc[t] = "call" /\ todo' = todo /\ pc' = [pc EXCEPT ![t] = "wait"]
  BY DEF Block, EntersInsert
<1>2. pc \in [Txns -> PC] /\ in_wait \in [Files -> Int]
  BY DEF IInv, TypeOK
<1>3. in_wait' = [in_wait EXCEPT ![Req(t).inode] = @ + 1]
  BY DEF Block
<1> SUFFICES ASSUME NEW f \in Files
             PROVE  IsFiniteSet(WaitingOn(f)') /\ in_wait'[f] = Cardinality(WaitingOn(f)')
  BY DEF Counts
<1>4. IsFiniteSet(WaitingOn(f)) /\ in_wait[f] = Cardinality(WaitingOn(f))
  BY DEF Counts
<1>5. t \notin WaitingOn(f)
  BY <1>1 DEF WaitingOn
<1>6. CASE Req(t).inode = f
  <2>1. WaitingOn(f)' = WaitingOn(f) \cup {t}
    BY <1>1, <1>2, <1>6 DEF WaitingOn, Req
  <2>2. in_wait'[f] = in_wait[f] + 1
    BY <1>2, <1>3, <1>6
  <2> QED BY <1>4, <1>5, <2>1, <2>2, FS_AddElement
<1>7. CASE Req(t).inode # f
  <2>1. WaitingOn(f)' = WaitingOn(f)
    BY <1>1, <1>2, <1>7 DEF WaitingOn, Req
  <2>2. in_wait'[f] = in_wait[f]
    BY <1>2, <1>3, <1>7
  <2> QED BY <1>4, <2>1, <2>2
<1> QED BY <1>6, <1>7

\* update_wait_list_on_wake: one thread less.
LEMMA WakeUpCounts ==
    ASSUME IInv, Counts, NEW t \in Txns, WakeUp(t)
    PROVE  Counts'
<1>1. pc[t] = "woken" /\ todo' = todo /\ pc' = [pc EXCEPT ![t] = "call"]
  BY DEF WakeUp
<1>2. pc \in [Txns -> PC] /\ in_wait \in [Files -> Int]
  BY DEF IInv, TypeOK
<1>3. in_wait' = [in_wait EXCEPT ![Req(t).inode] = @ - 1]
  BY DEF WakeUp
<1> SUFFICES ASSUME NEW f \in Files
             PROVE  IsFiniteSet(WaitingOn(f)') /\ in_wait'[f] = Cardinality(WaitingOn(f)')
  BY DEF Counts
<1>4. IsFiniteSet(WaitingOn(f)) /\ in_wait[f] = Cardinality(WaitingOn(f))
  BY DEF Counts
<1>5. CASE Req(t).inode = f
  <2>1. WaitingOn(f)' = WaitingOn(f) \ {t} /\ t \in WaitingOn(f)
    BY <1>1, <1>2, <1>5 DEF WaitingOn, Req
  <2>2. in_wait'[f] = in_wait[f] - 1
    BY <1>2, <1>3, <1>5
  <2> QED BY <1>4, <2>1, <2>2, FS_RemoveElement
<1>6. CASE Req(t).inode # f
  <2>1. WaitingOn(f)' = WaitingOn(f)
    BY <1>1, <1>2, <1>6 DEF WaitingOn, Req
  <2>2. in_wait'[f] = in_wait[f]
    BY <1>2, <1>3, <1>6
  <2> QED BY <1>4, <2>1, <2>2
<1> QED BY <1>5, <1>6

\* A release wakes sleepers, who stay on the wait list until they run.
LEMMA ReleaseCounts ==
    ASSUME TypeOK, Counts, in_wait' = in_wait, todo' = todo, NEW t \in Txns, NEW F,
           NEW q, q \notin Waits, pc[t] \notin Waits, pc' = AfterWakes(t, F, q)
    PROVE  Counts'
<1>1. ASSUME NEW u \in Txns PROVE pc'[u] \in Waits <=> pc[u] \in Waits
  <2>1. pc'[u] = IF u = t THEN q
                 ELSE IF pc[u] = "wait" /\ Req(u).inode \in F /\ Wakes(t, Req(u).inode)
                 THEN "woken" ELSE pc[u]
    BY DEF AfterWakes
  <2> QED BY <2>1 DEF Waits
<1> QED BY <1>1, SameWaiters

\* insert_file_list counts the thread when, and only when, it blocks it.
LEMMA InsertCounts ==
    ASSUME IInv, Counts, NEW t \in Txns, InsertFileList(t)
    PROVE  Counts'
<1>1. pc[t] = "call" /\ pc[t] \notin Waits
  BY DEF InsertFileList, Own, GrantFresh, GrantShared, Block, MSPause, MSAbort,
         EntersInsert, Waits
<1>2. TypeOK
  BY DEF IInv
<1>3. CASE Proceed(t)
  <2>1. /\ in_wait' = in_wait
        /\ todo' = [todo EXCEPT ![t] = Tail(todo[t])]
        /\ pc' = pc \/ \E q \in {"run", "abort"} : pc' = [pc EXCEPT ![t] = q]
    BY <1>3 DEF Proceed
  <2>2. "run" \notin Waits /\ "abort" \notin Waits
    BY DEF Waits
  <2> QED BY <1>1, <1>2, <2>1, <2>2, RunnerCounts
<1>4. CASE Block(t)
  BY <1>4, BlockCounts
<1>5. CASE MSPause(t)
  <2>1. in_wait' = in_wait /\ todo' = todo /\ pc' = [pc EXCEPT ![t] = "paused"]
    BY <1>5 DEF MSPause
  <2>2. "paused" \notin Waits
    BY DEF Waits
  <2> QED BY <1>1, <1>2, <2>1, <2>2, RunnerCounts
<1>6. CASE MSAbort(t)
  <2>1. /\ in_wait' = in_wait
        /\ todo' = [todo EXCEPT ![t] = <<>>]
        /\ pc' = [pc EXCEPT ![t] = "abort"]
    BY <1>6 DEF MSAbort
  <2>2. "abort" \notin Waits
    BY DEF Waits
  <2> QED BY <1>1, <1>2, <2>1, <2>2, RunnerCounts
<1> QED BY <1>3, <1>4, <1>5, <1>6 DEF InsertFileList, Own, GrantFresh, GrantShared

\* What clients decide, and the steps of a thread outside insert_file_list.
LEMMA ThreadCounts ==
    ASSUME IInv, Counts, NEW t \in Txns,
           Client(t) \/ PauseEnds(t) \/ SpuriousWake(t) \/ ReleaseStep(t)
    PROVE  Counts'
<1>1. TypeOK
  BY DEF IInv
<1>2. "run" \notin Waits /\ "call" \notin Waits /\ "commit" \notin Waits
      /\ "abort" \notin Waits /\ "ending" \notin Waits /\ "done" \notin Waits
      /\ "idle" \notin Waits /\ "paused" \notin Waits
  BY DEF Waits
<1>3. CASE Client(t)
  <2>1. /\ in_wait' = in_wait /\ pc[t] \in {"idle", "run"}
        /\ \E q \in {"run", "call", "commit", "abort"} : pc' = [pc EXCEPT ![t] = q]
        /\ todo' = todo \/ \E r : todo' = [todo EXCEPT ![t] = r]
    BY <1>3 DEF Client, on_txn_beg, StartCall, on_txn_commit, on_txn_abort
  <2> QED BY <1>1, <1>2, <2>1, RunnerCounts
<1>4. CASE PauseEnds(t)
  BY <1>1, <1>2, <1>4, RunnerCounts DEF PauseEnds
<1>5. CASE SpuriousWake(t)
  <2>1. pc[t] = "wait" /\ pc' = [pc EXCEPT ![t] = "woken"] /\ todo' = todo /\ in_wait' = in_wait
    BY <1>5 DEF SpuriousWake
  <2>2. \A u \in Txns : pc'[u] \in Waits <=> pc[u] \in Waits
    BY <1>1, <2>1 DEF TypeOK, Waits
  <2> QED BY <2>1, <2>2, SameWaiters
<1>6. CASE ReleaseStep(t)
  <2>1. CASE pc[t] \in {"commit", "abort"} /\ ReleaseAll(t)
    <3>1. PICK F : /\ pc' = AfterWakes(t, F, "ending")
                   /\ in_wait' = in_wait /\ todo' = todo
      BY <2>1 DEF ReleaseAll
    <3> QED BY <1>1, <1>2, <2>1, <3>1, ReleaseCounts
  <2>2. CASE txn_delete(t)
    BY <1>1, <1>2, <2>2, RunnerCounts DEF txn_delete
  <2> QED BY <1>6, <2>1, <2>2 DEF ReleaseStep, release_locks_on_success, release_locks_on_abort
<1> QED BY <1>3, <1>4, <1>5, <1>6

\* The loop of the backup.
LEMMA BackupCounts ==
    ASSUME IInv, Counts, BackupThread
    PROVE  Counts'
<1>1. TypeOK /\ Backup \in Txns
  BY DEF IInv, Txns
<1>2. "run" \notin Waits /\ "call" \notin Waits /\ "done" \notin Waits /\ "idle" \notin Waits
  BY DEF Waits
<1>3. CASE on_bck_beg \/ EndBackup
  BY <1>1, <1>2, <1>3, RunnerCounts DEF on_bck_beg, EndBackup
<1>4. CASE lock_file
  BY <1>1, <1>2, <1>4, RunnerCounts DEF lock_file
<1>5. CASE release_locks_by_backup
  BY <1>1, <1>2, <1>5, ReleaseCounts DEF release_locks_by_backup
<1> QED BY <1>3, <1>4, <1>5 DEF BackupThread

\* The wait nodes are right in every state.
LEMMA CountsInvariant == Spec => []Counts
<1>1. Init => Counts
  <2> SUFFICES ASSUME Init, NEW f \in Files
               PROVE  IsFiniteSet(WaitingOn(f)) /\ in_wait[f] = Cardinality(WaitingOn(f))
    BY DEF Counts
  <2>1. WaitingOn(f) = {}
    BY DEF Init, WaitingOn
  <2> QED BY <2>1, FS_EmptySet DEF Init
<1>2. IInv /\ Counts /\ [Next]_vars => Counts'
  <2> SUFFICES ASSUME IInv, Counts, [Next]_vars PROVE Counts'
    OBVIOUS
  <2>1. CASE UNCHANGED vars
    BY <2>1, SameWaiters DEF vars
  <2>2. CASE BackupThread
    BY <2>2, BackupCounts
  <2>3. ASSUME NEW t \in Txns, Thread(t) \/ Client(t) \/ SpuriousWake(t)
        PROVE  Counts'
    BY <2>3, InsertCounts, ThreadCounts, WakeUpCounts DEF Thread
  <2> QED BY <2>1, <2>2, <2>3 DEF Next, Finished
<1> QED BY <1>1, <1>2, Invariance, PTL DEF Spec

\* update_wait_list_on_wake frees the wait node of a file when its last waiter
\* left it and never before, whatever freed nodes the shared chains led to.
THEOREM WaitersAreCounted == Spec => []WaitCount
<1>1. Counts => WaitCount
  BY DEF Counts, WaitCount
<1> QED BY <1>1, CountsInvariant, PTL

-----------------------------------------------------------------------------
(***************************************************************************)
(* The lock manager implements LockService.  Acquiring maps to the grants, *)
(* ReleaseEverything to the release loops of commit and abort,             *)
(* ReleaseSingle to the one of the backup, and everything else stutters.   *)
(***************************************************************************)
\* What the abstract service sees of a step that leaves all locks alone.
LEMMA Stutters ==
    ASSUME TypeOK, NEW t \in Txns, UNCHANGED <<held, heap>>,
           \A u \in Txns : u # t => pc'[u] = pc[u],
           t # Backup => (pc[t] \in {"ending", "done"} <=> pc'[t] \in {"ending", "done"})
    PROVE  UNCHANGED Service!absVars
<1>1. {u \in UserTxns : pc'[u] \in {"ending", "done"}} = {u \in UserTxns : pc[u] \in {"ending", "done"}}
  <2>1. ASSUME NEW u \in UserTxns
        PROVE  pc'[u] \in {"ending", "done"} <=> pc[u] \in {"ending", "done"}
    <3>1. u \in Txns /\ u # Backup
      BY ConstantsAssumption DEF Txns, Backup, ConstantsAssumption
    <3> QED BY <3>1
  <2> QED BY <2>1
<1> QED BY <1>1 DEF Service!absVars

\* A grant, on a sound list, is an Acquire of the service.
LEMMA GrantAcquires ==
    ASSUME IInv, NEW t \in Txns, GrantFresh(t) \/ GrantShared(t),
           heap # "used", heap' # "used"
    PROVE  \E c \in Service!Clients, o \in Files, mode \in {0, 1} : Service!Acquire(c, o, mode)
<1> DEFINE f == Req(t).inode
<1>1. /\ EntersInsert(t) /\ Proceed(t) /\ pc[t] = "call" /\ pc[t] \in InCall
      /\ held' = [held EXCEPT ![t][f] = Req(t).mode]
  BY DEF GrantFresh, GrantShared, EntersInsert, InCall
<1>2. Req(t) \in Request /\ todo[t] # <<>>
  BY <1>1, Requests DEF IInv, Control
<1>3. f \in Files /\ Req(t).mode \in {0, 1}
  BY <1>2 DEF Request, Shared, Exclusive
<1> HIDE DEF f
<1>4. /\ held[t][f] = Unlocked
      /\ \A u \in Txns \ {t} : \/ held[u][f] = Unlocked
                               \/ Req(t).mode = Shared /\ held[u][f] = Shared
  <2>1. CASE GrantFresh(t)
    <3>1. lockList[f] = <<>>
      BY <2>1 DEF GrantFresh, Fresh, f
    <3>2. \A u \in Txns : ~On(u, <<>>)
      BY DEF On
    <3>3. \A u \in Txns : held[u][f] # Unlocked => On(u, lockList[f])
      BY <1>3 DEF IInv, Nodes
    <3> QED BY <3>1, <3>2, <3>3
  <2>2. CASE GrantShared(t)
    <3>1. Sharable(t)
      BY <2>2 DEF GrantShared
    <3>2. /\ Req(t).mode = Shared /\ held[t][f] = Unlocked
          /\ \A u \in Txns : held[u][f] # Exclusive
      BY <3>1, <1>1, SharableMeans DEF IInv, f
    <3>3. \A u \in Txns : held[u][f] \in {Unlocked, Shared, Exclusive}
      BY <1>3 DEF IInv, TypeOK
    <3> QED BY <3>2, <3>3
  <2> QED BY <2>1, <2>2
<1>5. Service!Compatible(t, f, Req(t).mode)
  BY <1>4 DEF Service!Compatible, Service!Clients, Txns, Unlocked, Shared
<1>6. t \notin {u \in UserTxns : pc[u] \in {"ending", "done"}}
  BY <1>1
<1>7. ASSUME t = Backup PROVE held[t] = Service!None
  <2>1. \A g \in Files : held[t][g] = -1
    BY <1>1, <1>7 DEF IInv, BackupControl, Unlocked
  <2>2. held[t] \in [Files -> {Unlocked, Shared, Exclusive}]
    BY DEF IInv, TypeOK
  <2> QED BY <2>1, <2>2 DEF Service!None
<1>8. {u \in UserTxns : pc'[u] \in {"ending", "done"}} = {u \in UserTxns : pc[u] \in {"ending", "done"}}
  <2>1. pc \in [Txns -> PC]
    BY DEF IInv, TypeOK
  <2>2. \/ pc' = pc
        \/ \E q \in {"run", "abort"} : pc' = [pc EXCEPT ![t] = q]
    BY <1>1 DEF Proceed
  <2>3. \A u \in Txns : pc'[u] \in {"ending", "done"} <=> pc[u] \in {"ending", "done"}
    BY <2>1, <2>2, <1>1
  <2>4. \A u \in UserTxns : pc'[u] \in {"ending", "done"} <=> pc[u] \in {"ending", "done"}
    BY <2>3 DEF Txns
  <2> QED BY <2>4
<1>9. (heap' = "used") = (heap = "used")
  OBVIOUS
<1>10. held[t][f] = -1
  BY <1>4 DEF Unlocked
<1>11. Service!Acquire(t, f, Req(t).mode)
  BY <1>1, <1>5, <1>6, <1>7, <1>8, <1>9, <1>10 DEF Service!Acquire
<1>12. t \in Service!Clients
  BY DEF Service!Clients, Txns
<1> QED BY <1>3, <1>11, <1>12

\* The release loop of commit or abort gives everything back, at once.
LEMMA ReleaseIsEverything ==
    ASSUME IInv, NEW t \in Txns, release_locks_on_success(t) \/ release_locks_on_abort(t),
           heap # "used", heap' # "used"
    PROVE  \E c \in UserTxns : Service!ReleaseEverything(c)
<1> DEFINE F == {f \in Files : held[t][f] # Unlocked}
<1>1. /\ ReleaseNodes(t, F) /\ pc' = AfterWakes(t, F, "ending")
      /\ pc[t] \in {"commit", "abort"}
  BY DEF release_locks_on_success, release_locks_on_abort, ReleaseAll
<1>2. t \in UserTxns
  BY <1>1 DEF IInv, BackupControl, Txns
<1>3. \A f \in Files : held[t][f] # Unlocked => f \in F
  OBVIOUS
<1>4. held' = [held EXCEPT ![t] = Service!None]
  <2>1. held' = [held EXCEPT ![t] = [f \in Files |-> IF f \in F THEN Unlocked ELSE held[t][f]]]
    BY <1>1 DEF ReleaseNodes, IInv, TypeOK
  <2>2. [f \in Files |-> IF f \in F THEN Unlocked ELSE held[t][f]] = [f \in Files |-> -1]
    BY <1>3 DEF Unlocked
  <2> QED BY <2>1, <2>2 DEF Service!None
<1>5. {u \in UserTxns : pc'[u] \in {"ending", "done"}}
      = {u \in UserTxns : pc[u] \in {"ending", "done"}} \cup {t}
  <2>1. /\ pc'[t] = "ending"
        /\ \A u \in Txns : u # t => \/ pc'[u] = pc[u]
                                    \/ pc[u] = "wait" /\ pc'[u] = "woken"
    <3>1. "ending" \in PC
      BY DEF PC
    <3> HIDE DEF F
    <3> QED BY <3>1, <1>1, WakesKeep DEF IInv
  <2>2. ASSUME NEW u \in UserTxns
        PROVE  pc'[u] \in {"ending", "done"} <=> pc[u] \in {"ending", "done"} \/ u = t
    <3>1. u \in Txns
      BY DEF Txns
    <3> QED BY <2>1, <3>1
  <2> QED BY <2>2, <1>2
<1>6. t \notin {u \in UserTxns : pc[u] \in {"ending", "done"}}
  BY <1>1
<1>7. (heap' = "used") = (heap = "used")
  OBVIOUS
<1> QED BY <1>2, <1>4, <1>5, <1>6, <1>7 DEF Service!ReleaseEverything

\* The release loop of the backup gives back the one lock it has.
LEMMA BackupReleaseIsSingle ==
    ASSUME IInv, release_locks_by_backup, heap # "used", heap' # "used"
    PROVE  Service!ReleaseSingle
<1> DEFINE F == {Head(walk)}
<1>0. Backup \in Txns
  BY DEF Txns
<1>1. /\ ReleaseNodes(Backup, F) /\ pc' = AfterWakes(Backup, F, "run")
      /\ pc[Backup] = "run"
  BY DEF release_locks_by_backup
<1>2. \A f \in Files : held[Backup][f] # Unlocked => f \in F
  BY <1>1 DEF IInv, BackupControl
<1> HIDE DEF F
<1>3. held' = [held EXCEPT ![Backup] = Service!None]
  <2>1. held' = [held EXCEPT ![Backup] = [f \in Files |-> IF f \in F THEN Unlocked ELSE held[Backup][f]]]
    BY <1>1, <1>0 DEF ReleaseNodes, IInv, TypeOK
  <2>2. [f \in Files |-> IF f \in F THEN Unlocked ELSE held[Backup][f]] = [f \in Files |-> -1]
    BY <1>2 DEF Unlocked
  <2> QED BY <2>1, <2>2 DEF Service!None
<1>4. {u \in UserTxns : pc'[u] \in {"ending", "done"}} = {u \in UserTxns : pc[u] \in {"ending", "done"}}
  <2>1. \A u \in Txns : u # Backup => \/ pc'[u] = pc[u]
                                      \/ pc[u] = "wait" /\ pc'[u] = "woken"
    <3>1. "run" \in PC
      BY DEF PC
    <3> QED BY <3>1, <1>0, <1>1, WakesKeep DEF IInv
  <2>2. ASSUME NEW u \in UserTxns
        PROVE  pc'[u] \in {"ending", "done"} <=> pc[u] \in {"ending", "done"}
    <3>1. u \in Txns /\ u # Backup
      BY ConstantsAssumption DEF Txns, Backup, ConstantsAssumption
    <3> QED BY <2>1, <3>1
  <2> QED BY <2>2
<1>5. (heap' = "used") = (heap = "used")
  OBVIOUS
<1> QED BY <1>3, <1>4, <1>5 DEF Service!ReleaseSingle

\* Once a freed node was used the history says so for good.
LEMMA HeapOnlyWorse ==
    ASSUME IInv, [Next]_vars, heap = "used"
    PROVE  heap' = "used"
<1> USE DEF IInv, lockVars
<1>1. ASSUME NEW t \in Txns, NEW F, ReleaseNodes(t, F) PROVE heap' = "used"
  BY <1>1 DEF ReleaseNodes
<1>2. CASE \E t \in Txns : Thread(t) \/ Client(t) \/ SpuriousWake(t)
  <2>1. PICK t \in Txns : Thread(t) \/ Client(t) \/ SpuriousWake(t)
    BY <1>2
  <2>2. CASE ReleaseStep(t)
    BY <2>2, <1>1 DEF ReleaseStep, release_locks_on_success, release_locks_on_abort,
                      ReleaseAll, txn_delete
  <2>3. CASE Client(t) \/ SpuriousWake(t) \/ PauseEnds(t) \/ WakeUp(t)
    BY <2>3 DEF Client, on_txn_beg, StartCall, on_txn_commit, on_txn_abort, SpuriousWake,
                PauseEnds, WakeUp
  <2>4. CASE GrantShared(t)
    BY <2>4 DEF GrantShared, LinkShared
  <2>5. CASE Own(t) \/ GrantFresh(t) \/ Block(t) \/ MSPause(t) \/ MSAbort(t)
    BY <2>5 DEF Own, GrantFresh, Block, MSPause, MSAbort
  <2> QED BY <2>1, <2>2, <2>3, <2>4, <2>5 DEF Thread, InsertFileList
<1>3. CASE BackupThread
  <2>1. Backup \in Txns
    BY DEF Txns
  <2> QED BY <1>1, <1>3, <2>1 DEF BackupThread, on_bck_beg, lock_file, EndBackup,
                                  release_locks_by_backup
<1>4. CASE UNCHANGED vars
  BY <1>4 DEF vars
<1> QED BY <1>2, <1>3, <1>4 DEF Next, Finished

\* A step of the lock manager is a step of the service, or leaves it alone.
LEMMA NextImplements ==
    ASSUME IInv, [Next]_vars
    PROVE  [Service!ServiceNext]_(Service!absVars)
<1> USE DEF IInv
<1>1. CASE heap' = "used"
  <2>1. Service!Break
    BY <1>1 DEF Service!Break
  <2> QED BY <2>1 DEF Service!ServiceNext
<1>2. CASE heap' # "used" /\ heap = "used"
  <2>1. heap' = heap \/ heap' = "used"
    BY <1>2, HeapOnlyWorse
  <2> QED BY <1>2, <2>1
<1>3. CASE heap' # "used" /\ heap # "used"
  <2>0. ~(heap = "used")
    BY <1>3
  <2>1. ASSUME NEW t \in Txns, Thread(t) \/ Client(t) \/ SpuriousWake(t)
        PROVE  [Service!ServiceNext]_(Service!absVars)
    <3>1. CASE GrantFresh(t) \/ GrantShared(t)
      BY <3>1, <1>3, <2>0, GrantAcquires DEF Service!ServiceNext
    <3>2. CASE release_locks_on_success(t) \/ release_locks_on_abort(t)
      BY <3>2, <1>3, <2>0, ReleaseIsEverything DEF Service!ServiceNext
    <3>3. CASE Own(t)
      <4>1. \/ pc' = pc
            \/ \E q \in {"run", "abort"} : pc' = [pc EXCEPT ![t] = q]
        BY <3>3 DEF Own, Proceed
      <4>2. pc[t] = "call" /\ UNCHANGED <<held, heap>>
        BY <3>3 DEF Own, EntersInsert, lockVars
      <4>3. /\ \A u \in Txns : u # t => pc'[u] = pc[u]
            /\ pc'[t] \in {"call", "run", "abort"}
        BY <4>1, <4>2 DEF TypeOK
      <4> QED BY <4>2, <4>3, Stutters
    <3>4. CASE \/ Block(t) \/ MSPause(t) \/ MSAbort(t) \/ PauseEnds(t) \/ WakeUp(t)
               \/ SpuriousWake(t) \/ Client(t)
      <4>1. PICK q \in {"wait", "paused", "abort", "call", "woken", "run", "commit"} :
               pc' = [pc EXCEPT ![t] = q]
        BY <3>4 DEF Block, MSPause, MSAbort, PauseEnds, WakeUp, SpuriousWake, Client,
                    on_txn_beg, StartCall, on_txn_commit, on_txn_abort
      <4>2. pc[t] \in {"call", "paused", "woken", "wait", "idle", "run"}
            /\ UNCHANGED <<held, heap>>
        BY <3>4 DEF Block, MSPause, MSAbort, PauseEnds, WakeUp, SpuriousWake, Client,
                    on_txn_beg, StartCall, on_txn_commit, on_txn_abort, EntersInsert, lockVars
      <4>3. pc'[t] = q /\ \A u \in Txns : u # t => pc'[u] = pc[u]
        BY <4>1 DEF TypeOK
      <4> QED BY <4>2, <4>3, Stutters
    <3>5. CASE txn_delete(t)
      <4>1. /\ pc[t] = "ending" /\ pc' = [pc EXCEPT ![t] = "done"]
            /\ UNCHANGED <<held, heap>>
        BY <3>5 DEF txn_delete, lockVars
      <4>2. pc'[t] = "done" /\ \A u \in Txns : u # t => pc'[u] = pc[u]
        BY <4>1 DEF TypeOK
      <4> QED BY <4>1, <4>2, Stutters
    <3> QED BY <2>1, <3>1, <3>2, <3>3, <3>4, <3>5 DEF Thread, InsertFileList, ReleaseStep
  <2>2. CASE release_locks_by_backup
    BY <2>2, <1>3, <2>0, BackupReleaseIsSingle DEF Service!ServiceNext
  <2>3. CASE on_bck_beg \/ lock_file \/ EndBackup
    <3>1. /\ UNCHANGED <<held, heap>> /\ Backup \in Txns
          /\ \E q \in PC : pc' = [pc EXCEPT ![Backup] = q]
      BY <2>3 DEF on_bck_beg, lock_file, EndBackup, lockVars, Txns, PC
    <3>2. \A u \in Txns : u # Backup => pc'[u] = pc[u]
      BY <3>1 DEF TypeOK
    <3> QED BY <3>1, <3>2, Stutters
  <2>4. CASE UNCHANGED vars
    BY <2>4 DEF vars, Service!absVars
  <2> QED BY <2>1, <2>2, <2>3, <2>4 DEF Next, BackupThread, Finished
<1> QED BY <1>1, <1>2, <1>3

\* The whole lock manager, with its waits, pauses, wake-ups and the backup, is
\* the strict two-phase lock service until a freed node is used.
THEOREM Refinement == Spec => ImplementsService
<1>1. Init => Service!ServiceInit
  BY DEF Init, Service!ServiceInit, Service!Clients, Service!None, Txns, Unlocked
<1>2. IInv /\ [Next]_vars => [Service!ServiceNext]_(Service!absVars)
  BY NextImplements
<1> QED BY <1>1, <1>2, Invariance, PTL DEF Spec, ImplementsService, Service!ServiceSpec

-----------------------------------------------------------------------------
(***************************************************************************)
(* Who is woken, and by whom: what follows rests on the chain of the       *)
(* sharers of a file, prev_shared_rec and next_shared_rec.                 *)
(***************************************************************************)

\* The neighbours of the k-th node of a list.
Before(s, k) == IF k = 1 THEN NoTxn ELSE s[k - 1]

After(s, k) == IF k = Len(s) THEN NoTxn ELSE s[k + 1]

\* A transaction whose nodes are freed for good.
Gone(n) == n # NoTxn /\ pc[n] \in {"ending", "done"}

\* A pointer that should lead to n: a release nobody was told of left it, if
\* it leads elsewhere.
LeadsTo(ptr, n) == ptr = n \/ (heap = "dangling" /\ Gone(ptr))

(***************************************************************************)
(* An invariant that is inductive next to IInv and Counts, in parts.       *)
(***************************************************************************)
Chain ==
    heap # "used" => \A f \in Files : \A k \in 1..Len(lockList[f]) :
        /\ LeadsTo(psr[lockList[f][k]][f], Before(lockList[f], k))
        /\ LeadsTo(nsr[lockList[f][k]][f], After(lockList[f], k))

\* While a thread sleeps on a file, another has it.
Sleepers == heap = "sound" => BlockedTillRelease

\* lock_file asks for exclusive locks only.
BackupNeverReads == \A f \in Files : held[Backup][f] # Shared

WakeInv == Chain /\ Sleepers /\ BackupNeverReads

-----------------------------------------------------------------------------
(***************************************************************************)
(* Lists.                                                                  *)
(***************************************************************************)

\* delete_file_list makes neighbours of the neighbours of the node it takes.
LEMMA WithoutNeighbours ==
    ASSUME NEW S, NEW s \in Seq(S), Distinct(s), NEW k \in 1..Len(s),
           NEW i \in 1..Len(Without(s, s[k]))
    PROVE  \E j \in 1..Len(s) :
              /\ j # k /\ Without(s, s[k])[i] = s[j]
              /\ Before(Without(s, s[k]), i) = IF j = k + 1 THEN Before(s, k) ELSE Before(s, j)
              /\ After(Without(s, s[k]), i) = IF j = k - 1 THEN After(s, k) ELSE After(s, j)
<1> DEFINE w == [m \in 1..Len(s) - 1 |-> IF m < k THEN s[m] ELSE s[m + 1]]
<1>1. Len(s) \in Nat /\ Len(s) >= 1
  OBVIOUS
<1>2. Without(s, s[k]) = w
  <2>1. (CHOOSE m \in 1..Len(s) : s[m] = s[k]) = k
    BY DEF Distinct
  <2> QED BY <2>1 DEF Without
<1>3. w \in Seq(S) /\ Len(w) = Len(s) - 1
  <2>1. \A m \in 1..Len(s) - 1 : w[m] \in S
    BY <1>1
  <2> QED BY <1>1, <2>1
<1>4. i \in 1..Len(s) - 1
  BY <1>2, <1>3
<1> SUFFICES \E j \in 1..Len(s) :
                /\ j # k /\ w[i] = s[j]
                /\ Before(w, i) = IF j = k + 1 THEN Before(s, k) ELSE Before(s, j)
                /\ After(w, i) = IF j = k - 1 THEN After(s, k) ELSE After(s, j)
  BY <1>2
<1>5. \A m \in 1..Len(s) - 1 : w[m] = IF m < k THEN s[m] ELSE s[m + 1]
  OBVIOUS
<1> HIDE DEF w
<1>6. CASE i < k - 1
  <2>1. w[i] = s[i] /\ i + 1 \in 1..Len(s) - 1 /\ w[i + 1] = s[i + 1]
    BY <1>1, <1>4, <1>5, <1>6
  <2>2. After(w, i) = After(s, i)
    BY <1>1, <1>3, <1>4, <1>6, <2>1 DEF After
  <2>3. Before(w, i) = Before(s, i)
    BY <1>1, <1>4, <1>5, <1>6 DEF Before
  <2>4. i \in 1..Len(s) /\ i # k /\ i # k + 1 /\ i # k - 1
    BY <1>1, <1>4, <1>6
  <2> QED BY <2>1, <2>2, <2>3, <2>4
<1>7. CASE i = k - 1
  <2>1. w[i] = s[i] /\ Before(w, i) = Before(s, i)
    BY <1>1, <1>4, <1>5, <1>7 DEF Before
  <2>2. After(w, i) = After(s, k)
    <3>1. CASE k = Len(s)
      BY <1>1, <1>3, <1>7, <3>1 DEF After
    <3>2. CASE k # Len(s)
      <4>1. w[i + 1] = s[k + 1]
        BY <1>1, <1>4, <1>5, <1>7, <3>2
      <4> QED BY <1>1, <1>3, <1>7, <3>2, <4>1 DEF After
    <3> QED BY <3>1, <3>2
  <2>3. i \in 1..Len(s) /\ i # k /\ i # k + 1
    BY <1>1, <1>4, <1>7
  <2> QED BY <1>7, <2>1, <2>2, <2>3
<1>8. CASE i >= k
  <2>1. w[i] = s[i + 1] /\ i + 1 \in 1..Len(s)
    BY <1>1, <1>4, <1>5, <1>8
  <2>2. After(w, i) = After(s, i + 1)
    <3>1. CASE i = Len(s) - 1
      BY <1>1, <1>3, <3>1 DEF After
    <3>2. CASE i # Len(s) - 1
      <4>1. w[i + 1] = s[i + 2]
        BY <1>1, <1>4, <1>5, <1>8, <3>2
      <4> QED BY <1>1, <1>3, <1>4, <3>2, <4>1 DEF After
    <3> QED BY <3>1, <3>2
  <2>3. Before(w, i) = IF i + 1 = k + 1 THEN Before(s, k) ELSE Before(s, i + 1)
    <3>1. CASE i = k
      <4>1. i # 1 => w[i - 1] = s[k - 1]
        BY <1>1, <1>4, <1>5, <3>1
      <4> QED BY <3>1, <4>1 DEF Before
    <3>2. CASE i # k
      <4>1. w[i - 1] = s[i] /\ i # 1
        BY <1>1, <1>4, <1>5, <1>8, <3>2
      <4> QED BY <1>1, <1>4, <3>2, <4>1 DEF Before
    <3> QED BY <3>1, <3>2
  <2>4. i + 1 # k /\ i + 1 # k - 1
    BY <1>1, <1>4, <1>8
  <2> QED BY <2>1, <2>2, <2>3, <2>4
<1> QED BY <1>1, <1>4, <1>6, <1>7, <1>8

\* NoTxn is the transaction of no node.
LEMMA NoTxnIsNone == ASSUME ConstantsAssumption PROVE NoTxn \notin Txns
BY DEF ConstantsAssumption, NoTxn, Txns, Backup

\* Two nodes of a list have the same neighbour on neither side.
LEMMA Neighbours ==
    ASSUME ConstantsAssumption, NEW s \in Seq(Txns), Distinct(s),
           NEW k \in 1..Len(s), NEW j \in 1..Len(s)
    PROVE  /\ s[j] = Before(s, k) <=> j = k - 1
           /\ s[j] = After(s, k) <=> j = k + 1
           /\ Before(s, k) # s[k] /\ After(s, k) # s[k]
           /\ Before(s, k) \in Txns \cup {NoTxn} /\ After(s, k) \in Txns \cup {NoTxn}
<1>1. s[j] # NoTxn /\ s[k] # NoTxn /\ Len(s) \in Nat
  BY NoTxnIsNone
<1>2. s[j] = Before(s, k) <=> j = k - 1
  BY <1>1 DEF Before, Distinct
<1>3. s[j] = After(s, k) <=> j = k + 1
  BY <1>1 DEF After, Distinct
<1>4. Before(s, k) # s[k] /\ After(s, k) # s[k]
  BY <1>1 DEF After, Before, Distinct
<1>5. Before(s, k) \in Txns \cup {NoTxn} /\ After(s, k) \in Txns \cup {NoTxn}
  BY <1>1 DEF After, Before
<1> QED BY <1>2, <1>3, <1>4, <1>5

-----------------------------------------------------------------------------
(***************************************************************************)
(* The chain.                                                              *)
(***************************************************************************)

\* A step that touches no node of the file.
LEMMA FileUntouched ==
    ASSUME TypeOK, Chain, heap # "used", heap' = heap, NEW f \in Files,
           lockList'[f] = lockList[f],
           \A u \in Txns : psr'[u][f] = psr[u][f] /\ nsr'[u][f] = nsr[u][f],
           \A u \in Txns : Gone(u) => Gone(u)',
           NEW k \in 1..Len(lockList'[f])
    PROVE  /\ LeadsTo(psr[lockList[f][k]][f], Before(lockList[f], k))'
           /\ LeadsTo(nsr[lockList[f][k]][f], After(lockList[f], k))'
<1>1. lockList[f] \in Seq(Txns) /\ k \in 1..Len(lockList[f])
  BY DEF TypeOK
<1>2. PICK u \in Txns : u = lockList[f][k]
  BY <1>1
<1>3. PICK p \in Txns \cup {NoTxn}, n \in Txns \cup {NoTxn} : p = psr[u][f] /\ n = nsr[u][f]
  BY DEF TypeOK
<1>4. LeadsTo(p, Before(lockList[f], k)) /\ LeadsTo(n, After(lockList[f], k))
  BY <1>1, <1>2, <1>3 DEF Chain
<1>5. lockList'[f][k] = u /\ psr'[u][f] = p /\ nsr'[u][f] = n
  BY <1>2, <1>3
<1>6. /\ Before(lockList[f], k)' = Before(lockList[f], k)
      /\ After(lockList[f], k)' = After(lockList[f], k)
  BY DEF Before, After
<1>7. /\ p = Before(lockList[f], k) \/ (heap' = "dangling" /\ Gone(p)')
      /\ n = After(lockList[f], k) \/ (heap' = "dangling" /\ Gone(n)')
  BY <1>3, <1>4 DEF LeadsTo, Gone
<1> QED BY <1>5, <1>6, <1>7 DEF LeadsTo, Gone

\* A chain nobody writes to stays, and so do the threads that are gone.
LEMMA ChainUntouched ==
    ASSUME TypeOK, Chain, UNCHANGED <<lockList, psr, nsr, heap>>,
           \A u \in Txns : Gone(u) => Gone(u)'
    PROVE  Chain'
<1> SUFFICES ASSUME heap # "used", NEW f \in Files, NEW k \in 1..Len(lockList'[f])
             PROVE  /\ LeadsTo(psr[lockList[f][k]][f], Before(lockList[f], k))'
                    /\ LeadsTo(nsr[lockList[f][k]][f], After(lockList[f], k))'
  BY DEF Chain, Before, After
<1> QED BY FileUntouched

\* Until a freed node is used, what has ended has no lock on any file.
LEMMA GoneIsNotLive ==
    ASSUME IInv, NEW n \in Txns \cup {NoTxn}, Gone(n), NEW f \in Files
    PROVE  ~Live(n, f)
BY DEF IInv, Control, Gone, Live

\* The pointers of t's node on a file whose chain the release relinks lead to
\* its neighbours: one that led to a freed node would make heap "used".
LEMMA RelinksNeighbours ==
    ASSUME IInv, Chain, NEW t \in Txns, NEW f \in Files, NEW k \in 1..Len(lockList[f]),
           t = lockList[f][k], Relinks(t, f), ~UsesFreed(t, f), heap # "used"
    PROVE  psr[t][f] = Before(lockList[f], k) /\ nsr[t][f] = After(lockList[f], k)
<1>1. psr[t][f] \in Txns \cup {NoTxn} /\ nsr[t][f] \in Txns \cup {NoTxn}
  BY DEF IInv, TypeOK
<1>2. ~Gone(psr[t][f]) /\ ~Gone(nsr[t][f])
  <2>1. ASSUME NEW n \in {psr[t][f], nsr[t][f]}, Gone(n) PROVE FALSE
    <3>1. ~Live(n, f) /\ n # NoTxn
      BY <1>1, <2>1, GoneIsNotLive DEF Gone
    <3> QED BY <3>1 DEF UsesFreed
  <2> QED BY <2>1
<1>3. /\ LeadsTo(psr[t][f], Before(lockList[f], k))
      /\ LeadsTo(nsr[t][f], After(lockList[f], k))
  BY DEF Chain
<1> QED BY <1>2, <1>3 DEF LeadsTo

\* The release loops: the neighbours of a node that goes are told, or point to
\* what ended from now on.  The backup, which goes on, has exclusive locks only.
LEMMA ReleaseKeepsChain ==
    ASSUME ConstantsAssumption, IInv, Chain, NEW t \in Txns, NEW F \in SUBSET Files,
           ReleaseNodes(t, F), \A f \in F : held[t][f] # Unlocked,
           pc'[t] \in {"ending", "done"} \/ \A f \in F : held[t][f] = Exclusive,
           \A u \in Txns : Gone(u) => Gone(u)'
    PROVE  Chain'
<1> DEFINE LeadsNow(ptr, n) ==
               \/ ptr = n
               \/ heap' = "dangling" /\ ptr # NoTxn /\ pc'[ptr] \in {"ending", "done"}
<1> SUFFICES ASSUME heap' # "used", NEW f \in Files, NEW i \in 1..Len(lockList'[f])
             PROVE  /\ LeadsNow(psr'[lockList'[f][i]][f], Before(lockList'[f], i))
                    /\ LeadsNow(nsr'[lockList'[f][i]][f], After(lockList'[f], i))
  BY DEF Chain, LeadsTo, Gone, Before, After
<1>1. /\ heap # "used"
      /\ \A g \in F : ~UsesFreed(t, g)
      /\ heap = "dangling" => heap' = "dangling"
      /\ f \in F /\ LeavesDangling(t, f) => heap' = "dangling"
  BY DEF ReleaseNodes
<1>2. /\ \A u \in Txns : psr[u][f] \in Txns \cup {NoTxn} /\ nsr[u][f] \in Txns \cup {NoTxn}
      /\ lockList[f] \in Seq(Txns)
  BY DEF IInv, TypeOK
<1>3. lockList'[f] = IF f \in F THEN Without(lockList[f], t) ELSE lockList[f]
  BY DEF ReleaseNodes
<1>4. ASSUME NEW u \in Txns, u # t
      PROVE  /\ psr'[u][f] = IF f \in F /\ Relinks(t, f) /\ u = nsr[t][f] THEN psr[t][f]
                             ELSE psr[u][f]
             /\ nsr'[u][f] = IF f \in F /\ Relinks(t, f) /\ u = psr[t][f] THEN nsr[t][f]
                             ELSE nsr[u][f]
  BY <1>4 DEF ReleaseNodes
<1>5. ASSUME NEW ptr \in Txns \cup {NoTxn}, NEW n, LeadsTo(ptr, n) PROVE LeadsNow(ptr, n)
  BY <1>1, <1>5 DEF LeadsTo, Gone
<1>6. \A k \in 1..Len(lockList[f]) :
         /\ lockList[f][k] \in Txns /\ held[lockList[f][k]][f] # Unlocked
         /\ LeadsTo(psr[lockList[f][k]][f], Before(lockList[f], k))
         /\ LeadsTo(nsr[lockList[f][k]][f], After(lockList[f], k))
  <2>1. \A k \in 1..Len(lockList[f]) : lockList[f][k] \in Txns
    BY <1>2
  <2>2. \A k \in 1..Len(lockList[f]) : held[lockList[f][k]][f] # Unlocked
    BY DEF IInv, Nodes
  <2> QED BY <1>1, <2>1, <2>2 DEF Chain
<1> HIDE DEF LeadsNow
<1>7. CASE f \notin F
  <2>1. /\ lockList'[f] = lockList[f]
        /\ \A u \in Txns : psr'[u][f] = psr[u][f] /\ nsr'[u][f] = nsr[u][f]
    BY <1>3, <1>7 DEF ReleaseNodes
  <2>2. i \in 1..Len(lockList[f])
    BY <2>1
  <2> DEFINE u == lockList[f][i]
  <2>3. /\ u \in Txns
        /\ LeadsTo(psr[u][f], Before(lockList[f], i))
        /\ LeadsTo(nsr[u][f], After(lockList[f], i))
    BY <1>6, <2>2
  <2> HIDE DEF u
  <2>4. /\ LeadsNow(psr[u][f], Before(lockList[f], i))
        /\ LeadsNow(nsr[u][f], After(lockList[f], i))
    BY <1>2, <1>5, <2>3
  <2>5. psr'[u][f] = psr[u][f] /\ nsr'[u][f] = nsr[u][f]
    BY <2>1, <2>3
  <2> QED BY <2>1, <2>4, <2>5 DEF u
<1>8. CASE f \in F
  <2>1. PICK k \in 1..Len(lockList[f]) : lockList[f][k] = t
    BY <1>1, <1>8 DEF IInv, Nodes, On
  <2>2. Distinct(lockList[f])
    BY DEF IInv, Nodes
  <2>3. lockList'[f] = Without(lockList[f], lockList[f][k])
    BY <1>3, <1>8, <2>1
  <2>4. PICK j \in 1..Len(lockList[f]) :
           /\ j # k /\ lockList'[f][i] = lockList[f][j]
           /\ Before(lockList'[f], i) = IF j = k + 1 THEN Before(lockList[f], k)
                                        ELSE Before(lockList[f], j)
           /\ After(lockList'[f], i) = IF j = k - 1 THEN After(lockList[f], k)
                                       ELSE After(lockList[f], j)
    <3> DEFINE s == lockList[f]
    <3>1. s \in Seq(Txns) /\ Distinct(s) /\ k \in 1..Len(s)
      BY <1>2, <2>2
    <3>2. i \in 1..Len(Without(s, s[k]))
      BY <2>3
    <3> HIDE DEF s
    <3>3. \E j \in 1..Len(s) :
             /\ j # k /\ Without(s, s[k])[i] = s[j]
             /\ Before(Without(s, s[k]), i) = IF j = k + 1 THEN Before(s, k) ELSE Before(s, j)
             /\ After(Without(s, s[k]), i) = IF j = k - 1 THEN After(s, k) ELSE After(s, j)
      BY <3>1, <3>2, WithoutNeighbours
    <3> QED BY <2>3, <3>3, Zenon DEF s
  <2> DEFINE u == lockList[f][j]
  <2>5. u \in Txns /\ u # t /\ Live(u, f)
    BY <1>6, <2>1, <2>2, <2>4, NoTxnIsNone DEF Distinct, Live
  <2>6. /\ u = Before(lockList[f], k) <=> j = k - 1
        /\ u = After(lockList[f], k) <=> j = k + 1
    BY <1>2, <2>2, Neighbours
  <2>7. /\ j = k + 1 => Before(lockList[f], j) = t
        /\ j = k - 1 => After(lockList[f], j) = t
    BY <1>2, <2>1 DEF Before, After
  <2>8. /\ LeadsTo(psr[u][f], Before(lockList[f], j))
        /\ LeadsTo(nsr[u][f], After(lockList[f], j))
    BY <1>6
  <2> HIDE DEF u
  <2>9. CASE Relinks(t, f)
    <3>1. psr[t][f] = Before(lockList[f], k) /\ nsr[t][f] = After(lockList[f], k)
      BY <1>1, <1>8, <2>1, <2>9, RelinksNeighbours
    <3>2. /\ psr'[u][f] = IF j = k + 1 THEN Before(lockList[f], k) ELSE psr[u][f]
          /\ nsr'[u][f] = IF j = k - 1 THEN After(lockList[f], k) ELSE nsr[u][f]
      BY <1>4, <1>8, <2>5, <2>6, <2>9, <3>1
    <3>3. /\ LeadsNow(psr'[u][f], Before(lockList'[f], i))
          /\ LeadsNow(nsr'[u][f], After(lockList'[f], i))
      <4>1. ASSUME NEW n PROVE LeadsNow(n, n)
        BY Zenon DEF LeadsNow
      <4>2. /\ LeadsNow(psr[u][f], Before(lockList[f], j))
            /\ LeadsNow(nsr[u][f], After(lockList[f], j))
        BY <1>2, <1>5, <2>5, <2>8
      <4>3. LeadsNow(psr'[u][f], Before(lockList'[f], i))
        BY <2>4, <3>2, <4>1, <4>2
      <4>4. LeadsNow(nsr'[u][f], After(lockList'[f], i))
        BY <2>4, <3>2, <4>1, <4>2
      <4> QED BY <4>3, <4>4
    <3> QED BY <2>4, <3>3 DEF u
  <2>10. CASE ~Relinks(t, f)
    <3>1. psr'[u][f] = psr[u][f] /\ nsr'[u][f] = nsr[u][f]
      BY <1>4, <2>5, <2>10
    <3>2. pc'[t] \in {"ending", "done"}
      <4>1. lockList[f] # <<t>>
        BY <1>2, <2>1, <2>4
      <4>2. held[t][f] # Exclusive
        BY <4>1 DEF IInv, Nodes
      <4> QED BY <1>8, <4>2
    <3>3. psr[u][f] = t \/ nsr[u][f] = t => heap' = "dangling"
      BY <1>1, <1>8, <2>5, <2>10 DEF LeavesDangling
    <3>4. ASSUME NEW ptr \in Txns \cup {NoTxn}, LeadsTo(ptr, t), ptr = t => heap' = "dangling",
                 NEW n
          PROVE  LeadsNow(ptr, n)
      <4>1. CASE ptr = t
        BY <3>2, <3>4, <4>1, NoTxnIsNone DEF LeadsNow
      <4>2. CASE ptr # t
        <5>1. heap = "dangling" /\ Gone(ptr)
          BY <3>4, <4>2 DEF LeadsTo
        <5>2. heap' = "dangling" /\ ptr \in Txns /\ ptr # NoTxn /\ Gone(ptr)'
          BY <1>1, <5>1 DEF Gone
        <5> QED BY <5>2 DEF LeadsNow, Gone
      <4> QED BY <4>1, <4>2
    <3>5. LeadsNow(psr[u][f], Before(lockList'[f], i))
      <4>1. CASE j = k + 1
        BY <1>2, <2>5, <2>7, <2>8, <3>3, <3>4, <4>1
      <4>2. CASE j # k + 1
        BY <1>2, <1>5, <2>4, <2>5, <2>8, <4>2
      <4> QED BY <4>1, <4>2
    <3>6. LeadsNow(nsr[u][f], After(lockList'[f], i))
      <4>1. CASE j = k - 1
        BY <1>2, <2>5, <2>7, <2>8, <3>3, <3>4, <4>1
      <4>2. CASE j # k - 1
        BY <1>2, <1>5, <2>4, <2>5, <2>8, <4>2
      <4> QED BY <4>1, <4>2
    <3> QED BY <2>4, <3>1, <3>5, <3>6 DEF u
  <2> QED BY <2>9, <2>10
<1> QED BY <1>7, <1>8

\* Returning from insert_file_list brings nobody back who has ended.
LEMMA ProceedKeepsGone ==
    ASSUME IInv, NEW t \in Txns, pc[t] = "call", Proceed(t)
    PROVE  \A u \in Txns : Gone(u) => Gone(u)'
<1>1. pc \in [Txns -> PC]
  BY DEF IInv, TypeOK
<1>2. pc' = pc \/ \E q \in {"run", "abort"} : pc' = [pc EXCEPT ![t] = q]
  BY DEF Proceed
<1> QED BY <1>1, <1>2 DEF Gone

\* A grant of a file nobody has begins a new chain.
LEMMA FreshKeepsChain ==
    ASSUME ConstantsAssumption, IInv, Chain, NEW t \in Txns, GrantFresh(t)
    PROVE  Chain'
<1> DEFINE f == Req(t).inode
<1>1. /\ pc[t] = "call" /\ Proceed(t) /\ heap' = heap
      /\ lockList' = [lockList EXCEPT ![f] = <<t>>]
      /\ psr' = [psr EXCEPT ![t][f] = NoTxn] /\ nsr' = [nsr EXCEPT ![t][f] = NoTxn]
  BY DEF GrantFresh, EntersInsert
<1>2. f \in Files
  BY <1>1, Requests DEF IInv, InCall, Request
<1>3. \A u \in Txns : Gone(u) => Gone(u)'
  BY <1>1, ProceedKeepsGone
<1>4. /\ lockList \in [Files -> Seq(Txns)]
      /\ psr \in [Txns -> [Files -> Txns \cup {NoTxn}]]
      /\ nsr \in [Txns -> [Files -> Txns \cup {NoTxn}]]
  BY DEF IInv, TypeOK
<1> HIDE DEF f
<1> SUFFICES ASSUME heap # "used", NEW g \in Files, NEW k \in 1..Len(lockList'[g])
             PROVE  /\ LeadsTo(psr[lockList[g][k]][g], Before(lockList[g], k))'
                    /\ LeadsTo(nsr[lockList[g][k]][g], After(lockList[g], k))'
  BY <1>1 DEF Chain, Before, After
<1>5. CASE g = f
  <2>1. lockList'[g] = <<t>> /\ k = 1
    BY <1>1, <1>2, <1>4, <1>5
  <2>2. psr'[t][g] = NoTxn /\ nsr'[t][g] = NoTxn
    BY <1>1, <1>2, <1>4, <1>5
  <2>3. Before(lockList[g], k)' = NoTxn /\ After(lockList[g], k)' = NoTxn
    BY <2>1 DEF Before, After
  <2> QED BY <2>1, <2>2, <2>3 DEF LeadsTo
<1>6. CASE g # f
  <2>1. lockList'[g] = lockList[g]
    BY <1>1, <1>4, <1>6
  <2>2. \A u \in Txns : psr'[u][g] = psr[u][g] /\ nsr'[u][g] = nsr[u][g]
    BY <1>1, <1>4, <1>6
  <2> QED BY <1>1, <1>3, <2>1, <2>2, FileUntouched DEF IInv
<1> QED BY <1>5, <1>6

\* A sharer is linked behind the last one, or a freed node is used: a pointer
\* to nothing is that of the last node.
LEMMA LinkedBehindLast ==
    ASSUME ConstantsAssumption, IInv, Chain, NEW f \in Files, heap # "used",
           NEW k \in 1..Len(lockList[f]), nsr[lockList[f][k]][f] = NoTxn
    PROVE  k = Len(lockList[f])
<1>1. LeadsTo(nsr[lockList[f][k]][f], After(lockList[f], k))
  BY DEF Chain
<1>2. After(lockList[f], k) = NoTxn
  BY <1>1 DEF LeadsTo, Gone
<1>3. lockList[f] \in Seq(Txns)
  BY DEF IInv, TypeOK
<1>4. \A j \in 1..Len(lockList[f]) : lockList[f][j] # NoTxn
  BY <1>3, NoTxnIsNone
<1> QED BY <1>2, <1>3, <1>4 DEF After

\* insert_file_list links a sharer in behind the others of its chain.
LEMMA SharedKeepsChain ==
    ASSUME ConstantsAssumption, IInv, Chain, NEW t \in Txns, GrantShared(t)
    PROVE  Chain'
<1> DEFINE f == Req(t).inode
<1>1. pc[t] = "call" /\ Proceed(t) /\ Sharable(t) /\ EntersInsert(t)
  BY DEF GrantShared, EntersInsert
<1>2. f \in Files /\ ~On(t, lockList[f])
  BY <1>1, SharableMeans DEF IInv
<1>3. \A u \in Txns : Gone(u) => Gone(u)'
  BY <1>1, ProceedKeepsGone
<1>4. /\ lockList \in [Files -> Seq(Txns)]
      /\ psr \in [Txns -> [Files -> Txns \cup {NoTxn}]]
      /\ nsr \in [Txns -> [Files -> Txns \cup {NoTxn}]]
  BY DEF IInv, TypeOK
<1>5. PICK k \in 1..Len(lockList[f]) : ChainEnd(f, k) /\ LinkShared(t, f, k)
  BY DEF GrantShared
<1> HIDE DEF f
<1> SUFFICES ASSUME heap' # "used", NEW g \in Files, NEW i \in 1..Len(lockList'[g])
             PROVE  /\ LeadsTo(psr[lockList[g][i]][g], Before(lockList[g], i))'
                    /\ LeadsTo(nsr[lockList[g][i]][g], After(lockList[g], i))'
  BY DEF Chain, Before, After
<1> DEFINE p == lockList[f][k]
           s == lockList[f]
<1>6. /\ nsr[p][f] = NoTxn /\ heap' = heap
      /\ lockList' = [lockList EXCEPT ![f] = InsertAfter(s, k, t)]
      /\ nsr' = [nsr EXCEPT ![p][f] = t, ![t][f] = NoTxn]
      /\ psr' = [psr EXCEPT ![t][f] = p]
  BY <1>5 DEF LinkShared
<1>7. s \in Seq(Txns) /\ Distinct(s) /\ k = Len(s) /\ Len(s) \in Nat /\ p \in Txns /\ p # t
  <2>1. s \in Seq(Txns) /\ Distinct(s)
    BY <1>2, <1>4 DEF IInv, Nodes
  <2>2. k = Len(s)
    BY <1>2, <1>6, LinkedBehindLast
  <2> QED BY <1>2, <2>1, <2>2 DEF On
<1>8. CASE g # f
  <2>1. lockList'[g] = lockList[g]
    BY <1>4, <1>6, <1>8
  <2>2. \A u \in Txns : psr'[u][g] = psr[u][g] /\ nsr'[u][g] = nsr[u][g]
    BY <1>4, <1>6, <1>7, <1>8
  <2> QED BY <1>3, <1>6, <2>1, <2>2, FileUntouched DEF IInv
<1>9. CASE g = f
  <2>1. lockList'[f] = InsertAfter(s, k, t)
    BY <1>2, <1>4, <1>6
  <2>2. /\ Len(lockList'[f]) = k + 1 /\ lockList'[f][k + 1] = t
        /\ \A j \in 1..k : lockList'[f][j] = s[j]
    BY <1>7, <2>1 DEF InsertAfter
  <2>3. /\ nsr'[t][f] = NoTxn /\ psr'[t][f] = p /\ nsr'[p][f] = t /\ psr'[p][f] = psr[p][f]
        /\ \A u \in Txns : u # t /\ u # p => psr'[u][f] = psr[u][f] /\ nsr'[u][f] = nsr[u][f]
    BY <1>2, <1>4, <1>6, <1>7
  <2> HIDE DEF s, p
  <2>4. CASE i = k + 1
    <3>1. lockList'[g][i] = t
      BY <1>9, <2>2, <2>4
    <3>2. After(lockList[g], i)' = NoTxn /\ Before(lockList[g], i)' = p
      BY <1>7, <1>9, <2>2, <2>4 DEF After, Before, p, s
    <3> QED BY <1>9, <2>3, <3>1, <3>2 DEF LeadsTo
  <2>5. CASE i # k + 1
    <3>1. i \in 1..Len(s) /\ lockList'[g][i] = s[i] /\ s[i] \in Txns
      BY <1>7, <1>9, <2>2, <2>5
    <3>2. PICK u \in Txns : u = s[i]
      BY <3>1
    <3>3. u # t /\ (u = p <=> i = k)
      BY <1>2, <1>7, <3>1, <3>2 DEF On, Distinct, s, p
    <3>4. PICK b \in Txns \cup {NoTxn}, n \in Txns \cup {NoTxn} : b = psr[u][f] /\ n = nsr[u][f]
      BY <1>2, <1>4
    <3>5. LeadsTo(b, Before(s, i)) /\ LeadsTo(n, After(s, i))
      BY <1>2, <1>6, <3>1, <3>2, <3>4 DEF Chain, s
    <3>6. Before(lockList[g], i)' = Before(s, i)
      BY <1>7, <1>9, <2>2, <3>1 DEF Before
    <3>7. After(lockList[g], i)' = IF i = k THEN t ELSE After(s, i)
      BY <1>7, <1>9, <2>2, <3>1 DEF After
    <3>8. psr'[u][f] = b /\ nsr'[u][f] = IF i = k THEN t ELSE n
      BY <2>3, <3>3, <3>4
    <3>9. /\ b = Before(s, i) \/ (heap' = "dangling" /\ Gone(b)')
          /\ n = After(s, i) \/ (heap' = "dangling" /\ Gone(n)')
      BY <1>3, <1>6, <3>4, <3>5 DEF LeadsTo, Gone
    <3> QED BY <1>9, <3>1, <3>2, <3>6, <3>7, <3>8, <3>9 DEF LeadsTo, Gone
  <2> QED BY <2>4, <2>5
<1> QED BY <1>8, <1>9

\* A step of the control of one thread, which has not ended.
LEMMA MoveKeepsGone ==
    ASSUME IInv, NEW t \in Txns, NEW q, pc' = pc \/ pc' = [pc EXCEPT ![t] = q],
           pc[t] \notin {"ending", "done"} \/ q = "done"
    PROVE  \A u \in Txns : Gone(u) => Gone(u)'
<1>1. pc \in [Txns -> PC]
  BY DEF IInv, TypeOK
<1> QED BY <1>1 DEF Gone

\* A wake-up brings no thread back that is gone.
LEMMA WakesKeepGone ==
    ASSUME IInv, NEW t \in Txns, NEW F, NEW q, pc' = AfterWakes(t, F, q),
           pc[t] \notin {"ending", "done"}
    PROVE  (\A u \in Txns : Gone(u) => Gone(u)') /\ pc'[t] = q
BY DEF AfterWakes, Gone

\* No step of any thread leaves a pointer between two sharers wrong.
LEMMA NextKeepsChain ==
    ASSUME ConstantsAssumption, IInv, Chain, BackupNeverReads, [Next]_vars
    PROVE  Chain'
<1>1. TypeOK /\ Backup \in Txns
  BY DEF IInv, Txns
<1>2. CASE UNCHANGED vars
  BY <1>1, <1>2, ChainUntouched DEF vars, Gone
<1>3. ASSUME NEW t \in Txns, InsertFileList(t) PROVE Chain'
  <2>1. pc[t] = "call"
    BY <1>3 DEF InsertFileList, Own, GrantFresh, GrantShared, Block, MSPause, MSAbort,
                EntersInsert
  <2>2. CASE Own(t)
    BY <1>1, <2>1, <2>2, ProceedKeepsGone, ChainUntouched DEF Own, lockVars
  <2>3. CASE GrantFresh(t)
    BY <2>3, FreshKeepsChain
  <2>4. CASE GrantShared(t)
    BY <2>4, SharedKeepsChain
  <2>5. CASE Block(t) \/ MSPause(t) \/ MSAbort(t)
    <3>1. /\ UNCHANGED lockVars
          /\ \E q \in {"wait", "paused", "abort"} : pc' = [pc EXCEPT ![t] = q]
      BY <2>5 DEF Block, MSPause, MSAbort
    <3>2. \A u \in Txns : Gone(u) => Gone(u)'
      BY <2>1, <3>1, MoveKeepsGone
    <3> QED BY <1>1, <3>1, <3>2, ChainUntouched DEF lockVars
  <2> QED BY <1>3, <2>2, <2>3, <2>4, <2>5 DEF InsertFileList
<1>4. ASSUME NEW t \in Txns,
             PauseEnds(t) \/ WakeUp(t) \/ SpuriousWake(t) \/ Client(t) \/ txn_delete(t)
      PROVE  Chain'
  <2>1. /\ UNCHANGED lockVars
        /\ \E q \in PC : /\ pc' = [pc EXCEPT ![t] = q]
                         /\ pc[t] \notin {"ending", "done"} \/ q = "done"
    BY <1>4 DEF PauseEnds, WakeUp, SpuriousWake, Client, on_txn_beg, StartCall,
                on_txn_commit, on_txn_abort, txn_delete, PC
  <2>2. \A u \in Txns : Gone(u) => Gone(u)'
    BY <2>1, MoveKeepsGone
  <2> QED BY <1>1, <2>1, <2>2, ChainUntouched DEF lockVars
<1>5. ASSUME NEW t \in Txns, ReleaseAll(t), pc[t] \in {"commit", "abort"} PROVE Chain'
  <2> DEFINE F == {f \in Files : held[t][f] # Unlocked}
  <2>1. ReleaseNodes(t, F) /\ pc' = AfterWakes(t, F, "ending")
    BY <1>5 DEF ReleaseAll
  <2>2. F \in SUBSET Files /\ \A f \in F : held[t][f] # Unlocked
    OBVIOUS
  <2> HIDE DEF F
  <2>3. (\A u \in Txns : Gone(u) => Gone(u)') /\ pc'[t] = "ending"
    BY <1>5, <2>1, WakesKeepGone
  <2> QED BY <2>1, <2>2, <2>3, ReleaseKeepsChain
<1>6. CASE release_locks_by_backup
  <2> DEFINE F == {Head(walk)}
  <2>1. /\ ReleaseNodes(Backup, F) /\ pc' = AfterWakes(Backup, F, "run")
        /\ pc[Backup] = "run" /\ walk # <<>>
        /\ held[Backup][Head(walk)] # Unlocked
    BY <1>6 DEF release_locks_by_backup
  <2>2. Head(walk) \in Files /\ F \in SUBSET Files
    BY <1>1, <2>1 DEF TypeOK
  <2>3. \A f \in F : held[Backup][f] = Exclusive
    <3>1. held \in [Txns -> [Files -> {Unlocked, Shared, Exclusive}]]
      BY <1>1 DEF TypeOK
    <3>2. \A g \in Files : held[Backup][g] \in {Unlocked, Shared, Exclusive}
      BY <1>1, <3>1
    <3> QED BY <2>1, <2>2, <3>2 DEF BackupNeverReads
  <2>4. \A f \in F : held[Backup][f] # Unlocked
    BY <2>1
  <2> HIDE DEF F
  <2>5. \A u \in Txns : Gone(u) => Gone(u)'
    BY <1>1, <2>1, WakesKeepGone
  <2> QED BY <1>1, <2>1, <2>2, <2>3, <2>4, <2>5, ReleaseKeepsChain
<1>7. CASE on_bck_beg \/ lock_file \/ EndBackup
  <2>1. /\ UNCHANGED lockVars /\ pc[Backup] \notin {"ending", "done"}
        /\ \E q \in PC : pc' = [pc EXCEPT ![Backup] = q]
    BY <1>7 DEF on_bck_beg, lock_file, EndBackup, PC
  <2>2. \A u \in Txns : Gone(u) => Gone(u)'
    BY <1>1, <2>1, MoveKeepsGone
  <2> QED BY <1>1, <2>1, <2>2, ChainUntouched DEF lockVars
<1> QED
  BY <1>2, <1>3, <1>4, <1>5, <1>6, <1>7
  DEF Next, Finished, Thread, BackupThread, ReleaseStep, release_locks_on_success,
      release_locks_on_abort

\* The backup's locks stay exclusive.
LEMMA NextKeepsBackup ==
    ASSUME ConstantsAssumption, IInv, BackupNeverReads, [Next]_vars
    PROVE  BackupNeverReads'
<1>1. /\ held \in [Txns -> [Files -> {Unlocked, Shared, Exclusive}]]
      /\ TypeOK /\ Nodes /\ Backup \in Txns /\ Unlocked # Shared /\ Exclusive # Shared
  BY DEF IInv, TypeOK, Txns, Unlocked, Shared, Exclusive
<1>2. ASSUME NEW t \in Txns, GrantFresh(t) \/ GrantShared(t) PROVE BackupNeverReads'
  <2>1. pc[t] = "call" /\ held' = [held EXCEPT ![t][Req(t).inode] = Req(t).mode]
    BY <1>2 DEF GrantFresh, GrantShared, EntersInsert
  <2>2. t = Backup => Req(t).mode = Exclusive
    BY <2>1 DEF IInv, BackupControl, Req, Want
  <2> QED BY <1>1, <2>1, <2>2 DEF BackupNeverReads
<1>3. ASSUME NEW t \in Txns, NEW F \in SUBSET Files, ReleaseNodes(t, F) PROVE BackupNeverReads'
  BY <1>1, <1>3, ReleaseKeeps DEF BackupNeverReads
<1>4. CASE UNCHANGED held
  BY <1>4 DEF BackupNeverReads
<1>5. ASSUME NEW t \in Txns, Thread(t) \/ Client(t) \/ SpuriousWake(t) PROVE BackupNeverReads'
  <2>1. \/ GrantFresh(t) \/ GrantShared(t) \/ ReleaseAll(t)
        \/ UNCHANGED held
    BY <1>5 DEF Thread, InsertFileList, Own, Block, MSPause, MSAbort, PauseEnds, WakeUp,
         ReleaseStep, release_locks_on_success, release_locks_on_abort, txn_delete,
         Client, on_txn_beg, StartCall, on_txn_commit, on_txn_abort, SpuriousWake, lockVars
  <2>2. ReleaseAll(t) => \E F \in SUBSET Files : ReleaseNodes(t, F)
    BY DEF ReleaseAll
  <2> QED BY <1>2, <1>3, <1>4, <2>1, <2>2
<1>6. CASE BackupThread
  <2>1. \/ walk # <<>> /\ ReleaseNodes(Backup, {Head(walk)})
        \/ UNCHANGED held
    BY <1>6 DEF BackupThread, on_bck_beg, lock_file, EndBackup, release_locks_by_backup, lockVars
  <2>2. walk # <<>> => Head(walk) \in Files
    BY <1>1 DEF TypeOK
  <2>3. walk # <<>> => {Head(walk)} \in SUBSET Files
    BY <2>2
  <2> QED BY <1>1, <1>3, <1>4, <2>1, <2>3
<1> QED BY <1>4, <1>5, <1>6 DEF Next, Finished, vars

-----------------------------------------------------------------------------
(***************************************************************************)
(* Sleepers.                                                               *)
(***************************************************************************)

\* A thread that sleeps on a file is counted, asks for a lock on it and has
\* none next to other owners.
LEMMA SleeperWaits ==
    ASSUME IInv, Counts, NEW u \in Txns, pc[u] = "wait"
    PROVE  /\ Req(u).inode \in Files /\ HasWaiters(Req(u).inode)
           /\ \A v \in Txns : v # u /\ On(v, lockList[Req(u).inode])
                              => held[u][Req(u).inode] = Unlocked
<1> DEFINE f == Req(u).inode
<1>1. pc[u] \in InCall
  BY DEF InCall
<1>2. /\ Req(u) \in Request /\ Req(u) = todo[u][1] /\ Len(todo[u]) >= 1 /\ Len(todo[u]) \in Nat
  BY <1>1, Requests DEF IInv
<1>3. f \in Files
  BY <1>2 DEF Request
<1>4. HasWaiters(f)
  <2>1. u \in WaitingOn(f)
    BY DEF WaitingOn, Req
  <2>2. IsFiniteSet(WaitingOn(f)) /\ in_wait[f] = Cardinality(WaitingOn(f))
    BY <1>3 DEF Counts
  <2>3. Cardinality(WaitingOn(f)) \in Nat /\ Cardinality(WaitingOn(f)) # 0
    BY <2>1, <2>2, FS_CardinalityType, FS_EmptySet
  <2> QED BY <2>2, <2>3 DEF HasWaiters
<1>5. held[u][f] # Shared
  BY <1>1, <1>2 DEF IInv, Discipline
<1>6. held[u][f] \in {Unlocked, Shared, Exclusive}
  BY <1>3 DEF IInv, TypeOK
<1>7. ASSUME NEW v \in Txns, v # u, On(v, lockList[f]) PROVE held[u][f] = Unlocked
  <2>1. lockList[f] # <<u>>
    BY <1>7 DEF On
  <2> QED BY <1>3, <1>5, <1>6, <2>1 DEF IInv, Nodes
<1> QED BY <1>3, <1>4, <1>7

\* A sharer who is not the only one has a neighbour.
LEMMA SharerHasNeighbour ==
    ASSUME ConstantsAssumption, IInv, Chain, heap = "sound",
           NEW t \in Txns, NEW f \in Files, held[t][f] # Unlocked, ~OnlySharer(t, f)
    PROVE  \E w \in Txns : w # t /\ On(w, lockList[f]) /\ held[w][f] # Unlocked
<1>1. PICK k \in 1..Len(lockList[f]) : lockList[f][k] = t
  BY DEF IInv, Nodes, On
<1>2. lockList[f] \in Seq(Txns) /\ Distinct(lockList[f])
  BY DEF IInv, TypeOK, Nodes
<1>3. psr[t][f] = Before(lockList[f], k) /\ nsr[t][f] = After(lockList[f], k)
  BY <1>1 DEF Chain, LeadsTo
<1>4. PICK j \in 1..Len(lockList[f]) : j # k
  <2>1. Len(lockList[f]) \in Nat /\ k \in 1..Len(lockList[f])
    BY <1>2
  <2>2. k # 1 \/ k # Len(lockList[f])
    BY <1>3 DEF OnlySharer, Before, After
  <2>3. CASE k # 1
    BY <2>1, <2>3
  <2>4. CASE k # Len(lockList[f])
    BY <2>1, <2>4
  <2> QED BY <2>2, <2>3, <2>4
<1>5. lockList[f][j] \in Txns /\ lockList[f][j] # t
  BY <1>1, <1>2, <1>4 DEF Distinct
<1>6. held[lockList[f][j]][f] # Unlocked
  BY DEF IInv, Nodes
<1> QED BY <1>5, <1>6 DEF On

\* Whoever stays asleep after a release still waits for somebody: the last
\* owner of a file that gives it up finds the waiters and wakes them all.
LEMMA ReleaseWakesSleepers ==
    ASSUME ConstantsAssumption, IInv, Counts, Chain, Sleepers,
           NEW t \in Txns, NEW F \in SUBSET Files, ReleaseNodes(t, F),
           NEW q, q # "wait", pc' = AfterWakes(t, F, q), todo' = todo
    PROVE  Sleepers'
<1> SUFFICES ASSUME heap' = "sound", NEW u \in Txns, pc'[u] = "wait"
             PROVE  \E v \in Txns : v # u /\ held'[v][Req(u).inode] # Unlocked
  BY DEF Sleepers, BlockedTillRelease, Holders, Req
<1> DEFINE f == Req(u).inode
<1>1. heap = "sound"
  BY DEF ReleaseNodes
<1>2. /\ u # t /\ pc[u] = "wait"
      /\ ~(f \in F /\ Wakes(t, f))
  BY DEF AfterWakes
<1>3. /\ f \in Files /\ HasWaiters(f)
      /\ \A v \in Txns : v # u /\ On(v, lockList[f]) => held[u][f] = Unlocked
  BY <1>2, SleeperWaits
<1>4. PICK v \in Txns : v # u /\ held[v][f] # Unlocked
  BY <1>1, <1>2 DEF Sleepers, BlockedTillRelease, Holders
<1> HIDE DEF f
<1>5. /\ \A w \in Txns : w # t => held'[w] = held[w]
      /\ held'[t][f] = IF f \in F THEN Unlocked ELSE held[t][f]
  BY <1>3, ReleaseKeeps DEF IInv
<1>6. CASE v # t \/ f \notin F
  BY <1>4, <1>5, <1>6 DEF f
<1>7. CASE v = t /\ f \in F
  <2>1. held[t][f] # Unlocked /\ ~OnlySharer(t, f)
    BY <1>2, <1>3, <1>4, <1>7 DEF Wakes
  <2>2. PICK w \in Txns : w # t /\ On(w, lockList[f]) /\ held[w][f] # Unlocked
    BY <1>1, <1>3, <2>1, SharerHasNeighbour
  <2>3. On(t, lockList[f])
    BY <1>1, <1>3, <2>1 DEF IInv, Nodes
  <2>4. w # u
    BY <1>2, <1>3, <2>2, <2>3
  <2> QED BY <1>5, <2>2, <2>4 DEF f
<1> QED BY <1>6, <1>7

\* A step that releases nothing and puts nobody to sleep.
LEMMA SleepersKept ==
    ASSUME IInv, Sleepers, heap' = "sound" => heap = "sound",
           \A u \in Txns : pc'[u] = "wait" => pc[u] = "wait" /\ todo'[u] = todo[u],
           \A v \in Txns : \A f \in Files : held[v][f] # Unlocked => held'[v][f] # Unlocked
    PROVE  Sleepers'
<1> SUFFICES ASSUME heap' = "sound", NEW u \in Txns, pc'[u] = "wait"
             PROVE  \E v \in Txns : v # u /\ held'[v][Head(todo'[u]).inode] # Unlocked
  BY DEF Sleepers, BlockedTillRelease, Holders, Req
<1>1. PICK v \in Txns : v # u /\ held[v][Head(todo[u]).inode] # Unlocked
  BY DEF Sleepers, BlockedTillRelease, Holders, Req
<1>2. Head(todo[u]).inode \in Files
  BY Requests DEF IInv, InCall, Req, Request
<1> QED BY <1>1, <1>2

\* A step of one thread that does not go to sleep, and gives no lock up.
LEMMA AwakeKeepsSleepers ==
    ASSUME IInv, Sleepers, NEW t \in Txns, NEW q, q # "wait", pc[t] # "wait" \/ pc' # pc,
           pc' = pc \/ pc' = [pc EXCEPT ![t] = q],
           NEW r, todo' = todo \/ todo' = [todo EXCEPT ![t] = r],
           heap' = "sound" => heap = "sound",
           \A v \in Txns : \A f \in Files : held[v][f] # Unlocked => held'[v][f] # Unlocked
    PROVE  Sleepers'
<1>1. pc \in [Txns -> PC] /\ DOMAIN todo = Txns
  BY DEF IInv, TypeOK
<1>2. ASSUME NEW u \in Txns, pc'[u] = "wait" PROVE pc[u] = "wait" /\ todo'[u] = todo[u]
  <2>1. u # t
    BY <1>1, <1>2
  <2> QED BY <1>1, <1>2, <2>1
<1> QED BY <1>2, SleepersKept

\* insert_wait_list puts a thread to sleep on a file another one has.
LEMMA BlockKeepsSleepers ==
    ASSUME IInv, Sleepers, NEW t \in Txns, Block(t)
    PROVE  Sleepers'
<1>1. /\ pc[t] = "call" /\ pc' = [pc EXCEPT ![t] = "wait"] /\ todo' = todo
      /\ held' = held /\ heap' = heap
      /\ lockList[Req(t).inode] # <<>> /\ Loc(Req(t).inode) # t
  BY DEF Block, EntersInsert, lockVars, Fresh, OwnedBy
<1>2. Req(t).inode \in Files
  BY <1>1, Requests DEF IInv, InCall, Request
<1>3. Loc(Req(t).inode) \in Txns /\ On(Loc(Req(t).inode), lockList[Req(t).inode])
  BY <1>1, <1>2, LocOnList DEF IInv
<1>4. held[Loc(Req(t).inode)][Req(t).inode] # Unlocked
  BY <1>2, <1>3 DEF IInv, Nodes, On
<1> SUFFICES ASSUME heap = "sound", NEW u \in Txns, pc'[u] = "wait"
             PROVE  \E v \in Txns : v # u /\ held[v][Req(u).inode] # Unlocked
  BY <1>1 DEF Sleepers, BlockedTillRelease, Holders, Req
<1>5. CASE u = t
  BY <1>1, <1>3, <1>4, <1>5
<1>6. CASE u # t
  <2>1. pc[u] = "wait"
    BY <1>1, <1>6 DEF IInv, TypeOK
  <2> QED BY <2>1 DEF Sleepers, BlockedTillRelease, Holders
<1> QED BY <1>5, <1>6

\* What a grant does to the locks and to the heap.
LEMMA GrantAdds ==
    ASSUME IInv, NEW t \in Txns, GrantFresh(t) \/ GrantShared(t)
    PROVE  /\ \A v \in Txns : \A f \in Files : held[v][f] # Unlocked => held'[v][f] # Unlocked
           /\ heap' = "sound" => heap = "sound"
<1>1. /\ pc[t] = "call" /\ held' = [held EXCEPT ![t][Req(t).inode] = Req(t).mode]
  BY DEF GrantFresh, GrantShared, EntersInsert
<1>2. Req(t).mode # Unlocked
  BY <1>1, Requests DEF IInv, InCall, Request, Shared, Exclusive, Unlocked
<1>3. held \in [Txns -> [Files -> {Unlocked, Shared, Exclusive}]]
  BY DEF IInv, TypeOK
<1>4. heap' = heap \/ heap' = "used"
  BY DEF GrantFresh, GrantShared, LinkShared
<1> QED BY <1>1, <1>2, <1>3, <1>4

\* No step of any thread leaves a sleeper with nobody to wake it.
LEMMA NextKeepsSleepers ==
    ASSUME ConstantsAssumption, IInv, Counts, Chain, Sleepers, [Next]_vars
    PROVE  Sleepers'
<1>1. CASE UNCHANGED vars
  BY <1>1, SleepersKept DEF vars
<1>2. ASSUME NEW t \in Txns, InsertFileList(t) PROVE Sleepers'
  <2>1. pc[t] = "call"
    BY <1>2 DEF InsertFileList, Own, GrantFresh, GrantShared, Block, MSPause, MSAbort,
                EntersInsert
  <2>2. CASE Proceed(t) /\ (Own(t) \/ GrantFresh(t) \/ GrantShared(t))
    <3>1. /\ pc' = pc \/ \E q \in {"run", "abort"} : pc' = [pc EXCEPT ![t] = q]
          /\ todo' = [todo EXCEPT ![t] = Tail(todo[t])]
      BY <2>2 DEF Proceed
    <3>2. /\ \A v \in Txns : \A f \in Files : held[v][f] # Unlocked => held'[v][f] # Unlocked
          /\ heap' = "sound" => heap = "sound"
      BY <2>2, GrantAdds DEF Own, lockVars
    <3> QED BY <2>1, <3>1, <3>2, AwakeKeepsSleepers
  <2>3. CASE Block(t)
    BY <2>3, BlockKeepsSleepers
  <2>4. CASE MSPause(t) \/ MSAbort(t)
    <3>1. /\ UNCHANGED <<held, heap>>
          /\ \E q \in {"paused", "abort"} : pc' = [pc EXCEPT ![t] = q]
          /\ todo' = todo \/ todo' = [todo EXCEPT ![t] = <<>>]
      BY <2>4 DEF MSPause, MSAbort, lockVars
    <3> QED BY <2>1, <3>1, AwakeKeepsSleepers
  <2> QED BY <1>2, <2>2, <2>3, <2>4 DEF InsertFileList, Own, GrantFresh, GrantShared
<1>3. ASSUME NEW t \in Txns,
             PauseEnds(t) \/ WakeUp(t) \/ SpuriousWake(t) \/ Client(t) \/ txn_delete(t)
      PROVE  Sleepers'
  <2>1. /\ UNCHANGED <<held, heap>>
        /\ \E q \in {"run", "call", "woken", "commit", "abort", "done"} :
              pc' = [pc EXCEPT ![t] = q] /\ q # pc[t]
        /\ todo' = todo \/ \E r : todo' = [todo EXCEPT ![t] = r]
    BY <1>3 DEF PauseEnds, WakeUp, SpuriousWake, Client, on_txn_beg, StartCall,
                on_txn_commit, on_txn_abort, txn_delete, lockVars
  <2>2. pc' # pc
    BY <2>1 DEF IInv, TypeOK
  <2> QED BY <2>1, <2>2, AwakeKeepsSleepers
<1>4. ASSUME NEW t \in Txns, ReleaseAll(t) PROVE Sleepers'
  <2>1. PICK F \in SUBSET Files : ReleaseNodes(t, F) /\ pc' = AfterWakes(t, F, "ending")
    BY <1>4 DEF ReleaseAll
  <2>2. todo' = todo
    BY <1>4 DEF ReleaseAll
  <2> QED BY <2>1, <2>2, ReleaseWakesSleepers
<1>5. CASE release_locks_by_backup
  <2>1. /\ ReleaseNodes(Backup, {Head(walk)}) /\ pc' = AfterWakes(Backup, {Head(walk)}, "run")
        /\ todo' = todo /\ walk # <<>>
    BY <1>5 DEF release_locks_by_backup
  <2>2. Head(walk) \in Files /\ Backup \in Txns
    BY <2>1 DEF IInv, TypeOK, Txns
  <2>3. {Head(walk)} \in SUBSET Files
    BY <2>2
  <2> QED BY <2>1, <2>2, <2>3, ReleaseWakesSleepers
<1>6. CASE on_bck_beg \/ lock_file \/ EndBackup
  <2>1. /\ UNCHANGED <<held, heap>> /\ Backup \in Txns /\ pc[Backup] # "wait"
        /\ \E q \in {"run", "call", "done"} : pc' = [pc EXCEPT ![Backup] = q]
        /\ todo' = todo \/ \E r : todo' = [todo EXCEPT ![Backup] = r]
    BY <1>6 DEF on_bck_beg, lock_file, EndBackup, lockVars, Txns
  <2> QED BY <2>1, AwakeKeepsSleepers
<1> QED
  BY <1>1, <1>2, <1>3, <1>4, <1>5, <1>6
  DEF Next, Finished, Thread, BackupThread, ReleaseStep, release_locks_on_success,
      release_locks_on_abort

-----------------------------------------------------------------------------
\* The chains and the sleepers are right in every state, relative to IInv and
\* the counts of the wait nodes.
THEOREM WakeInvariance == Spec => []WakeInv
<1>1. Init => WakeInv
  <2> SUFFICES ASSUME Init PROVE WakeInv
    OBVIOUS
  <2>1. /\ \A f \in Files : lockList[f] = <<>>
        /\ \A t \in Txns : pc[t] = "idle" /\ \A f \in Files : held[t][f] = Unlocked
        /\ Backup \in Txns /\ Unlocked # Shared
    BY DEF Init, Txns, Unlocked, Shared
  <2>2. Chain
    BY <2>1 DEF Chain
  <2>3. Sleepers /\ BackupNeverReads
    BY <2>1 DEF Sleepers, BlockedTillRelease, BackupNeverReads
  <2> QED BY <2>2, <2>3 DEF WakeInv
<1>2. IInv /\ Counts /\ WakeInv /\ [Next]_vars => WakeInv'
  BY ConstantsAssumption, NextKeepsChain, NextKeepsSleepers, NextKeepsBackup DEF WakeInv
<1> QED BY <1>1, <1>2, Invariance, CountsInvariant, PTL DEF Spec

\* insert_wait_list promises a sleeper that the owner of the file wakes it: as
\* long as no shared node was released behind the back of its neighbours, a
\* thread that sleeps on a file has another one to wake it.
THEOREM NoWakeupIsLost == Spec => []NoLostWakeup
<1>1. WakeInv => NoLostWakeup
  BY DEF WakeInv, Sleepers, NoLostWakeup
<1> QED BY <1>1, WakeInvariance, PTL

\* prev_shared_rec and next_shared_rec lead through the sharers of a file in
\* list order, but for those that a release nobody waited for left dangling.
THEOREM SharersAreChained == Spec => []SharedChain
<1>1. IInv /\ WakeInv => SharedChain
  <2> SUFFICES ASSUME IInv, Chain, heap # "used", NEW f \in Files,
                      NEW k \in 1..Len(lockList[f])
               PROVE  LET t == lockList[f][k]
                          prev == IF k = 1 THEN NoTxn ELSE lockList[f][k - 1]
                          next == IF k = Len(lockList[f]) THEN NoTxn
                                  ELSE lockList[f][k + 1]
                          Freed(n) == heap = "dangling" /\ n # NoTxn /\ ~Live(n, f)
                      IN  /\ psr[t][f] = prev \/ Freed(psr[t][f])
                          /\ nsr[t][f] = next \/ Freed(nsr[t][f])
    BY DEF SharedChain, WakeInv
  <2>1. lockList[f][k] \in Txns
    BY DEF IInv, TypeOK
  <2>2. PICK t \in Txns : t = lockList[f][k]
    BY <2>1
  <2>3. PICK p \in Txns \cup {NoTxn}, n \in Txns \cup {NoTxn} : p = psr[t][f] /\ n = nsr[t][f]
    BY DEF IInv, TypeOK
  <2>4. LeadsTo(p, Before(lockList[f], k)) /\ LeadsTo(n, After(lockList[f], k))
    BY <2>2, <2>3 DEF Chain
  <2>5. /\ Gone(p) => p # NoTxn /\ ~Live(p, f)
        /\ Gone(n) => n # NoTxn /\ ~Live(n, f)
    BY GoneIsNotLive DEF Gone
  <2> QED BY <2>2, <2>3, <2>4, <2>5 DEF LeadsTo, Before, After
<1> QED BY <1>1, Invariance, WakeInvariance, PTL

\* No step lets a reader in while a writer sleeps: the writer is counted, and
\* the one sharer that would excuse it, the backup, holds exclusive locks only.
LEMMA NextOvertakesNobody ==
    ASSUME IInv, Counts, WakeInv, [Next]_vars, heap = "sound",
           NEW t \in Txns, NEW f \in Files, held[t][f] = Unlocked, held'[t][f] = Shared,
           NEW u \in Txns, pc[u] = "wait", Req(u) = Want(f, Exclusive)
    PROVE  FALSE
<1>1. Unlocked # Shared /\ Backup \in Txns /\ Req(u).inode = f
  BY DEF Unlocked, Shared, Txns, Want
<1>2. HasWaiters(f)
  BY <1>1, SleeperWaits
<1>3. \E v \in Txns : held[v][f] # Unlocked
  BY <1>1 DEF WakeInv, Sleepers, BlockedTillRelease, Holders
<1>4. lockList[f] # <<>>
  BY <1>3 DEF IInv, Nodes, On
<1>5. ASSUME NEW v \in Txns, GrantFresh(v) \/ GrantShared(v) PROVE FALSE
  <2>1. /\ pc[v] = "call" /\ EntersInsert(v)
        /\ held' = [held EXCEPT ![v][Req(v).inode] = Req(v).mode]
    BY <1>5 DEF GrantFresh, GrantShared, EntersInsert
  <2>2. Req(v).inode = f
    BY <1>1, <2>1 DEF IInv, TypeOK
  <2>3. Sharable(v)
    BY <1>4, <1>5, <2>2 DEF GrantFresh, GrantShared, Fresh
  <2>4. BackupShares(f)
    BY <1>2, <2>2, <2>3 DEF Sharable, HasWaiters
  <2>5. On(Backup, lockList[f])
    BY <1>4, <2>4, LocOnList DEF BackupShares, On, IInv
  <2>6. held[Backup][f] # Unlocked
    BY <2>5 DEF IInv, Nodes, On
  <2>7. held[Backup][f] = Exclusive
    <3>1. held[Backup][f] \in {Unlocked, Shared, Exclusive}
      BY <1>1 DEF IInv, TypeOK
    <3> QED BY <2>6, <3>1 DEF WakeInv, BackupNeverReads
  <2> QED BY <1>1, <2>1, <2>2, <2>3, <2>7, SharableMeans DEF IInv
<1>6. ASSUME NEW v \in Txns, NEW F \in SUBSET Files, ReleaseNodes(v, F) PROVE FALSE
  <2>1. /\ \A w \in Txns : w # v => held'[w] = held[w]
        /\ \A g \in Files : held'[v][g] = IF g \in F THEN Unlocked ELSE held[v][g]
    BY <1>6, ReleaseKeeps DEF IInv
  <2>2. held'[t][f] = held[t][f] \/ held'[t][f] = Unlocked
    BY <2>1
  <2> QED BY <1>1, <2>2
<1>7. CASE UNCHANGED held
  BY <1>1, <1>7
<1>8. CASE UNCHANGED vars
  BY <1>7, <1>8 DEF vars
<1>9. ASSUME NEW v \in Txns, Thread(v) \/ Client(v) \/ SpuriousWake(v) PROVE FALSE
  <2>1. \/ GrantFresh(v) \/ GrantShared(v) \/ ReleaseAll(v)
        \/ UNCHANGED held
    BY <1>9 DEF Thread, InsertFileList, Own, Block, MSPause, MSAbort, PauseEnds, WakeUp,
         ReleaseStep, release_locks_on_success, release_locks_on_abort, txn_delete,
         Client, on_txn_beg, StartCall, on_txn_commit, on_txn_abort, SpuriousWake, lockVars
  <2>2. ReleaseAll(v) => \E F \in SUBSET Files : ReleaseNodes(v, F)
    BY DEF ReleaseAll
  <2> QED BY <1>5, <1>6, <1>7, <2>1, <2>2
<1>10. CASE BackupThread
  <2>1. \/ walk # <<>> /\ ReleaseNodes(Backup, {Head(walk)})
        \/ UNCHANGED held
    BY <1>10 DEF BackupThread, on_bck_beg, lock_file, EndBackup, release_locks_by_backup,
         lockVars
  <2>2. walk # <<>> => Head(walk) \in Files
    BY DEF IInv, TypeOK
  <2>3. walk # <<>> => {Head(walk)} \in SUBSET Files
    BY <2>2
  <2> QED BY <1>1, <1>6, <1>7, <2>1, <2>3
<1> QED BY <1>8, <1>9, <1>10 DEF Next, Finished

\* A reader is not let in past a sleeping writer.
THEOREM WritersAreNotOvertaken == Spec => NoReaderPastSleepingWriter
<1> DEFINE A == heap = "sound" => \A t \in Txns, f \in Files :
                    held[t][f] = Unlocked /\ held'[t][f] = Shared =>
                        ~\E u \in Txns : /\ pc[u] = "wait"
                                         /\ Req(u) = Want(f, Exclusive)
<1>1. IInv /\ Counts /\ WakeInv /\ [Next]_vars => [A]_vars
  BY NextOvertakesNobody
<1> HIDE DEF A
<1>2. Spec => [][A]_vars
  BY <1>1, Invariance, CountsInvariant, WakeInvariance, PTL DEF Spec
<1> QED BY <1>2 DEF A, NoReaderPastSleepingWriter

=============================================================================
