-------------------------- MODULE ServerHandlesProofs --------------------------
(***************************************************************************)
(* Proofs about the handles the server opens for its transactions, for any *)
(* number of transactions, files, lock nodes and table entries, with or    *)
(* without a journal.                                                      *)
(*                                                                         *)
(* Until a transaction closes a handle it had not opened, the tables keep  *)
(* the invariant of HandleTablesProofs: the server never duplicates a      *)
(* handle nor unmounts under one.  What the lock nodes, the owners of the  *)
(* handles and the transfers have to do with one another comes on top.     *)
(***************************************************************************)
EXTENDS ServerHandles, HandleTablesProofs

\* Transfers go on only while the device is there.
NoneVoid == ~broken /\ \A t \in Threads : ~ call[t].void

\* The lock nodes of a file, by their places in its list.
Places(o) == 1 .. Len(locks[o])

\* A handle of a transaction is open on a file that is not the journal.
OwnedOpen == \A h \in Slots : owner[h] # NoThread => mine[h] \in Files

\* A handle of a transaction is in one of its lock nodes, was overwritten
\* there, or is the handle 0 that a commit leaves open.
Recorded ==
    \A h \in Slots : owner[h] # NoThread =>
      \/ h \in lost
      \/ \E k \in Places(mine[h]) :
           locks[mine[h]][k].txn = owner[h] /\ locks[mine[h]][k].fd = h
      \/ h = 0 /\ phase[owner[h]] \in {"commit", "done"}

\* A lock node with a number above 0 that was the result of an open leads to
\* the handle its transaction opened, and is the only one with that number.
NodesLead ==
    \A o \in Files : \A k \in Places(o) :
      locks[o][k].fd > 0 /\ locks[o][k].fd \notin wild =>
        /\ owner[locks[o][k].fd] = locks[o][k].txn /\ mine[locks[o][k].fd] = o
        /\ \A j \in Places(o) : locks[o][j].fd = locks[o][k].fd => j = k

\* An exclusive lock is the only lock on its file.
LocksExclude ==
    \A o \in Files : \A k \in Places(o) : locks[o][k].held = 1 => Len(locks[o]) = 1

\* A running transaction has a lock on every file it has a handle on.
FilesLocked ==
    \A h \in Slots : owner[h] # NoThread /\ phase[owner[h]] = "run" =>
      \E k \in Places(mine[h]) : locks[mine[h]][k].txn = owner[h]

\* A transaction that writes with a number that an open gave has opened it and
\* has its file to itself.
WritesLocked ==
    \A t \in Threads :
      call[t].kind = "write" /\ call[t].handle # 0 /\ call[t].handle \notin wild =>
        /\ phase[t] = "run" /\ owner[call[t].handle] = t
        /\ \E k \in Places(mine[call[t].handle]) :
             /\ locks[mine[call[t].handle]][k].txn = t
             /\ locks[mine[call[t].handle]][k].held = 1

Server == OwnedOpen /\ Recorded /\ NodesLead /\ LocksExclude /\ FilesLocked /\ WritesLocked

SInv ==
    /\ Typed /\ ServerTypeOK /\ NoneVoid
    /\ ~foul => Tables /\ Holders /\ Server

-----------------------------------------------------------------------------
(* Lock nodes. *)

NodeType == [txn : Threads, held : {0, 1}, fd : -1 .. YAFFSFS_N_HANDLES - 1]

\* RemoveAt takes out one element and moves up what follows.
LEMMA NodeRemoved ==
  ASSUME NEW S, NEW s \in Seq(S), NEW k \in 1 .. Len(s), NEW r, r = RemoveAt(s, k)
  PROVE  /\ r \in Seq(S) /\ Len(r) = Len(s) - 1
         /\ \A j \in 1 .. Len(r) : r[j] = IF j < k THEN s[j] ELSE s[j + 1]
<1>1. PICK n \in Nat : n = Len(s)
  OBVIOUS
<1>2. r = SubSeq(s, 1, k - 1) \o SubSeq(s, k + 1, n)
  BY <1>1 DEF RemoveAt
<1> DEFINE a == SubSeq(s, 1, k - 1)
           b == SubSeq(s, k + 1, n)
<1>3. a \in Seq(S) /\ Len(a) = k - 1 /\ \A j \in 1 .. (k - 1) : a[j] = s[j]
  BY <1>1
<1>4. b \in Seq(S) /\ Len(b) = n - k /\ \A j \in 1 .. (n - k) : b[j] = s[j + k]
  BY <1>1
<1> HIDE DEF a, b
<1>5. r = a \o b
  BY <1>2 DEF a, b
<1>6. r \in Seq(S) /\ Len(r) = n - 1
  <2>1. \A x, y \in Seq(S) : x \o y \in Seq(S) /\ Len(x \o y) = Len(x) + Len(y)
    OBVIOUS
  <2>2. r \in Seq(S) /\ Len(r) = (k - 1) + (n - k)
    BY <1>3, <1>4, <1>5, <2>1
  <2>3. QED
    BY <1>1, <2>2
<1>7. ASSUME NEW j \in 1 .. (n - 1) PROVE r[j] = IF j < k THEN s[j] ELSE s[j + 1]
  <2>1. CASE j < k
    BY <1>3, <1>4, <1>5, <2>1
  <2>2. CASE j >= k
    <3>1. r[j] = b[j - (k - 1)] /\ j - (k - 1) \in 1 .. (n - k)
      BY <1>1, <1>3, <1>4, <1>5, <2>2
    <3>2. b[j - (k - 1)] = s[j - (k - 1) + k]
      BY <1>4, <3>1
    <3>3. j - (k - 1) + k = j + 1
      OBVIOUS
    <3>4. QED
      BY <2>2, <3>1, <3>2, <3>3
  <2>3. QED
    BY <2>1, <2>2
<1>8. QED
  BY <1>1, <1>6, <1>7

\* The lists after a lock was granted: the node k of o has new, and every other
\* node is where it was (insert_file_list and what the handlers write to it).
NodeGets(t, o, mode, k, new) ==
    /\ locks' \in [Files -> Seq(NodeType)]
    /\ k \in 1 .. Len(locks'[o]) /\ locks'[o][k].txn = t /\ locks'[o][k].fd = new
    /\ \A p \in Files \ {o} : locks'[p] = locks[p]
    /\ \/ /\ k \in Places(o) /\ locks[o][k].txn = t /\ Len(locks'[o]) = Len(locks[o])
          /\ locks'[o][k].held = locks[o][k].held
       \/ /\ k = Len(locks[o]) + 1 /\ Len(locks'[o]) = k
          /\ locks'[o][k].held = mode /\ FdOf(o, k) = -1
    /\ \A j \in Places(o) : j # k => locks'[o][j] = locks[o][j]

\* What insert_file_list and the handler do to the lists.
LEMMA NodeGranted ==
  ASSUME ServerTypeOK, NEW t \in Threads, NEW o \in Files, NEW mode \in {0, 1},
         NEW k \in 1 .. MaxNodes, NEW new \in -1 .. YAFFSFS_N_HANDLES - 1,
         Granted(t, o, mode, k), SetNode(t, o, mode, k, new)
  PROVE  NodeGets(t, o, mode, k, new)
<1>1. locks \in [Files -> Seq(NodeType)]
  BY DEF ServerTypeOK, NodeType
<1>2. PICK s \in Seq(NodeType) : s = locks[o]
  BY <1>1
<1>3. PICK n \in Nat : n = Len(s)
  BY <1>2
<1>4. \/ k <= n /\ s[k].txn = t
      \/ k = n + 1
  BY <1>2, <1>3 DEF Granted, Found
<1>5. CASE k <= n /\ s[k].txn = t
  <2>1. s[k] \in NodeType
    BY <1>2, <1>3, <1>5, MaxNodesAssumption
  <2>2. PICK r \in NodeType : r = [s[k] EXCEPT !.fd = new]
    BY <2>1 DEF NodeType
  <2>3. r.txn = t /\ r.fd = new /\ r.held = s[k].held
    BY <1>5, <2>1, <2>2 DEF NodeType
  <2>4. PICK u : u = [s EXCEPT ![k] = r]
    OBVIOUS
  <2>5. locks' = [locks EXCEPT ![o] = u]
    <3>1. k <= Len(locks[o])
      BY <1>2, <1>3, <1>5
    <3>2. locks' = [locks EXCEPT ![o] =
             [locks[o] EXCEPT ![k].fd = new]]
      BY <3>1 DEF SetNode
    <3>3. u = [locks[o] EXCEPT ![k].fd = new]
      BY <1>2, <1>3, <1>5, <2>2, <2>4
    <3>4. QED
      BY <3>2, <3>3
  <2>6. u \in Seq(NodeType) /\ Len(u) = n /\ u[k] = r /\ \A j \in 1 .. n : j # k => u[j] = s[j]
    BY <1>2, <1>3, <1>5, <2>4, MaxNodesAssumption
  <2>7. locks'[o] = u /\ locks' \in [Files -> Seq(NodeType)]
        /\ \A p \in Files \ {o} : locks'[p] = locks[p]
    BY <1>1, <2>5, <2>6
  <2>8. k \in 1 .. n
    BY <1>3, <1>5, MaxNodesAssumption
  <2>9. /\ k \in 1 .. Len(locks'[o])
        /\ Len(locks'[o]) = Len(locks[o]) /\ locks[o] = s /\ Places(o) = 1 .. n
    BY <1>2, <1>3, <1>5, <2>6, <2>7, <2>8 DEF Places
  <2>10. locks'[o][k] = r /\ \A j \in Places(o) : j # k => locks'[o][j] = locks[o][j]
    BY <2>6, <2>7, <2>9
  <2>11. locks[o][k].txn = t /\ locks'[o][k].held = locks[o][k].held
    BY <1>5, <2>3, <2>9, <2>10
  <2>12. QED
    BY <2>3, <2>7, <2>8, <2>9, <2>10, <2>11 DEF NodeGets
<1>6. CASE k = n + 1
  <2>1. PICK r \in NodeType : r = [txn |-> t, held |-> mode, fd |-> new]
    BY DEF NodeType
  <2>2. r.txn = t /\ r.held = mode /\ r.fd = new
    BY <2>1
  <2>3. PICK u : u = Append(s, r)
    OBVIOUS
  <2>4. ~ (k <= n)
    BY <1>6
  <2>5. locks' = [locks EXCEPT ![o] = u]
    BY <1>2, <1>3, <2>1, <2>3, <2>4 DEF SetNode
  <2>6. u \in Seq(NodeType) /\ Len(u) = k /\ u[k] = r /\ \A j \in 1 .. n : u[j] = s[j]
    BY <1>2, <1>3, <1>6, <2>3
  <2>7. locks'[o] = u /\ locks' \in [Files -> Seq(NodeType)]
        /\ \A p \in Files \ {o} : locks'[p] = locks[p]
    BY <1>1, <2>5, <2>6
  <2>8. k \in 1 .. k /\ FdOf(o, k) = -1
    BY <1>2, <1>3, <2>4 DEF FdOf
  <2>9. QED
    BY <1>2, <1>3, <1>6, <2>2, <2>6, <2>7, <2>8 DEF NodeGets, Places
<1>7. QED
  BY <1>4, <1>5, <1>6

\* The node that is granted has a number, or none, before.
LEMMA FdTyped ==
  ASSUME ServerTypeOK, NEW o \in Files, NEW k \in 1 .. MaxNodes
  PROVE  FdOf(o, k) \in -1 .. YAFFSFS_N_HANDLES - 1
<1>1. CASE k <= Len(locks[o])
  <2>1. locks[o] \in Seq(NodeType)
    BY DEF ServerTypeOK, NodeType
  <2>2. locks[o][k] \in NodeType
    BY <1>1, <2>1, MaxNodesAssumption
  <2>3. QED
    BY <1>1, <2>2 DEF FdOf, NodeType
<1>2. CASE ~ (k <= Len(locks[o]))
  BY <1>2, NHandlesAssumption DEF FdOf
<1>3. QED
  BY <1>1, <1>2

\* The lists after a node was released (delete_file_list).
NodeGone(o, k) ==
    /\ locks' \in [Files -> Seq(NodeType)]
    /\ \A p \in Files \ {o} : locks'[p] = locks[p]
    /\ Len(locks'[o]) = Len(locks[o]) - 1
    /\ \A j \in 1 .. Len(locks'[o]) :
         \E i \in Places(o) : i # k /\ locks'[o][j] = locks[o][i]
    /\ \A i \in Places(o) : i # k => \E j \in 1 .. Len(locks'[o]) : locks'[o][j] = locks[o][i]
    /\ \A i, j \in 1 .. Len(locks'[o]) : i # j =>
         \E a, b \in Places(o) : a # b /\ a # k /\ b # k
                                 /\ locks'[o][i] = locks[o][a] /\ locks'[o][j] = locks[o][b]

\* What the release of a node does to the lists.
LEMMA NodeReleased ==
  ASSUME ServerTypeOK, NEW o \in Files, NEW k \in Places(o),
         locks' = [locks EXCEPT ![o] = RemoveAt(@, k)]
  PROVE  NodeGone(o, k)
<1>1. locks \in [Files -> Seq(NodeType)]
  BY DEF ServerTypeOK, NodeType
<1>2. PICK s \in Seq(NodeType) : s = locks[o]
  BY <1>1
<1>3. PICK n \in Nat : n = Len(s)
  BY <1>2
<1>4. k \in 1 .. Len(s)
  BY <1>2 DEF Places
<1>5. PICK r : r = RemoveAt(s, k)
  OBVIOUS
<1>6. /\ r \in Seq(NodeType) /\ Len(r) = n - 1
      /\ \A j \in 1 .. Len(r) : r[j] = IF j < k THEN s[j] ELSE s[j + 1]
  BY <1>2, <1>3, <1>4, <1>5, NodeRemoved
<1>7. /\ locks'[o] = r /\ locks' \in [Files -> Seq(NodeType)]
      /\ \A p \in Files \ {o} : locks'[p] = locks[p]
  BY <1>1, <1>2, <1>5, <1>6
<1> DEFINE Was(j) == IF j < k THEN j ELSE j + 1
<1>8. ASSUME NEW j \in 1 .. Len(r)
      PROVE  Was(j) \in 1 .. n /\ Was(j) # k /\ r[j] = s[Was(j)]
  BY <1>3, <1>4, <1>6
<1>9. ASSUME NEW i \in 1 .. n, i # k
      PROVE  \E j \in 1 .. Len(r) : r[j] = s[i]
  <2>1. CASE i < k
    <3>1. i \in 1 .. Len(r) /\ r[i] = s[i]
      BY <1>3, <1>4, <1>6, <2>1
    <3>2. QED
      BY <3>1
  <2>2. CASE i > k
    <3>1. i - 1 \in 1 .. Len(r) /\ r[i - 1] = s[(i - 1) + 1] /\ (i - 1) + 1 = i
      BY <1>3, <1>4, <1>6, <2>2
    <3>2. QED
      BY <3>1
  <2>3. QED
    BY <1>4, <1>9, <2>1, <2>2
<1>10. ASSUME NEW i \in 1 .. Len(r), NEW j \in 1 .. Len(r), i # j
       PROVE  Was(i) # Was(j)
  BY <1>4, <1>6, <1>10
<1> HIDE DEF Was
<1>11. \A j \in 1 .. Len(r) : \E i \in Places(o) : i # k /\ r[j] = locks[o][i]
  BY <1>2, <1>3, <1>8 DEF Places
<1>12. \A i \in Places(o) : i # k => \E j \in 1 .. Len(r) : r[j] = locks[o][i]
  BY <1>2, <1>3, <1>9 DEF Places
<1>13. \A i, j \in 1 .. Len(r) : i # j =>
         \E a, b \in Places(o) : a # b /\ a # k /\ b # k /\ r[i] = locks[o][a] /\ r[j] = locks[o][b]
  <2>1. SUFFICES ASSUME NEW i \in 1 .. Len(r), NEW j \in 1 .. Len(r), i # j
                 PROVE  \E a, b \in Places(o) :
                          a # b /\ a # k /\ b # k /\ r[i] = locks[o][a] /\ r[j] = locks[o][b]
    OBVIOUS
  <2>2. PICK a \in Places(o), b \in Places(o) : a = Was(i) /\ b = Was(j)
    BY <1>2, <1>3, <1>8 DEF Places
  <2>3. QED
    BY <1>2, <1>8, <1>10, <2>1, <2>2
<1>14. Len(locks'[o]) = Len(locks[o]) - 1
  BY <1>2, <1>3, <1>6, <1>7
<1>15. r = locks'[o]
  BY <1>7
<1>16. /\ \A j \in 1 .. Len(locks'[o]) : \E i \in Places(o) : i # k /\ locks'[o][j] = locks[o][i]
       /\ \A i \in Places(o) : i # k => \E j \in 1 .. Len(locks'[o]) : locks'[o][j] = locks[o][i]
  BY <1>11, <1>12, <1>15
<1>17. \A i, j \in 1 .. Len(locks'[o]) : i # j =>
         \E a, b \in Places(o) : a # b /\ a # k /\ b # k
                                 /\ locks'[o][i] = locks[o][a] /\ locks'[o][j] = locks[o][b]
  BY <1>13, <1>15
<1>18. QED
  BY <1>7, <1>14, <1>16, <1>17 DEF NodeGone

-----------------------------------------------------------------------------
(* The types. *)

\* The mode of an open asks for a shared lock or an exclusive one.
LEMMA ModeTyped ==
  ASSUME NEW m \in OpenModes
  PROVE  ModeOf(m) \in {0, 1} /\ m.writing \in BOOLEAN
BY OpenModesAssumption DEF ModeOf

\* on_open: a handle that was free becomes the transaction's.
LEMMA OnOpenTyped ==
  ASSUME Typed, ServerTypeOK, NoneVoid, NEW t \in Threads, NEW o \in Files,
         NEW m \in OpenModes, NEW k \in 1 .. MaxNodes, on_open(t, o, m, k)
  PROVE  Typed' /\ ServerTypeOK' /\ NoneVoid'
<1> DEFINE h == FirstFree(FreeHandles)
<1>1. Open(o, m) /\ o \in Objects
  BY DEF on_open, Files
<1>2. Typed'
  BY <1>1, OpenTyped
<1>3. h \in Slots
  <2>1. FreeHandles \in SUBSET Slots
    BY DEF FreeHandles
  <2>2. QED
    BY <1>1, <2>1, FirstFreeFound DEF Open
<1>4. h \in -1 .. YAFFSFS_N_HANDLES - 1
  BY <1>3, NHandlesAssumption DEF Slots
<1>5. ModeOf(m) \in {0, 1}
  BY ModeTyped
<1> HIDE DEF h
<1>6. /\ Granted(t, o, ModeOf(m), k) /\ SetNode(t, o, ModeOf(m), k, h)
      /\ owner' = [owner EXCEPT ![h] = t]
  BY DEF on_open, h
<1>7. locks' \in [Files -> Seq(NodeType)]
  BY <1>4, <1>5, <1>6, NodeGranted DEF NodeGets
<1>8. lost' \subseteq Slots
  BY <1>6 DEF SetNode, ServerTypeOK
<1>9. owner' \in [Slots -> Threads \cup {NoThread}]
  BY <1>3, <1>6 DEF ServerTypeOK
<1>10. UNCHANGED <<phase, wild, foul, call, broken>>
  BY <1>1 DEF on_open, Open
<1>11. QED
  BY <1>2, <1>7, <1>8, <1>9, <1>10 DEF ServerTypeOK, NodeType, NoneVoid

\* A handler that locks a file and opens nothing: what it records is no number,
\* 0, the number that was there or one that it never wrote.
Locks(t, o, mode, k, new) ==
    /\ Granted(t, o, mode, k) /\ SetNode(t, o, mode, k, new)
    /\ new \in -1 .. YAFFSFS_N_HANDLES - 1
    /\ new > 0 => new = FdOf(o, k) \/ new \in wild'
    /\ UNCHANGED <<handle, fd, inode, device, call, mine, broken, owner, foul>>
    /\ \/ object' = object
       \/ \E p \in Files : object' = [object EXCEPT ![p].place = "linked"]
    /\ phase' = phase \/ phase' = [phase EXCEPT ![t] = "abort"]
    /\ wild \subseteq wild' /\ wild' \subseteq Slots

\* on_creat and the calls that lock and open nothing, an open that fails among
\* them.
OnlyLocks(t, o, k) ==
    \/ \E mode \in {0, 1} :
         \/ OpenFails(t, o, mode, k)
         \/ \E any \in -1 .. YAFFSFS_N_HANDLES - 1 : OpenOther(t, o, mode, k, any)
    \/ on_stat(t, o, k) \/ on_rename(t, o, k) \/ on_unlink(t, o, k)
    \/ \E p \in Files : on_creat(t, o, p, k)

\* Each of them is such a handler.
LEMMA OnlyLocksLocks ==
  ASSUME ServerTypeOK, NEW t \in Threads, NEW o \in Files, NEW k \in 1 .. MaxNodes,
         OnlyLocks(t, o, k)
  PROVE  \E mode \in {0, 1}, new \in -1 .. YAFFSFS_N_HANDLES - 1 : Locks(t, o, mode, k, new)
<1>1. 0 \in -1 .. YAFFSFS_N_HANDLES - 1 /\ ~ (0 > 0)
  BY NHandlesAssumption
<1>2. PICK f \in -1 .. YAFFSFS_N_HANDLES - 1 : f = FdOf(o, k)
  BY FdTyped
<1>3. wild \subseteq Slots
  BY DEF ServerTypeOK
<1>4. ASSUME NEW mode \in {0, 1}, OpenFails(t, o, mode, k)
      PROVE  Locks(t, o, mode, k, f)
  BY <1>2, <1>3, <1>4 DEF OpenFails, Locks, vars
<1>5. ASSUME NEW mode \in {0, 1}, NEW any \in -1 .. YAFFSFS_N_HANDLES - 1,
             OpenOther(t, o, mode, k, any)
      PROVE  Locks(t, o, mode, k, any)
  <2>1. wild' = wild \cup ({any} \cap Slots)
    BY <1>5 DEF OpenOther
  <2>2. any > 0 => any \in Slots
    BY NHandlesAssumption DEF Slots
  <2>3. any > 0 => any \in wild'
    BY <2>1, <2>2
  <2>4. wild \subseteq wild' /\ wild' \subseteq Slots
    BY <1>3, <2>1
  <2>5. UNCHANGED <<handle, fd, inode, object, device, call, mine, broken, phase, owner, foul>>
    BY <1>5 DEF OpenOther, vars
  <2>6. QED
    BY <1>5, <2>3, <2>4, <2>5 DEF OpenOther, Locks
<1>6. ASSUME NEW mode \in {0, 1}, NEW new \in {0, f},
             Granted(t, o, mode, k), SetNode(t, o, mode, k, new),
             UNCHANGED <<vars, phase, owner, wild, foul>>
      PROVE  Locks(t, o, mode, k, new)
  BY <1>1, <1>2, <1>3, <1>6 DEF Locks, vars
<1>7. CASE on_stat(t, o, k)
  BY <1>1, <1>2, <1>6, <1>7 DEF on_stat
<1>8. CASE on_rename(t, o, k)
  BY <1>1, <1>2, <1>6, <1>8 DEF on_rename
<1>9. CASE on_unlink(t, o, k)
  BY <1>1, <1>6, <1>9 DEF on_unlink
<1>10. ASSUME NEW p \in Files, on_creat(t, o, p, k)
       PROVE  Locks(t, o, 1, k, 0)
  BY <1>1, <1>3, <1>10 DEF on_creat, Locks
<1>11. 0 \in {0, 1} /\ 1 \in {0, 1} /\ 0 \in -1 .. YAFFSFS_N_HANDLES - 1
  BY <1>1
<1>12. ASSUME NEW mode \in {0, 1}, NEW new \in -1 .. YAFFSFS_N_HANDLES - 1, Locks(t, o, mode, k, new)
       PROVE  \E y \in {0, 1}, z \in -1 .. YAFFSFS_N_HANDLES - 1 : Locks(t, o, y, k, z)
  BY <1>12
<1>13. CASE \/ \E mode \in {0, 1} : OpenFails(t, o, mode, k)
            \/ \E mode \in {0, 1}, any \in -1 .. YAFFSFS_N_HANDLES - 1 :
                 OpenOther(t, o, mode, k, any)
  BY <1>4, <1>5, <1>12, <1>13
<1>14. CASE \E p \in Files : on_creat(t, o, p, k)
  BY <1>10, <1>11, <1>12, <1>14
<1>15. QED
  BY <1>7, <1>8, <1>9, <1>13, <1>14 DEF OnlyLocks

\* A lock that opens nothing leaves every type as it is.
LEMMA LocksTyped ==
  ASSUME Typed, ServerTypeOK, NoneVoid, NEW t \in Threads, NEW o \in Files,
         NEW mode \in {0, 1}, NEW k \in 1 .. MaxNodes,
         NEW new \in -1 .. YAFFSFS_N_HANDLES - 1, Locks(t, o, mode, k, new)
  PROVE  Typed' /\ ServerTypeOK' /\ NoneVoid'
<1>1. UNCHANGED <<handle, fd, inode, device, call, mine, broken, owner, foul>>
  BY DEF Locks
<1>2. locks' \in [Files -> Seq(NodeType)]
  BY NodeGranted DEF Locks, NodeGets
<1>3. lost' \subseteq Slots
  BY DEF Locks, SetNode, ServerTypeOK
<1>4. phase' \in [Threads -> {"run", "commit", "abort", "done"}]
  BY DEF Locks, ServerTypeOK
<1>5. wild' \subseteq Slots
  BY DEF Locks
<1>6. ServerTypeOK'
  BY <1>1, <1>2, <1>3, <1>4, <1>5 DEF ServerTypeOK, NodeType
<1>7. object' \in [Objects -> [place : {"absent", "linked", "unlinked"},
                              my_inode : -1 .. YAFFSFS_N_HANDLES - 1]]
  <2>1. object \in [Objects -> [place : {"absent", "linked", "unlinked"},
                                my_inode : -1 .. YAFFSFS_N_HANDLES - 1]]
    BY DEF Typed, TypeOK
  <2>2. ASSUME NEW p \in Files, object' = [object EXCEPT ![p].place = "linked"]
        PROVE  object' \in [Objects -> [place : {"absent", "linked", "unlinked"},
                                        my_inode : -1 .. YAFFSFS_N_HANDLES - 1]]
    BY <2>1, <2>2
  <2>3. QED
    BY <2>1, <2>2 DEF Locks
<1>8. Typed'
  BY <1>1, <1>7 DEF Typed, TypeOK, HandlesLead, HandleUsed
<1>9. NoneVoid'
  BY <1>1 DEF NoneVoid
<1>10. QED
  BY <1>6, <1>8, <1>9

\* A read or a write of a transaction.
LEMMA TransferTyped ==
  ASSUME Typed, ServerTypeOK, NoneVoid, NEW t \in Threads, Transfer(t)
  PROVE  Typed' /\ ServerTypeOK' /\ NoneVoid'
<1>1. UNCHANGED serverVars
  BY DEF Transfer
<1>2. ServerTypeOK'
  BY <1>1 DEF ServerTypeOK, serverVars
<1>3. MaxChunks \in 0 .. MaxChunks
  BY MaxChunksAssumption
<1>4. ASSUME NEW h \in Slots, NEW kind \in {"read", "write"}, Begin(t, h, kind, MaxChunks)
      PROVE  Typed' /\ NoneVoid'
  <2>1. Typed'
    BY <1>3, <1>4, BeginTyped
  <2>2. NoneVoid'
    BY <1>4 DEF Begin, NoneVoid, Typed, TypeOK
  <2>3. QED
    BY <2>1, <2>2
<1>5. ASSUME NEW done \in BOOLEAN, Chunk(t, done)
      PROVE  Typed' /\ NoneVoid'
  <2>1. Typed'
    BY <1>5, ChunkTyped
  <2>2. NoneVoid'
    BY <1>5 DEF Chunk, NoneVoid, Typed, TypeOK, Reused
  <2>3. QED
    BY <2>1, <2>2
<1>6. ASSUME End(t)
      PROVE  Typed' /\ NoneVoid'
  <2>1. Typed'
    BY <1>6, EndTyped
  <2>2. NoneVoid'
    BY <1>6 DEF End, NoneVoid, Typed, TypeOK, Reused, Idle
  <2>3. QED
    BY <2>1, <2>2
<1>7. QED
  BY <1>2, <1>4, <1>5, <1>6 DEF Transfer

\* What the release of a lock node does to the handles: nothing, or it closes
\* the handle of the node (release_locks_on_success, release_locks_on_abort).
Closed(t, h) ==
    /\ h \in Slots /\ HandleToObject(h) # NoObject
    /\ PutHandle(h)
    /\ mine' = [mine EXCEPT ![h] = NoObject]
    /\ foul' = (foul \/ owner[h] # t)
    /\ owner' = [owner EXCEPT ![h] = NoThread]
    /\ lost' = lost \ {h}

HandlesLeft == UNCHANGED <<handle, fd, inode, object, mine, owner, lost, foul>>

\* The release of a lock closes the handle that its node has, if it has one.
LEMMA ReleaseCloses ==
  ASSUME NEW t \in Threads, NEW o \in Files, NEW k \in 1 .. MaxNodes, Release(t, o, k)
  PROVE  /\ phase[t] \in {"commit", "abort"}
         /\ k \in Places(o) /\ locks[o][k].txn = t
         /\ \/ Closes(t, locks[o][k].fd) /\ Closed(t, locks[o][k].fd)
            \/ /\ HandlesLeft
               /\ \/ ~ Closes(t, locks[o][k].fd)
                  \/ locks[o][k].fd \notin Slots
                  \/ HandleToObject(locks[o][k].fd) = NoObject
         /\ locks' = [locks EXCEPT ![o] = RemoveAt(@, k)]
         /\ UNCHANGED <<device, call, broken, phase, wild>>
<1>1. PICK h : h = locks[o][k].fd
  OBVIOUS
<1>2. Closes(t, h) => CloseFor(t, h)
  BY <1>1 DEF Release
<1>3. ~ Closes(t, h) => HandlesLeft
  BY <1>1 DEF Release, HandlesLeft
<1>4. /\ phase[t] \in {"commit", "abort"}
      /\ k <= Len(locks[o]) /\ locks[o][k].txn = t
      /\ locks' = [locks EXCEPT ![o] = RemoveAt(@, k)]
      /\ UNCHANGED <<device, call, broken, phase, wild>>
  BY DEF Release
<1>5. k \in Places(o)
  BY <1>4, MaxNodesAssumption DEF Places
<1>6. CASE h \in Slots /\ HandleToObject(h) # NoObject
  <2>1. Closes(t, h) => Closed(t, h)
    BY <1>2, <1>6 DEF CloseFor, Closed
  <2>2. QED
    BY <1>1, <1>3, <1>4, <1>5, <2>1
<1>7. CASE h \notin Slots \/ HandleToObject(h) = NoObject
  <2>1. Closes(t, h) => HandlesLeft
    BY <1>2, <1>7 DEF CloseFor, HandlesLeft
  <2>2. QED
    BY <1>1, <1>3, <1>4, <1>5, <1>7, <2>1
<1>8. QED
  BY <1>6, <1>7

\* release_locks leaves every type as it is.
LEMMA ReleaseTyped ==
  ASSUME Typed, ServerTypeOK, NoneVoid, NEW t \in Threads, NEW o \in Files,
         NEW k \in 1 .. MaxNodes, Release(t, o, k)
  PROVE  Typed' /\ ServerTypeOK' /\ NoneVoid'
<1>1. PICK h : h = locks[o][k].fd
  OBVIOUS
<1>2. Closed(t, h) \/ HandlesLeft
  BY <1>1, ReleaseCloses
<1>3. /\ k \in Places(o) /\ locks' = [locks EXCEPT ![o] = RemoveAt(@, k)]
      /\ UNCHANGED <<device, call, broken, phase, wild>>
  BY ReleaseCloses
<1>4. locks' \in [Files -> Seq(NodeType)]
  BY <1>3, NodeReleased DEF NodeGone
<1>5. CASE Closed(t, h)
  <2>1. h \in Slots /\ PutHandle(h)
    BY <1>5 DEF Closed
  <2>2. mine' \in [Slots -> Objects \cup {NoObject}]
    BY <1>5 DEF Closed, Typed, TypeOK
  <2>3. Typed'
    BY <1>3, <2>1, <2>2, PutHandleTyped DEF Typed, TypeOK
  <2>4. owner' \in [Slots -> Threads \cup {NoThread}] /\ lost' \subseteq Slots /\ foul' \in BOOLEAN
    BY <1>5 DEF Closed, ServerTypeOK
  <2>5. QED
    BY <1>3, <1>4, <2>3, <2>4 DEF ServerTypeOK, NodeType, NoneVoid
<1>6. CASE HandlesLeft
  <2>1. Typed'
    BY <1>3, <1>6 DEF HandlesLeft, Typed, TypeOK, HandlesLead, HandleUsed
  <2>2. QED
    BY <1>3, <1>4, <1>6, <2>1 DEF HandlesLeft, ServerTypeOK, NodeType, NoneVoid
<1>7. QED
  BY <1>2, <1>5, <1>6

\* The steps that only change where a transaction is (on_txn_commit, on_txn_abort
\* and the end of its release).
PhaseStep(t) ==
    \/ Ended(t)
    \/ \E how \in {"commit", "abort"} : on_txn_end(t, how)

\* A transaction that comes to its end has closed nothing yet.
LEMMA PhaseTyped ==
  ASSUME ServerTypeOK, NEW t \in Threads, PhaseStep(t)
  PROVE  ServerTypeOK' /\ UNCHANGED vars
BY DEF PhaseStep, Ended, on_txn_end, ServerTypeOK

\* Types depend on nothing but the variables.
LEMMA SameTyped ==
  ASSUME Typed, NoneVoid, UNCHANGED vars
  PROVE  Typed' /\ NoneVoid'
BY DEF vars, Typed, TypeOK, HandlesLead, HandleUsed, NoneVoid

\* The types hold whatever a transaction closes.
LEMMA TypesKept ==
  ASSUME Typed, ServerTypeOK, NoneVoid, [ServerNext]_<<vars, serverVars>>
  PROVE  Typed' /\ ServerTypeOK' /\ NoneVoid'
<1>1. ASSUME NEW t \in Threads, NEW o \in Files, NEW m \in OpenModes, NEW k \in 1 .. MaxNodes,
             on_open(t, o, m, k)
      PROVE  Typed' /\ ServerTypeOK' /\ NoneVoid'
  BY <1>1, OnOpenTyped
<1>2. ASSUME NEW t \in Threads, NEW o \in Files, NEW k \in 1 .. MaxNodes, OnlyLocks(t, o, k)
      PROVE  Typed' /\ ServerTypeOK' /\ NoneVoid'
  BY <1>2, OnlyLocksLocks, LocksTyped
<1>3. ASSUME NEW t \in Threads, NEW o \in Files, NEW k \in 1 .. MaxNodes, Release(t, o, k)
      PROVE  Typed' /\ ServerTypeOK' /\ NoneVoid'
  BY <1>3, ReleaseTyped
<1>4. ASSUME NEW t \in Threads, Transfer(t)
      PROVE  Typed' /\ ServerTypeOK' /\ NoneVoid'
  BY <1>4, TransferTyped
<1>5. ASSUME NEW t \in Threads, PhaseStep(t)
      PROVE  Typed' /\ ServerTypeOK' /\ NoneVoid'
  BY <1>5, PhaseTyped, SameTyped
<1>6. ASSUME UNCHANGED <<vars, serverVars>>
      PROVE  Typed' /\ ServerTypeOK' /\ NoneVoid'
  <2>1. UNCHANGED vars /\ UNCHANGED serverVars
    BY <1>6
  <2>2. ServerTypeOK'
    BY <2>1 DEF serverVars, ServerTypeOK
  <2>3. QED
    BY <2>1, <2>2, SameTyped
<1>7. QED
  BY <1>1, <1>2, <1>3, <1>4, <1>5, <1>6 DEF ServerNext, AllDone, PhaseStep, OnlyLocks

-----------------------------------------------------------------------------
(* The steps of the server, while nobody closed a handle of somebody else. *)

Good == Typed /\ ServerTypeOK /\ NoneVoid /\ ~foul /\ Tables /\ Holders /\ Server

\* While every thread closed its own handles the tables agree.
LEMMA GoodTables == Good => IInv /\ ~broken
BY DEF Good, IInv, NoneVoid

\* The handles of transactions and the handles of transfers.
LEMMA GoodOwners ==
  ASSUME Good
  PROVE  /\ \A h \in Slots : owner[h] # NoThread =>
              owner[h] \in Threads /\ mine[h] \in Files /\ mine[h] # NoObject
         /\ \A t \in Threads : call[t].handle \in Slots
         /\ \A p \in Files : \A j \in Places(p) :
              /\ locks[p][j].txn \in Threads /\ locks[p][j].txn # NoThread
              /\ locks[p][j].fd > 0 => locks[p][j].fd \in Slots
<1>1. Typed /\ ServerTypeOK /\ OwnedOpen
  BY DEF Good, Server
<1>2. \A h \in Slots : owner[h] # NoThread =>
        owner[h] \in Threads /\ mine[h] \in Files /\ mine[h] # NoObject
  BY <1>1, NoObjectAssumption DEF OwnedOpen, ServerTypeOK, Files
<1>3. \A t \in Threads : call[t].handle \in Slots
  BY <1>1 DEF Typed, TypeOK
<1>4. ASSUME NEW p \in Files, NEW j \in Places(p)
      PROVE  /\ locks[p][j].txn \in Threads /\ locks[p][j].txn # NoThread
             /\ locks[p][j].fd > 0 => locks[p][j].fd \in Slots
  <2>1. PICK s \in Seq(NodeType) : s = locks[p]
    BY <1>1 DEF ServerTypeOK, NodeType
  <2>2. s[j] \in NodeType
    BY <2>1 DEF Places
  <2>3. locks[p][j] \in NodeType
    BY <2>1, <2>2
  <2>4. QED
    BY <2>3, NoThreadAssumption, NHandlesAssumption DEF NodeType, Slots
<1>5. QED
  BY <1>2, <1>3, <1>4

\* What a lock leaves: every node stays with its transaction and its mode, and
\* only the node k of o has another number.
NodesStay(t, o, k, new) ==
    /\ k \in 1 .. Len(locks'[o]) /\ locks'[o][k].txn = t /\ locks'[o][k].fd = new
    /\ \A p \in Files : \A j \in Places(p) :
         /\ j \in 1 .. Len(locks'[p])
         /\ locks'[p][j].txn = locks[p][j].txn /\ locks'[p][j].held = locks[p][j].held
         /\ p # o \/ j # k => locks'[p][j].fd = locks[p][j].fd
    /\ \A p \in Files : \A j \in 1 .. Len(locks'[p]) :
         p # o \/ j # k => j \in Places(p) /\ locks'[p][j] = locks[p][j]
    /\ FdOf(o, k) > 0 => k \in Places(o) /\ locks[o][k].txn = t /\ locks[o][k].fd = FdOf(o, k)
    /\ k \in Places(o) => FdOf(o, k) = locks[o][k].fd

\* insert_file_list and what the handler writes to the node.
LEMMA NodesKept ==
  ASSUME ServerTypeOK, NEW t \in Threads, NEW o \in Files, NEW mode \in {0, 1},
         NEW k \in 1 .. MaxNodes, NEW new \in -1 .. YAFFSFS_N_HANDLES - 1,
         NodeGets(t, o, mode, k, new)
  PROVE  NodesStay(t, o, k, new)
<1>1. locks \in [Files -> Seq(NodeType)]
  BY DEF ServerTypeOK, NodeType
<1>2. PICK s \in Seq(NodeType), r \in Seq(NodeType) : s = locks[o] /\ r = locks'[o]
  BY <1>1 DEF NodeGets
<1>3. PICK n \in Nat, m \in Nat : n = Len(s) /\ m = Len(r)
  BY <1>2
<1>4. /\ k \in 1 .. m /\ r[k].txn = t /\ r[k].fd = new
      /\ \A j \in 1 .. n : j # k => r[j] = s[j]
      /\ \/ k \in 1 .. n /\ s[k].txn = t /\ m = n /\ r[k].held = s[k].held
         \/ k = n + 1 /\ m = k /\ FdOf(o, k) = -1
  BY <1>2, <1>3 DEF NodeGets, Places
<1>5. /\ \A j \in 1 .. n :
           j \in 1 .. m /\ r[j].txn = s[j].txn /\ r[j].held = s[j].held /\ (j # k => r[j].fd = s[j].fd)
      /\ \A j \in 1 .. m : j # k => j \in 1 .. n /\ r[j] = s[j]
  BY <1>4
<1>6. \A p \in Files \ {o} : locks'[p] = locks[p]
  BY DEF NodeGets
<1>7. k \in Places(o) => FdOf(o, k) = locks[o][k].fd
  BY <1>2, <1>3 DEF Places, FdOf
<1>8. FdOf(o, k) > 0 => k \in Places(o) /\ locks[o][k].txn = t
  BY <1>2, <1>3, <1>4 DEF Places
<1>9. \A p \in Files : \A j \in Places(p) :
        /\ j \in 1 .. Len(locks'[p])
        /\ locks'[p][j].txn = locks[p][j].txn /\ locks'[p][j].held = locks[p][j].held
        /\ p # o \/ j # k => locks'[p][j].fd = locks[p][j].fd
  <2>1. ASSUME NEW p \in Files, NEW j \in Places(p)
        PROVE  /\ j \in 1 .. Len(locks'[p])
               /\ locks'[p][j].txn = locks[p][j].txn /\ locks'[p][j].held = locks[p][j].held
               /\ p # o \/ j # k => locks'[p][j].fd = locks[p][j].fd
    <3>1. CASE p = o
      BY <1>2, <1>3, <1>5, <3>1 DEF Places
    <3>2. CASE p # o
      BY <1>6, <3>2 DEF Places
    <3>3. QED
      BY <3>1, <3>2
  <2>2. QED
    BY <2>1
<1>10. \A p \in Files : \A j \in 1 .. Len(locks'[p]) :
         p # o \/ j # k => j \in Places(p) /\ locks'[p][j] = locks[p][j]
  <2>1. ASSUME NEW p \in Files, NEW j \in 1 .. Len(locks'[p]), p # o \/ j # k
        PROVE  j \in Places(p) /\ locks'[p][j] = locks[p][j]
    <3>1. CASE p = o
      BY <1>2, <1>3, <1>5, <2>1, <3>1 DEF Places
    <3>2. CASE p # o
      BY <1>6, <3>2 DEF Places
    <3>3. QED
      BY <3>1, <3>2
  <2>2. QED
    BY <2>1
<1>11. k \in 1 .. Len(locks'[o]) /\ locks'[o][k].txn = t /\ locks'[o][k].fd = new
  BY DEF NodeGets
<1>12. QED
  BY <1>7, <1>8, <1>9, <1>10, <1>11 DEF NodesStay

\* A lock is granted so that an exclusive one is the only one: a new node comes
\* on an empty list, or a shared one beside a shared one (insert_file_list).
LEMMA LockGranted ==
  ASSUME ServerTypeOK, LocksExclude, NEW t \in Threads, NEW o \in Files, NEW mode \in {0, 1},
         NEW k \in 1 .. MaxNodes, NEW new \in -1 .. YAFFSFS_N_HANDLES - 1,
         Granted(t, o, mode, k), NodeGets(t, o, mode, k, new)
  PROVE  LocksExclude'
<1>1. locks \in [Files -> Seq(NodeType)]
  BY DEF ServerTypeOK, NodeType
<1>2. PICK s \in Seq(NodeType), r \in Seq(NodeType) : s = locks[o] /\ r = locks'[o]
  BY <1>1 DEF NodeGets
<1>3. PICK n \in Nat, m \in Nat : n = Len(s) /\ m = Len(r)
  BY <1>2
<1>4. /\ k \in 1 .. m
      /\ \A j \in 1 .. n : j # k => r[j] = s[j]
      /\ \/ k \in 1 .. n /\ m = n /\ r[k].held = s[k].held
         \/ k = n + 1 /\ m = k /\ r[k].held = mode
  BY <1>2, <1>3 DEF NodeGets, Places
<1>5. k = n + 1 => k = 1 \/ (mode = 0 /\ \E i \in 1 .. n : s[i].held = 0)
  <2>1. ASSUME k = n + 1, k # 1
        PROVE  mode = 0 /\ \E i \in 1 .. n : s[i].held = 0
    <3>1. ~ (k <= n)
      BY <2>1
    <3>2. mode = 0 /\ \E i \in Found(o) : locks[o][i].held = 0
      BY <1>2, <1>3, <2>1, <3>1 DEF Granted, Found
    <3>3. \A i \in Found(o) : i \in 1 .. n
      BY <1>2, <1>3 DEF Found
    <3>4. QED
      BY <1>2, <3>2, <3>3
  <2>2. QED
    BY <2>1
<1>6. \A j \in 1 .. n : s[j].held = 1 => n = 1
  BY <1>2, <1>3 DEF LocksExclude, Places
<1>7. \A j \in 1 .. m : r[j].held = 1 => m = 1
  <2>1. CASE k \in 1 .. n /\ m = n /\ r[k].held = s[k].held
    BY <1>4, <1>6, <2>1
  <2>2. CASE k = n + 1 /\ m = k /\ r[k].held = mode
    <3>1. CASE k = 1
      BY <2>2, <3>1
    <3>2. CASE mode = 0 /\ \E i \in 1 .. n : s[i].held = 0
      <4>1. PICK i \in 1 .. n : s[i].held = 0
        BY <3>2
      <4>2. \A j \in 1 .. n : s[j].held # 1
        BY <1>6, <4>1
      <4>3. QED
        BY <1>4, <2>2, <3>2, <4>2
    <3>3. QED
      BY <1>5, <2>2, <3>1, <3>2
  <2>3. QED
    BY <1>4, <2>1, <2>2
<1>8. \A p \in Files \ {o} : locks'[p] = locks[p]
  BY DEF NodeGets
<1>9. ASSUME NEW p \in Files, NEW j \in 1 .. Len(locks'[p]), locks'[p][j].held = 1
      PROVE  Len(locks'[p]) = 1
  <2>1. CASE p = o
    BY <1>2, <1>3, <1>7, <1>9, <2>1
  <2>2. CASE p # o
    BY <1>8, <1>9, <2>2 DEF LocksExclude, Places
  <2>3. QED
    BY <2>1, <2>2
<1>10. QED
  BY <1>9 DEF LocksExclude, Places

\* A file that on_creat makes is nobody's to have open.
LEMMA PlaceAgrees ==
  ASSUME IInv, ~broken, UNCHANGED <<handle, fd, inode, call, mine>>,
         \/ object' = object
         \/ \E p \in Files : object' = [object EXCEPT ![p].place = "linked"]
  PROVE  Tables' /\ Holders'
<1> USE DEF IInv, Typed, Holders
<1>1. /\ \A p \in Objects : object'[p].my_inode = object[p].my_inode
      /\ \A p \in Objects : object'[p].place = "unlinked" => object[p].place = "unlinked"
  <2>1. ASSUME NEW q \in Files, object' = [object EXCEPT ![q].place = "linked"]
        PROVE  /\ \A p \in Objects : object'[p].my_inode = object[p].my_inode
               /\ \A p \in Objects : object'[p].place = "unlinked" => object[p].place = "unlinked"
    BY <2>1 DEF TypeOK
  <2>2. QED
    BY <2>1
<1>2. ObjectsHooked'
  BY <1>1 DEF Tables, ObjectsHooked
<1>3. FdsLead'
  <2>1. \A f \in Slots : Users(f)' = Users(f)
    BY DEF Users
  <2>2. QED
    BY <2>1 DEF Tables, FdsLead, FdUsed
<1>4. InodesLead'
  <2>1. \A i \in Slots : Openings(i)' = Openings(i)
    BY DEF Openings
  <2>2. QED
    BY <2>1 DEF Tables, InodesLead
<1>5. ModesFit'
  BY DEF Tables, ModesFit, FdUsed
<1>6. HandlesHeld'
  <2>1. \A k \in Slots : TransfersOn(k)' = TransfersOn(k)
    BY DEF TransfersOn
  <2>2. QED
    BY <2>1 DEF HandlesHeld
<1>7. MineLead' /\ CallsLead'
  BY DEF MineLead, CallsLead, HandleToObject, HandleToInode, HandleToFileDes
<1>8. QED
  BY <1>2, <1>3, <1>4, <1>5, <1>6, <1>7 DEF Tables

\* A lock that opens nothing loses, at most, the handle its transaction had in
\* that node.
LEMMA LocksServe ==
  ASSUME Good, NEW t \in Threads, NEW o \in Files, NEW mode \in {0, 1},
         NEW k \in 1 .. MaxNodes, NEW new \in -1 .. YAFFSFS_N_HANDLES - 1,
         Locks(t, o, mode, k, new)
  PROVE  Tables' /\ Holders' /\ Server'
<1>1. /\ Typed /\ ServerTypeOK /\ NoneVoid /\ IInv /\ ~broken /\ Server
  BY GoodTables DEF Good
<1>2. /\ UNCHANGED <<handle, fd, inode, call, mine, owner>>
      /\ Granted(t, o, mode, k) /\ SetNode(t, o, mode, k, new)
      /\ new > 0 => new = FdOf(o, k) \/ new \in wild'
      /\ wild \subseteq wild'
  BY DEF Locks
<1>3. Tables' /\ Holders'
  BY <1>1, <1>2, PlaceAgrees DEF Locks
<1>4. NodeGets(t, o, mode, k, new)
  BY <1>1, <1>2, NodeGranted
<1>5. LocksExclude'
  BY <1>1, <1>2, <1>4, LockGranted DEF Server
<1>6. NodesStay(t, o, k, new)
  BY <1>1, <1>4, NodesKept
<1>7. \A u \in Threads :
        /\ u # t => phase'[u] = phase[u]
        /\ phase'[u] \in {"run", "abort"} \/ phase'[u] = phase[u]
        /\ phase'[u] = "run" => phase[u] = "run"
        /\ u = t => phase[u] = "run" /\ call[u].kind = "none"
  BY <1>1, <1>2 DEF Locks, ServerTypeOK, Granted, Idle
<1>8. /\ lost \subseteq lost'
      /\ \A h \in Slots : h # new /\ h = FdOf(o, k) /\ owner[h] = t /\ mine[h] = o => h \in lost'
  BY <1>2 DEF SetNode
<1>9. OwnedOpen'
  BY <1>1, <1>2 DEF Server, OwnedOpen
<1>10. Recorded'
  <2>1. ASSUME NEW h \in Slots, owner[h] # NoThread
        PROVE  \/ h \in lost'
               \/ \E j \in 1 .. Len(locks'[mine[h]]) :
                    locks'[mine[h]][j].txn = owner[h] /\ locks'[mine[h]][j].fd = h
               \/ h = 0 /\ phase'[owner[h]] \in {"commit", "done"}
    <3>1. PICK u \in Threads, p \in Files : u = owner[h] /\ p = mine[h]
      BY <2>1, GoodOwners
    <3>2. \/ h \in lost
          \/ \E j \in Places(p) : locks[p][j].txn = u /\ locks[p][j].fd = h
          \/ h = 0 /\ phase[u] \in {"commit", "done"}
      BY <1>1, <2>1, <3>1 DEF Server, Recorded
    <3>3. CASE h = 0 /\ phase[u] \in {"commit", "done"}
      BY <1>7, <3>1, <3>3
    <3>4. ASSUME NEW j \in Places(p), locks[p][j].txn = u, locks[p][j].fd = h
          PROVE  \/ h \in lost'
                 \/ \E i \in 1 .. Len(locks'[p]) : locks'[p][i].txn = u /\ locks'[p][i].fd = h
      <4>1. CASE p = o /\ j = k
        <5>1. FdOf(o, k) = h
          BY <1>6, <3>4, <4>1 DEF NodesStay
        <5>2. u = t
          BY <1>6, <3>4, <4>1 DEF NodesStay
        <5>3. CASE h = new
          BY <1>6, <4>1, <5>2, <5>3 DEF NodesStay
        <5>4. CASE h # new
          BY <1>8, <3>1, <4>1, <5>1, <5>2, <5>4
        <5>5. QED
          BY <5>3, <5>4
      <4>2. CASE p # o \/ j # k
        BY <1>6, <3>4, <4>2 DEF NodesStay
      <4>3. QED
        BY <4>1, <4>2
    <3>5. QED
      BY <1>8, <3>1, <3>2, <3>3, <3>4
  <2>2. QED
    BY <1>2, <2>1 DEF Recorded, Places
<1>11. NodesLead'
  <2>1. ASSUME NEW p \in Files, NEW j \in 1 .. Len(locks'[p]),
               locks'[p][j].fd > 0, locks'[p][j].fd \notin wild'
        PROVE  /\ owner[locks'[p][j].fd] = locks'[p][j].txn /\ mine[locks'[p][j].fd] = p
               /\ \A i \in 1 .. Len(locks'[p]) : locks'[p][i].fd = locks'[p][j].fd => i = j
    <3>1. /\ j \in Places(p) /\ locks[p][j].fd = locks'[p][j].fd
          /\ locks[p][j].txn = locks'[p][j].txn
      <4>1. CASE p = o /\ j = k
        <5>1. new > 0 /\ new = FdOf(o, k)
          BY <1>2, <1>6, <2>1, <4>1 DEF NodesStay
        <5>2. QED
          BY <1>6, <4>1, <5>1 DEF NodesStay
      <4>2. CASE p # o \/ j # k
        BY <1>6, <4>2 DEF NodesStay
      <4>3. QED
        BY <4>1, <4>2
    <3>2. locks[p][j].fd \notin wild
      BY <1>2, <2>1, <3>1
    <3>3. /\ owner[locks[p][j].fd] = locks[p][j].txn /\ mine[locks[p][j].fd] = p
          /\ \A i \in Places(p) : locks[p][i].fd = locks[p][j].fd => i = j
      BY <1>1, <2>1, <3>1, <3>2 DEF Server, NodesLead
    <3>4. ASSUME NEW i \in 1 .. Len(locks'[p]), locks'[p][i].fd = locks'[p][j].fd
          PROVE  i \in Places(p) /\ locks[p][i].fd = locks[p][j].fd
      <4>1. CASE p = o /\ i = k
        <5>1. new > 0 /\ new \notin wild'
          BY <1>6, <2>1, <3>4, <4>1 DEF NodesStay
        <5>2. new = FdOf(o, k)
          BY <1>2, <5>1
        <5>3. QED
          BY <1>6, <3>1, <3>4, <4>1, <5>1, <5>2 DEF NodesStay
      <4>2. CASE p # o \/ i # k
        BY <1>6, <3>1, <3>4, <4>2 DEF NodesStay
      <4>3. QED
        BY <4>1, <4>2
    <3>5. QED
      BY <3>1, <3>3, <3>4
  <2>2. QED
    BY <1>2, <2>1 DEF NodesLead, Places
<1>12. FilesLocked'
  <2>1. ASSUME NEW h \in Slots, owner[h] # NoThread, phase'[owner[h]] = "run"
        PROVE  \E j \in 1 .. Len(locks'[mine[h]]) : locks'[mine[h]][j].txn = owner[h]
    <3>1. PICK u \in Threads, p \in Files : u = owner[h] /\ p = mine[h]
      BY <2>1, GoodOwners
    <3>2. PICK j \in Places(p) : locks[p][j].txn = u
      BY <1>1, <1>7, <2>1, <3>1 DEF Server, FilesLocked
    <3>3. j \in 1 .. Len(locks'[p]) /\ locks'[p][j].txn = u
      BY <1>6, <3>2 DEF NodesStay
    <3>4. QED
      BY <3>1, <3>3
  <2>2. QED
    BY <1>2, <2>1 DEF FilesLocked, Places
<1>13. WritesLocked'
  <2>1. ASSUME NEW u \in Threads, call[u].kind = "write", call[u].handle # 0,
               call[u].handle \notin wild'
        PROVE  /\ phase'[u] = "run" /\ owner[call[u].handle] = u
               /\ \E j \in 1 .. Len(locks'[mine[call[u].handle]]) :
                    /\ locks'[mine[call[u].handle]][j].txn = u
                    /\ locks'[mine[call[u].handle]][j].held = 1
    <3>1. u # t
      BY <1>7, <2>1
    <3>2. PICK h \in Slots : h = call[u].handle
      BY GoodOwners
    <3>3. /\ phase[u] = "run" /\ owner[h] = u
          /\ \E j \in Places(mine[h]) : locks[mine[h]][j].txn = u /\ locks[mine[h]][j].held = 1
      BY <1>1, <1>2, <2>1, <3>2 DEF Server, WritesLocked
    <3>4. PICK p \in Files : p = mine[h]
      BY <3>3, NoThreadAssumption, GoodOwners
    <3>5. PICK j \in Places(p) : locks[p][j].txn = u /\ locks[p][j].held = 1
      BY <3>3, <3>4
    <3>6. j \in 1 .. Len(locks'[p]) /\ locks'[p][j].txn = u /\ locks'[p][j].held = 1
      BY <1>6, <3>5 DEF NodesStay
    <3>7. phase'[u] = "run"
      BY <1>7, <3>1, <3>3
    <3>8. QED
      BY <3>2, <3>3, <3>4, <3>6, <3>7
  <2>2. QED
    BY <1>2, <2>1 DEF WritesLocked, Places
<1>14. QED
  BY <1>3, <1>5, <1>9, <1>10, <1>11, <1>12, <1>13 DEF Server

\* A transaction that ends has no transfer under way, and when its nodes are
\* gone no handle of it is recorded in one.
LEMMA PhaseServes ==
  ASSUME Good, NEW t \in Threads, PhaseStep(t)
  PROVE  Server'
<1>1. UNCHANGED <<vars, locks, owner, lost, wild, foul>>
  BY DEF PhaseStep, Ended, on_txn_end
<1>2. UNCHANGED <<handle, fd, inode, object, call, mine, owner, lost, locks, wild>>
  BY <1>1 DEF vars
<1>3. /\ phase'[t] \in {"commit", "abort", "done"}
      /\ \A u \in Threads \ {t} : phase'[u] = phase[u]
      /\ \/ call[t].kind = "none" /\ phase[t] = "run"
         \/ phase[t] \in {"commit", "abort"} /\ phase'[t] = "done"
  BY DEF PhaseStep, Ended, on_txn_end, ServerTypeOK, Good, Idle
<1>4. Server
  BY DEF Good
<1>5. OwnedOpen' /\ LocksExclude' /\ NodesLead'
  BY <1>2, <1>4 DEF Server, OwnedOpen, NodesLead, LocksExclude, Places
<1>6. ASSUME NEW h \in Slots, owner[h] # NoThread
      PROVE  \/ h \in lost
             \/ \E k \in Places(mine[h]) : locks[mine[h]][k].txn = owner[h] /\ locks[mine[h]][k].fd = h
             \/ h = 0 /\ phase'[owner[h]] \in {"commit", "done"}
  <2>1. PICK u \in Threads : u = owner[h]
    BY <1>6, GoodOwners
  <2>2. \/ h \in lost
        \/ \E k \in Places(mine[h]) : locks[mine[h]][k].txn = u /\ locks[mine[h]][k].fd = h
        \/ h = 0 /\ phase[u] \in {"commit", "done"}
    BY <1>4, <1>6, <2>1 DEF Server, Recorded
  <2>3. phase[u] \in {"commit", "done"} => phase'[u] \in {"commit", "done"}
    BY <1>3
  <2>4. QED
    BY <2>1, <2>2, <2>3
<1>7. Recorded'
  BY <1>2, <1>6 DEF Recorded, Places
<1>8. FilesLocked'
  <2>1. \A h \in Slots : owner[h] # NoThread /\ phase'[owner[h]] = "run" => phase[owner[h]] = "run"
    BY <1>3, GoodOwners
  <2>2. QED
    BY <1>2, <1>4, <2>1 DEF Server, FilesLocked, Places
<1>9. WritesLocked'
  <2>1. ASSUME NEW u \in Threads, call[u].kind = "write", call[u].handle # 0,
               call[u].handle \notin wild
        PROVE  phase'[u] = "run"
    <3>1. phase[u] = "run"
      BY <1>4, <2>1 DEF Server, WritesLocked
    <3>2. QED
      BY <1>3, <2>1, <3>1
  <2>2. QED
    BY <1>2, <1>4, <2>1 DEF Server, WritesLocked, Places
<1>10. QED
  BY <1>5, <1>7, <1>8, <1>9 DEF Server

\* A transfer that begins with a number an open gave has the lock that its kind
\* needs: write_possible finds the node of the handle, and that node is the
\* transaction's own.
LEMMA TransferServes ==
  ASSUME Good, NEW t \in Threads, Transfer(t)
  PROVE  Tables' /\ Holders' /\ Server'
<1>1. /\ Typed /\ ServerTypeOK /\ NoneVoid /\ IInv /\ ~broken /\ Server
      /\ Tables /\ Holders
  BY GoodTables DEF Good
<1>2. UNCHANGED <<locks, phase, owner, lost, wild, foul>>
  BY DEF Transfer, serverVars
<1>3. Typed' /\ NoneVoid'
  BY <1>1, TransferTyped
<1>4. MaxChunks \in 0 .. MaxChunks
  BY MaxChunksAssumption
<1>5. Tables' /\ Holders'
  <2>1. ASSUME NEW h \in Slots, NEW kind \in {"read", "write"}, Begin(t, h, kind, MaxChunks)
        PROVE  Tables' /\ Holders'
    BY <1>1, <1>4, <2>1, BeginAgrees
  <2>2. ASSUME NEW done \in BOOLEAN, Chunk(t, done)
        PROVE  Tables' /\ Holders'
    BY <1>1, <2>2, ChunkAgrees
  <2>3. ASSUME End(t)
        PROVE  Tables' /\ Holders'
    BY <1>1, <1>3, <2>3, EndAgrees DEF NoneVoid
  <2>4. QED
    BY <2>1, <2>2, <2>3 DEF Transfer
<1>6. mine' = mine
  BY DEF Transfer, Begin, Chunk, End
<1>7. OwnedOpen' /\ Recorded' /\ NodesLead' /\ LocksExclude' /\ FilesLocked'
  BY <1>1, <1>2, <1>6
  DEF Server, OwnedOpen, Recorded, NodesLead, LocksExclude, FilesLocked, Places
<1>8. ASSUME \A u \in Threads \ {t} : call'[u] = call[u],
             call'[t].kind = "write" /\ call'[t].handle # 0 /\ call'[t].handle \notin wild =>
               /\ phase[t] = "run" /\ owner[call'[t].handle] = t
               /\ \E k \in Places(mine[call'[t].handle]) :
                    /\ locks[mine[call'[t].handle]][k].txn = t
                    /\ locks[mine[call'[t].handle]][k].held = 1
      PROVE  WritesLocked'
  BY <1>1, <1>2, <1>6, <1>8 DEF Server, WritesLocked, Places
<1>9. WritesLocked'
  <2>1. ASSUME NEW h \in Slots, NEW kind \in {"read", "write"}, phase[t] = "run",
               owner[h] = t \/ h \in wild, kind = "write" => write_possible(h),
               Begin(t, h, kind, MaxChunks)
        PROVE  WritesLocked'
    <3>1. /\ call'[t].handle = h /\ call'[t].kind = kind
          /\ \A u \in Threads \ {t} : call'[u] = call[u]
      BY <1>1, <2>1 DEF Begin, Typed, TypeOK
    <3>2. ASSUME kind = "write", h # 0, h \notin wild
          PROVE  \E k \in Places(mine[h]) :
                   locks[mine[h]][k].txn = t /\ locks[mine[h]][k].held = 1
      <4>0. PICK o \in Files : \E k \in Places(o) : locks[o][k].fd = h /\ locks[o][k].held = 1
        BY <2>1, <3>2 DEF write_possible, Places
      <4>1. PICK k \in Places(o) : locks[o][k].fd = h /\ locks[o][k].held = 1
        BY <4>0
      <4>2. h > 0
        BY <3>2, NHandlesAssumption DEF Slots
      <4>3. owner[h] = locks[o][k].txn /\ mine[h] = o
        BY <1>1, <3>2, <4>1, <4>2 DEF Server, NodesLead
      <4>4. owner[h] = t
        BY <2>1, <3>2
      <4>5. QED
        BY <4>1, <4>3, <4>4
    <3>3. QED
      BY <1>8, <2>1, <3>1, <3>2
  <2>2. ASSUME NEW done \in BOOLEAN, Chunk(t, done)
        PROVE  WritesLocked'
    <3>1. PICK n : n = IF done THEN call[t].left - 1 ELSE 0
      OBVIOUS
    <3>2. call' = [call EXCEPT ![t].left = n]
      BY <2>2, <3>1 DEF Chunk
    <3>3. /\ call'[t].handle = call[t].handle /\ call'[t].kind = call[t].kind
          /\ \A u \in Threads \ {t} : call'[u] = call[u]
      BY <1>1, <3>2 DEF Typed, TypeOK
    <3>4. QED
      BY <1>1, <1>8, <3>3 DEF Server, WritesLocked
  <2>3. ASSUME End(t)
        PROVE  WritesLocked'
    <3>1. /\ call'[t].kind = "none"
          /\ \A u \in Threads \ {t} : call'[u] = call[u]
      BY <1>1, <2>3 DEF End, Typed, TypeOK, Idle
    <3>2. QED
      BY <1>8, <3>1
  <2>4. QED
    BY <2>1, <2>2, <2>3 DEF Transfer
<1>10. QED
  BY <1>5, <1>7, <1>9 DEF Server

\* on_open: the handle is new and its number goes into the node.
LEMMA OnOpenServes ==
  ASSUME Good, NEW t \in Threads, NEW o \in Files, NEW m \in OpenModes,
         NEW k \in 1 .. MaxNodes, on_open(t, o, m, k)
  PROVE  Tables' /\ Holders' /\ Server'
<1>1. /\ Typed /\ ServerTypeOK /\ NoneVoid /\ IInv /\ ~broken /\ Server
      /\ Tables /\ Holders /\ o \in Objects
  BY GoodTables DEF Good, Files
<1>2. Open(o, m)
  BY DEF on_open
<1>3. Tables' /\ Holders'
  BY <1>1, <1>2, OpenAgrees
<1>4. PICK new, d, i : OpenTakes(o, m, new, d, i) /\ new = FirstFree(FreeHandles)
  BY <1>1, <1>2, OpenFinds
<1>5. new \in Slots /\ mine[new] = NoObject /\ call' = call
  BY <1>4 DEF OpenTakes
<1>6. mine'[new] = o /\ \A h \in Slots \ {new} : mine'[h] = mine[h]
  BY <1>1, <1>4 DEF OpenTakes, Typed, TypeOK
<1>7. new \in -1 .. YAFFSFS_N_HANDLES - 1
  BY <1>5, NHandlesAssumption DEF Slots
<1>8. PICK mode \in {0, 1} : mode = ModeOf(m)
  BY ModeTyped
<1>9. /\ Granted(t, o, mode, k) /\ SetNode(t, o, mode, k, new)
      /\ owner' = [owner EXCEPT ![new] = t]
      /\ UNCHANGED <<phase, wild>>
  BY <1>4, <1>8 DEF on_open
<1>10. NodeGets(t, o, mode, k, new)
  BY <1>1, <1>7, <1>9, NodeGranted
<1>11. LocksExclude'
  BY <1>1, <1>7, <1>9, <1>10, LockGranted DEF Server
<1>12. NodesStay(t, o, k, new)
  BY <1>1, <1>7, <1>10, NodesKept
<1>13. /\ lost \subseteq lost'
       /\ \A h \in Slots : h # new /\ h = FdOf(o, k) /\ owner[h] = t /\ mine[h] = o => h \in lost'
  BY <1>9 DEF SetNode
<1>14. owner[new] = NoThread
  BY <1>5, GoodOwners
<1>15. /\ owner'[new] = t /\ t # NoThread
       /\ \A h \in Slots \ {new} : owner'[h] = owner[h]
  BY <1>1, <1>5, <1>9, NoThreadAssumption DEF ServerTypeOK
<1>16. OwnedOpen'
  BY <1>1, <1>6, <1>15 DEF Server, OwnedOpen
<1>17. Recorded'
  <2>1. ASSUME NEW h \in Slots, owner'[h] # NoThread
        PROVE  \/ h \in lost'
               \/ \E j \in 1 .. Len(locks'[mine'[h]]) :
                    locks'[mine'[h]][j].txn = owner'[h] /\ locks'[mine'[h]][j].fd = h
               \/ h = 0 /\ phase[owner'[h]] \in {"commit", "done"}
    <3>1. CASE h = new
      <4>1. k \in 1 .. Len(locks'[o]) /\ locks'[o][k].txn = t /\ locks'[o][k].fd = new
        BY <1>12 DEF NodesStay
      <4>2. QED
        BY <1>6, <1>15, <3>1, <4>1
    <3>2. CASE h # new
      <4>1. owner'[h] = owner[h] /\ mine'[h] = mine[h]
        BY <1>6, <1>15, <3>2
      <4>2. PICK u \in Threads, p \in Files : u = owner[h] /\ p = mine[h]
        BY <2>1, <4>1, GoodOwners
      <4>3. \/ h \in lost
            \/ \E j \in Places(p) : locks[p][j].txn = u /\ locks[p][j].fd = h
            \/ h = 0 /\ phase[u] \in {"commit", "done"}
        BY <1>1, <2>1, <4>1, <4>2 DEF Server, Recorded
      <4>4. ASSUME NEW j \in Places(p), locks[p][j].txn = u, locks[p][j].fd = h
            PROVE  \/ h \in lost'
                   \/ \E l \in 1 .. Len(locks'[p]) : locks'[p][l].txn = u /\ locks'[p][l].fd = h
        <5>1. CASE p = o /\ j = k
          <6>1. FdOf(o, k) = h
            BY <1>12, <4>4, <5>1 DEF NodesStay
          <6>2. u = t
            BY <1>12, <4>4, <5>1 DEF NodesStay
          <6>3. QED
            BY <1>13, <3>2, <4>2, <5>1, <6>1, <6>2
        <5>2. CASE p # o \/ j # k
          BY <1>12, <4>4, <5>2 DEF NodesStay
        <5>3. QED
          BY <5>1, <5>2
      <4>5. QED
        BY <1>13, <4>1, <4>2, <4>3, <4>4
    <3>3. QED
      BY <3>1, <3>2
  <2>2. QED
    BY <1>9, <2>1 DEF Recorded, Places
<1>18. NodesLead'
  <2>1. ASSUME NEW p \in Files, NEW j \in Places(p), locks[p][j].fd > 0, locks[p][j].fd \notin wild
        PROVE  /\ locks[p][j].fd # new
               /\ owner'[locks[p][j].fd] = locks[p][j].txn /\ mine'[locks[p][j].fd] = p
               /\ \A l \in Places(p) : locks[p][l].fd = locks[p][j].fd => l = j
    <3>1. /\ owner[locks[p][j].fd] = locks[p][j].txn /\ mine[locks[p][j].fd] = p
          /\ \A l \in Places(p) : locks[p][l].fd = locks[p][j].fd => l = j
      BY <1>1, <2>1 DEF Server, NodesLead
    <3>2. locks[p][j].txn # NoThread /\ locks[p][j].fd \in Slots
      BY <2>1, GoodOwners
    <3>3. locks[p][j].fd # new
      BY <1>14, <3>1, <3>2
    <3>4. QED
      BY <1>6, <1>15, <3>1, <3>2, <3>3
  <2>2. ASSUME NEW p \in Files, NEW j \in 1 .. Len(locks'[p]),
               locks'[p][j].fd > 0, locks'[p][j].fd \notin wild
        PROVE  /\ owner'[locks'[p][j].fd] = locks'[p][j].txn /\ mine'[locks'[p][j].fd] = p
               /\ \A l \in 1 .. Len(locks'[p]) : locks'[p][l].fd = locks'[p][j].fd => l = j
    <3>1. CASE p = o /\ j = k
      <4>1. locks'[o][k].fd = new /\ locks'[o][k].txn = t
        BY <1>12 DEF NodesStay
      <4>2. ASSUME NEW l \in 1 .. Len(locks'[o]), locks'[o][l].fd = new, l # k
            PROVE  FALSE
        <5>1. l \in Places(o) /\ locks[o][l].fd = new
          BY <1>12, <4>2 DEF NodesStay
        <5>2. new > 0 /\ new \notin wild
          BY <2>2, <3>1, <4>1
        <5>3. QED
          BY <2>1, <5>1, <5>2
      <4>3. QED
        BY <1>6, <1>15, <3>1, <4>1, <4>2
    <3>2. CASE p # o \/ j # k
      <4>1. j \in Places(p) /\ locks'[p][j] = locks[p][j]
        BY <1>12, <3>2 DEF NodesStay
      <4>2. /\ locks[p][j].fd # new
            /\ owner'[locks[p][j].fd] = locks[p][j].txn /\ mine'[locks[p][j].fd] = p
            /\ \A l \in Places(p) : locks[p][l].fd = locks[p][j].fd => l = j
        BY <2>1, <2>2, <4>1
      <4>3. ASSUME NEW l \in 1 .. Len(locks'[p]), locks'[p][l].fd = locks[p][j].fd
            PROVE  l \in Places(p) /\ locks[p][l].fd = locks[p][j].fd
        <5>1. ~ (p = o /\ l = k)
          BY <1>12, <4>2, <4>3 DEF NodesStay
        <5>2. QED
          BY <1>12, <4>3, <5>1 DEF NodesStay
      <4>4. QED
        BY <4>1, <4>2, <4>3
    <3>3. QED
      BY <3>1, <3>2
  <2>3. QED
    BY <1>9, <2>2 DEF NodesLead, Places
<1>19. FilesLocked'
  <2>1. ASSUME NEW h \in Slots, owner'[h] # NoThread, phase[owner'[h]] = "run"
        PROVE  \E j \in 1 .. Len(locks'[mine'[h]]) : locks'[mine'[h]][j].txn = owner'[h]
    <3>1. CASE h = new
      <4>1. k \in 1 .. Len(locks'[o]) /\ locks'[o][k].txn = t
        BY <1>12 DEF NodesStay
      <4>2. QED
        BY <1>6, <1>15, <3>1, <4>1
    <3>2. CASE h # new
      <4>1. owner'[h] = owner[h] /\ mine'[h] = mine[h]
        BY <1>6, <1>15, <3>2
      <4>2. PICK u \in Threads, p \in Files : u = owner[h] /\ p = mine[h]
        BY <2>1, <4>1, GoodOwners
      <4>3. PICK j \in Places(p) : locks[p][j].txn = u
        BY <1>1, <2>1, <4>1, <4>2 DEF Server, FilesLocked
      <4>4. j \in 1 .. Len(locks'[p]) /\ locks'[p][j].txn = u
        BY <1>12, <4>3 DEF NodesStay
      <4>5. QED
        BY <4>1, <4>2, <4>4
    <3>3. QED
      BY <3>1, <3>2
  <2>2. QED
    BY <1>9, <2>1 DEF FilesLocked, Places
<1>20. WritesLocked'
  <2>1. ASSUME NEW u \in Threads, call[u].kind = "write", call[u].handle # 0,
               call[u].handle \notin wild
        PROVE  /\ phase[u] = "run" /\ owner'[call[u].handle] = u
               /\ \E j \in 1 .. Len(locks'[mine'[call[u].handle]]) :
                    /\ locks'[mine'[call[u].handle]][j].txn = u
                    /\ locks'[mine'[call[u].handle]][j].held = 1
    <3>1. PICK h \in Slots : h = call[u].handle
      BY GoodOwners
    <3>2. /\ phase[u] = "run" /\ owner[h] = u
          /\ \E j \in Places(mine[h]) : locks[mine[h]][j].txn = u /\ locks[mine[h]][j].held = 1
      BY <1>1, <2>1, <3>1 DEF Server, WritesLocked
    <3>3. h # new
      BY <1>14, <3>2, NoThreadAssumption
    <3>4. owner'[h] = u /\ mine'[h] = mine[h]
      BY <1>6, <1>15, <3>2, <3>3
    <3>5. PICK p \in Files : p = mine[h]
      BY <3>2, NoThreadAssumption, GoodOwners
    <3>6. PICK j \in Places(p) : locks[p][j].txn = u /\ locks[p][j].held = 1
      BY <3>2, <3>5
    <3>7. j \in 1 .. Len(locks'[p]) /\ locks'[p][j].txn = u /\ locks'[p][j].held = 1
      BY <1>12, <3>6 DEF NodesStay
    <3>8. QED
      BY <3>1, <3>2, <3>4, <3>5, <3>7
  <2>2. QED
    BY <1>5, <1>9, <2>1 DEF WritesLocked, Places
<1>21. QED
  BY <1>3, <1>11, <1>16, <1>17, <1>18, <1>19, <1>20 DEF Server

\* The release of a lock node closes the handle of its transaction, or leaves
\* the handle 0 of a commit open, and unlocks the file (release_locks_on_success,
\* release_locks_on_abort).
LEMMA ReleaseServes ==
  ASSUME Good, NEW t \in Threads, NEW o \in Files, NEW k \in 1 .. MaxNodes,
         Release(t, o, k), ~foul'
  PROVE  Tables' /\ Holders' /\ Server'
<1>1. /\ Typed /\ ServerTypeOK /\ NoneVoid /\ IInv /\ ~broken /\ Server
      /\ Tables /\ Holders
  BY GoodTables DEF Good
<1>2. PICK h : h = locks[o][k].fd
  OBVIOUS
<1>3. /\ phase[t] \in {"commit", "abort"}
      /\ k \in Places(o) /\ locks[o][k].txn = t
      /\ \/ Closes(t, h) /\ Closed(t, h)
         \/ /\ HandlesLeft
            /\ ~ Closes(t, h) \/ h \notin Slots \/ HandleToObject(h) = NoObject
      /\ locks' = [locks EXCEPT ![o] = RemoveAt(@, k)]
      /\ UNCHANGED <<device, call, broken, phase, wild>>
  BY <1>2, ReleaseCloses
<1>4. NodeGone(o, k)
  BY <1>1, <1>3, NodeReleased
<1>5. /\ \A p \in Files : \A j \in 1 .. Len(locks'[p]) :
           \E i \in Places(p) : (p # o \/ i # k) /\ locks'[p][j] = locks[p][i]
      /\ \A p \in Files : \A i \in Places(p) : p # o \/ i # k =>
           \E j \in 1 .. Len(locks'[p]) : locks'[p][j] = locks[p][i]
      /\ \A p \in Files : \A i, j \in 1 .. Len(locks'[p]) : i # j =>
           \E a, b \in Places(p) : /\ a # b /\ (p # o \/ a # k) /\ (p # o \/ b # k)
                                   /\ locks'[p][i] = locks[p][a] /\ locks'[p][j] = locks[p][b]
  <2>1. ASSUME NEW p \in Files
        PROVE  /\ \A j \in 1 .. Len(locks'[p]) :
                    \E i \in Places(p) : (p # o \/ i # k) /\ locks'[p][j] = locks[p][i]
               /\ \A i \in Places(p) : p # o \/ i # k =>
                    \E j \in 1 .. Len(locks'[p]) : locks'[p][j] = locks[p][i]
               /\ \A i, j \in 1 .. Len(locks'[p]) : i # j =>
                    \E a, b \in Places(p) :
                      /\ a # b /\ (p # o \/ a # k) /\ (p # o \/ b # k)
                      /\ locks'[p][i] = locks[p][a] /\ locks'[p][j] = locks[p][b]
    <3>1. CASE p = o
      <4>1. /\ \A j \in 1 .. Len(locks'[o]) :
                 \E i \in Places(o) : i # k /\ locks'[o][j] = locks[o][i]
            /\ \A i \in Places(o) : i # k =>
                 \E j \in 1 .. Len(locks'[o]) : locks'[o][j] = locks[o][i]
        BY <1>4 DEF NodeGone
      <4>2. /\ \A j \in 1 .. Len(locks'[o]) :
                 \E i \in Places(o) : (p # o \/ i # k) /\ locks'[o][j] = locks[o][i]
            /\ \A i \in Places(o) : p # o \/ i # k =>
                 \E j \in 1 .. Len(locks'[o]) : locks'[o][j] = locks[o][i]
        BY <3>1, <4>1
      <4>3. ASSUME NEW i \in 1 .. Len(locks'[o]), NEW j \in 1 .. Len(locks'[o]), i # j
            PROVE  \E a, b \in Places(o) :
                     /\ a # b /\ (p # o \/ a # k) /\ (p # o \/ b # k)
                     /\ locks'[o][i] = locks[o][a] /\ locks'[o][j] = locks[o][b]
        <5>1. \E a, b \in Places(o) : a # b /\ a # k /\ b # k
                                      /\ locks'[o][i] = locks[o][a] /\ locks'[o][j] = locks[o][b]
          BY <1>4, <4>3 DEF NodeGone
        <5>2. QED
          BY <5>1
      <4>4. QED
        BY <3>1, <4>2, <4>3
    <3>2. CASE p # o
      <4>1. locks'[p] = locks[p]
        BY <1>4, <3>2 DEF NodeGone
      <4>2. QED
        BY <3>2, <4>1 DEF Places
    <3>3. QED
      BY <3>1, <3>2
  <2>2. QED
    BY <2>1
<1>6. ASSUME NEW p \in Files, NEW i \in Places(p), locks[p][i].txn # t
      PROVE  \E j \in 1 .. Len(locks'[p]) : locks'[p][j] = locks[p][i]
  BY <1>3, <1>5, <1>6
<1>7. LocksExclude'
  <2>1. ASSUME NEW p \in Files, NEW j \in 1 .. Len(locks'[p]), locks'[p][j].held = 1
        PROVE  Len(locks'[p]) = 1
    <3>1. PICK i \in Places(p) : (p # o \/ i # k) /\ locks'[p][j] = locks[p][i]
      BY <1>5
    <3>2. Len(locks[p]) = 1
      BY <1>1, <2>1, <3>1 DEF Server, LocksExclude
    <3>3. p # o
      BY <1>3, <3>1, <3>2 DEF Places
    <3>4. QED
      BY <1>4, <3>2, <3>3 DEF NodeGone
  <2>2. QED
    BY <2>1 DEF LocksExclude, Places
<1>8. ASSUME NEW u \in Threads, call[u].kind = "write", call[u].handle # 0,
             call[u].handle \notin wild
      PROVE  /\ phase[u] = "run" /\ owner[call[u].handle] = u /\ u # t
             /\ mine[call[u].handle] \in Files
             /\ \E j \in 1 .. Len(locks'[mine[call[u].handle]]) :
                  /\ locks'[mine[call[u].handle]][j].txn = u
                  /\ locks'[mine[call[u].handle]][j].held = 1
  <2>1. PICK g \in Slots : g = call[u].handle
    BY GoodOwners
  <2>2. /\ phase[u] = "run" /\ owner[g] = u
        /\ \E j \in Places(mine[g]) : locks[mine[g]][j].txn = u /\ locks[mine[g]][j].held = 1
    BY <1>1, <1>8, <2>1 DEF Server, WritesLocked
  <2>3. u # t
    BY <1>3, <2>2
  <2>4. PICK p \in Files : p = mine[g]
    BY <2>2, NoThreadAssumption, GoodOwners
  <2>5. PICK i \in Places(p) : locks[p][i].txn = u /\ locks[p][i].held = 1
    BY <2>2, <2>4
  <2>6. PICK j \in 1 .. Len(locks'[p]) : locks'[p][j] = locks[p][i]
    BY <1>6, <2>3, <2>5
  <2>7. QED
    BY <2>1, <2>2, <2>3, <2>4, <2>5, <2>6
<1>9. ASSUME NEW g \in Slots, owner[g] # NoThread, phase[owner[g]] = "run"
      PROVE  owner[g] # t /\ \E j \in 1 .. Len(locks'[mine[g]]) : locks'[mine[g]][j].txn = owner[g]
  <2>1. PICK u \in Threads, p \in Files : u = owner[g] /\ p = mine[g]
    BY <1>9, GoodOwners
  <2>2. u # t
    BY <1>3, <1>9, <2>1
  <2>3. PICK i \in Places(p) : locks[p][i].txn = u
    BY <1>1, <1>9, <2>1 DEF Server, FilesLocked
  <2>4. PICK j \in 1 .. Len(locks'[p]) : locks'[p][j] = locks[p][i]
    BY <1>6, <2>2, <2>3
  <2>5. QED
    BY <2>1, <2>2, <2>3, <2>4
<1>10. CASE Closes(t, h) /\ Closed(t, h)
  <2>1. /\ h \in Slots /\ owner[h] = t /\ t # NoThread
        /\ PutHandle(h) /\ HandleToObject(h) # NoObject
        /\ mine' = [mine EXCEPT ![h] = NoObject]
        /\ owner' = [owner EXCEPT ![h] = NoThread]
        /\ lost' = lost \ {h}
    BY <1>1, <1>10, NoThreadAssumption DEF Closed, ServerTypeOK
  <2>2. mine[h] # NoObject /\ HandleUsed(h)
    <3>1. mine[h] # NoObject
      BY <2>1, GoodOwners
    <3>2. QED
      BY <1>1, <2>1, <3>1, HolderCounts DEF Typed, Holders
  <2>3. Close(h)
    BY <1>3, <2>1, <2>2 DEF Close
  <2>4. Tables' /\ Holders'
    BY <1>1, <2>1, <2>3, CloseAgrees
  <2>5. /\ mine'[h] = NoObject /\ owner'[h] = NoThread
        /\ \A g \in Slots \ {h} : mine'[g] = mine[g] /\ owner'[g] = owner[g]
    BY <1>1, <2>1 DEF Typed, TypeOK, ServerTypeOK
  <2>6. OwnedOpen'
    BY <1>1, <2>5 DEF Server, OwnedOpen
  <2>7. Recorded'
    <3>1. ASSUME NEW g \in Slots, owner'[g] # NoThread
          PROVE  \/ g \in lost'
                 \/ \E j \in 1 .. Len(locks'[mine'[g]]) :
                      locks'[mine'[g]][j].txn = owner'[g] /\ locks'[mine'[g]][j].fd = g
                 \/ g = 0 /\ phase[owner'[g]] \in {"commit", "done"}
      <4>1. g # h /\ owner'[g] = owner[g] /\ mine'[g] = mine[g]
        BY <2>5, <3>1
      <4>2. PICK u \in Threads, p \in Files : u = owner[g] /\ p = mine[g]
        BY <3>1, <4>1, GoodOwners
      <4>3. \/ g \in lost
            \/ \E j \in Places(p) : locks[p][j].txn = u /\ locks[p][j].fd = g
            \/ g = 0 /\ phase[u] \in {"commit", "done"}
        BY <1>1, <3>1, <4>1, <4>2 DEF Server, Recorded
      <4>4. ASSUME NEW i \in Places(p), locks[p][i].txn = u, locks[p][i].fd = g
            PROVE  \E j \in 1 .. Len(locks'[p]) : locks'[p][j].txn = u /\ locks'[p][j].fd = g
        <5>1. p # o \/ i # k
          BY <1>2, <4>1, <4>4
        <5>2. PICK j \in 1 .. Len(locks'[p]) : locks'[p][j] = locks[p][i]
          BY <1>5, <5>1
        <5>3. QED
          BY <4>4, <5>2
      <4>5. QED
        BY <2>1, <4>1, <4>2, <4>3, <4>4
    <3>2. QED
      BY <1>3, <3>1 DEF Recorded, Places
  <2>8. NodesLead'
    <3>1. ASSUME NEW p \in Files, NEW i \in Places(p), p # o \/ i # k,
                 locks[p][i].fd > 0, locks[p][i].fd \notin wild
          PROVE  /\ owner'[locks[p][i].fd] = locks[p][i].txn /\ mine'[locks[p][i].fd] = p
                 /\ \A l \in Places(p) : locks[p][l].fd = locks[p][i].fd => l = i
      <4>1. /\ owner[locks[p][i].fd] = locks[p][i].txn /\ mine[locks[p][i].fd] = p
            /\ \A l \in Places(p) : locks[p][l].fd = locks[p][i].fd => l = i
        BY <1>1, <3>1 DEF Server, NodesLead
      <4>2. locks[p][i].fd # h
        <5>1. CASE locks[p][i].fd = h
          <6>1. mine[h] = o
            BY <1>1, <1>2, <1>3, <3>1, <5>1 DEF Server, NodesLead
          <6>2. p = o
            BY <4>1, <5>1, <6>1
          <6>3. QED
            BY <1>2, <1>3, <3>1, <4>1, <5>1, <6>2
        <5>2. QED
          BY <5>1
      <4>3. locks[p][i].fd \in Slots
        BY <3>1, GoodOwners
      <4>4. QED
        BY <2>5, <4>1, <4>2, <4>3
    <3>2. ASSUME NEW p \in Files, NEW j \in 1 .. Len(locks'[p]),
                 locks'[p][j].fd > 0, locks'[p][j].fd \notin wild
          PROVE  /\ owner'[locks'[p][j].fd] = locks'[p][j].txn /\ mine'[locks'[p][j].fd] = p
                 /\ \A l \in 1 .. Len(locks'[p]) : locks'[p][l].fd = locks'[p][j].fd => l = j
      <4>1. PICK i \in Places(p) : (p # o \/ i # k) /\ locks'[p][j] = locks[p][i]
        BY <1>5
      <4>2. /\ owner'[locks[p][i].fd] = locks[p][i].txn /\ mine'[locks[p][i].fd] = p
        BY <3>1, <3>2, <4>1
      <4>3. ASSUME NEW l \in 1 .. Len(locks'[p]), locks'[p][l].fd = locks'[p][j].fd, l # j
            PROVE  FALSE
        <5>1. PICK a \in Places(p), b \in Places(p) :
                /\ a # b /\ (p # o \/ a # k) /\ (p # o \/ b # k)
                /\ locks'[p][l] = locks[p][a] /\ locks'[p][j] = locks[p][b]
          BY <1>5, <4>3
        <5>2. locks[p][a].fd = locks[p][b].fd /\ locks[p][b].fd > 0 /\ locks[p][b].fd \notin wild
          BY <3>2, <4>3, <5>1
        <5>3. QED
          BY <3>1, <5>1, <5>2
      <4>4. QED
        BY <4>1, <4>2, <4>3
    <3>3. QED
      BY <1>3, <3>2 DEF NodesLead, Places
  <2>9. FilesLocked'
    <3>1. ASSUME NEW g \in Slots, owner'[g] # NoThread, phase[owner'[g]] = "run"
          PROVE  \E j \in 1 .. Len(locks'[mine'[g]]) : locks'[mine'[g]][j].txn = owner'[g]
      <4>1. owner'[g] = owner[g] /\ mine'[g] = mine[g]
        BY <2>5, <3>1
      <4>2. QED
        BY <1>9, <3>1, <4>1
    <3>2. QED
      BY <1>3, <3>1 DEF FilesLocked, Places
  <2>10. WritesLocked'
    <3>1. ASSUME NEW u \in Threads, call[u].kind = "write", call[u].handle # 0,
                 call[u].handle \notin wild
          PROVE  /\ owner'[call[u].handle] = u
                 /\ mine'[call[u].handle] = mine[call[u].handle]
      <4>1. owner[call[u].handle] = u /\ u # t
        BY <1>8, <3>1
      <4>2. call[u].handle \in Slots /\ call[u].handle # h
        BY <2>1, <4>1, GoodOwners
      <4>3. QED
        BY <2>5, <4>1, <4>2
    <3>2. QED
      BY <1>3, <1>8, <3>1 DEF WritesLocked, Places
  <2>11. QED
    BY <1>7, <2>4, <2>6, <2>7, <2>8, <2>9, <2>10 DEF Server
<1>11. CASE HandlesLeft /\ (~ Closes(t, h) \/ h \notin Slots \/ HandleToObject(h) = NoObject)
  <2>1. UNCHANGED <<handle, fd, inode, object, call, mine, owner, lost, phase, wild>>
    BY <1>3, <1>11 DEF HandlesLeft
  <2>2. Tables' /\ Holders'
    BY <1>1, <2>1, NothingChanges
  <2>3. OwnedOpen'
    BY <1>1, <2>1 DEF Server, OwnedOpen
  <2>4. NodesLead'
    <3>1. ASSUME NEW p \in Files, NEW j \in 1 .. Len(locks'[p]),
                 locks'[p][j].fd > 0, locks'[p][j].fd \notin wild
          PROVE  /\ owner[locks'[p][j].fd] = locks'[p][j].txn /\ mine[locks'[p][j].fd] = p
                 /\ \A l \in 1 .. Len(locks'[p]) : locks'[p][l].fd = locks'[p][j].fd => l = j
      <4>1. PICK i \in Places(p) : locks'[p][j] = locks[p][i]
        BY <1>5
      <4>2. owner[locks[p][i].fd] = locks[p][i].txn /\ mine[locks[p][i].fd] = p
        BY <1>1, <3>1, <4>1 DEF Server, NodesLead
      <4>3. ASSUME NEW l \in 1 .. Len(locks'[p]), locks'[p][l].fd = locks'[p][j].fd, l # j
            PROVE  FALSE
        <5>1. PICK a \in Places(p), b \in Places(p) :
                a # b /\ locks'[p][l] = locks[p][a] /\ locks'[p][j] = locks[p][b]
          BY <1>5, <4>3
        <5>2. locks[p][a].fd = locks[p][b].fd /\ locks[p][b].fd > 0 /\ locks[p][b].fd \notin wild
          BY <3>1, <4>3, <5>1
        <5>3. QED
          BY <1>1, <5>1, <5>2 DEF Server, NodesLead
      <4>4. QED
        BY <4>1, <4>2, <4>3
    <3>2. QED
      BY <2>1, <3>1 DEF NodesLead, Places
  <2>5. h \in Slots /\ HandleToObject(h) # NoObject => h = 0 /\ phase[t] = "commit"
    BY <1>3, <1>11, NHandlesAssumption DEF Closes, Slots
  <2>6. Recorded'
    <3>1. ASSUME NEW g \in Slots, owner[g] # NoThread
          PROVE  \/ g \in lost
                 \/ \E j \in 1 .. Len(locks'[mine[g]]) :
                      locks'[mine[g]][j].txn = owner[g] /\ locks'[mine[g]][j].fd = g
                 \/ g = 0 /\ phase[owner[g]] \in {"commit", "done"}
      <4>1. PICK u \in Threads, p \in Files : u = owner[g] /\ p = mine[g]
        BY <3>1, GoodOwners
      <4>2. \/ g \in lost
            \/ \E i \in Places(p) : locks[p][i].txn = u /\ locks[p][i].fd = g
            \/ g = 0 /\ phase[u] \in {"commit", "done"}
        BY <1>1, <3>1, <4>1 DEF Server, Recorded
      <4>3. ASSUME NEW i \in Places(p), locks[p][i].txn = u, locks[p][i].fd = g
            PROVE  \/ \E j \in 1 .. Len(locks'[p]) : locks'[p][j].txn = u /\ locks'[p][j].fd = g
                   \/ g = 0 /\ phase[u] \in {"commit", "done"}
        <5>1. CASE p = o /\ i = k
          <6>1. g = h /\ u = t
            BY <1>2, <1>3, <4>3, <5>1
          <6>2. HandleToObject(g) # NoObject
            <7>1. mine[g] # NoObject
              BY <3>1, GoodOwners
            <7>2. QED
              BY <1>1, <7>1 DEF Holders, MineLead
          <6>3. QED
            BY <2>5, <6>1, <6>2
        <5>2. CASE p # o \/ i # k
          <6>1. PICK j \in 1 .. Len(locks'[p]) : locks'[p][j] = locks[p][i]
            BY <1>5, <5>2
          <6>2. QED
            BY <4>3, <6>1
        <5>3. QED
          BY <5>1, <5>2
      <4>4. QED
        BY <4>1, <4>2, <4>3
    <3>2. QED
      BY <2>1, <3>1 DEF Recorded, Places
  <2>7. FilesLocked'
    BY <1>9, <2>1 DEF FilesLocked, Places
  <2>8. WritesLocked'
    BY <1>8, <2>1 DEF WritesLocked, Places
  <2>9. QED
    BY <1>7, <2>2, <2>3, <2>4, <2>6, <2>7, <2>8 DEF Server
<1>12. QED
  BY <1>3, <1>10, <1>11

-----------------------------------------------------------------------------
(* The beginning. *)

\* What is open when the first transaction runs, if anything: the journal.
LEMMA JournalAgrees ==
  ASSUME JournalOpen, Journal # NoObject
  PROVE  IInv /\ \A t \in Threads : call[t] = Idle
<1>1. Journal \in Objects /\ 0 \in Slots /\ RW \in OpenModes
  BY JournalAssumption, NHandlesAssumption, JournalModeAssumption DEF Slots
<1>2. /\ handle = [h \in Slots |-> IF h = 0 THEN [fdId |-> 0, useCount |-> 1] ELSE FreeHandle]
      /\ fd = [f \in Slots |-> IF f = 0 THEN [handleCount |-> 1, inodeId |-> 0, mode |-> RW]
                               ELSE FreeFd]
      /\ inode = [i \in Slots |-> IF i = 0 THEN [count |-> 1, iObj |-> Journal] ELSE FreeInode]
      /\ object = [o \in Objects |->
                     [place |-> "linked", my_inode |-> IF o = Journal THEN 0 ELSE -1]]
      /\ device = [is_mounted |-> TRUE, read_only |-> FALSE]
      /\ call = [t \in Threads |-> Idle]
      /\ mine = [h \in Slots |-> IF h = 0 THEN Journal ELSE NoObject]
      /\ broken = FALSE
  BY DEF JournalOpen
<1>3. Typed
  <2>1. Idle \in [kind : {"none", "read", "write"}, handle : Slots, fdId : Slots,
                  left : 0 .. MaxChunks, void : BOOLEAN]
    BY <1>1, MaxChunksAssumption DEF Idle
  <2>2. /\ handle \in [Slots -> [fdId : -1 .. YAFFSFS_N_HANDLES - 1, useCount : Nat]]
        /\ fd \in [Slots -> [handleCount : Nat, inodeId : -1 .. YAFFSFS_N_HANDLES - 1,
                             mode : OpenModes \cup {NoMode}]]
        /\ inode \in [Slots -> [count : Nat, iObj : Objects \cup {NoObject}]]
    BY <1>1, <1>2, NHandlesAssumption DEF FreeHandle, FreeFd, FreeInode
  <2>3. object \in [Objects -> [place : {"absent", "linked", "unlinked"},
                                my_inode : -1 .. YAFFSFS_N_HANDLES - 1]]
    BY <1>2, NHandlesAssumption
  <2>4. call \in [Threads -> [kind : {"none", "read", "write"}, handle : Slots, fdId : Slots,
                              left : 0 .. MaxChunks, void : BOOLEAN]]
    BY <1>2, <2>1
  <2>5. HandlesLead
    BY <1>1, <1>2 DEF HandlesLead, HandleUsed, FreeHandle
  <2>6. QED
    BY <1>1, <1>2, <2>2, <2>3, <2>4, <2>5 DEF Typed, TypeOK
<1>4. \A k \in Slots :
        /\ Users(k) = IF k = 0 THEN {0} ELSE {}
        /\ Openings(k) = IF k = 0 THEN {0} ELSE {}
        /\ TransfersOn(k) = {}
  BY <1>1, <1>2 DEF Users, Openings, TransfersOn, FreeHandle, FreeFd
<1>5. \A k \in Slots :
        /\ Cardinality(Users(k)) = IF k = 0 THEN 1 ELSE 0
        /\ Cardinality(Openings(k)) = IF k = 0 THEN 1 ELSE 0
        /\ Cardinality(TransfersOn(k)) = 0
  BY <1>4, FS_EmptySet, FS_Singleton
<1>6. FdsLead
  BY <1>1, <1>2, <1>5 DEF FdsLead, FdUsed, FreeFd
<1>7. InodesLead
  BY <1>1, <1>2, <1>5, NoObjectAssumption DEF InodesLead, FreeInode
<1>8. ObjectsHooked
  BY <1>1, <1>2, NoObjectAssumption, NHandlesAssumption DEF ObjectsHooked, FreeInode, Slots
<1>9. ModesFit
  BY <1>2 DEF ModesFit, FdUsed, FreeFd
<1>10. HandlesHeld
  BY <1>1, <1>2, <1>5, NoObjectAssumption DEF HandlesHeld, FreeHandle
<1>11. MineLead
  <2>1. HandleToObject(0) = Journal
    BY <1>1, <1>2 DEF HandleToObject, HandleToInode, HandleToFileDes
  <2>2. QED
    BY <1>2, <2>1 DEF MineLead
<1>12. CallsLead
  BY <1>2 DEF CallsLead
<1>13. QED
  BY <1>2, <1>3, <1>6, <1>7, <1>8, <1>9, <1>10, <1>11, <1>12 DEF IInv, Tables, Holders

\* The server starts with empty tables, no transaction and, at most, its journal.
LEMMA ServerInitGood == ServerInit => SInv
<1> SUFFICES ASSUME ServerInit PROVE SInv
  OBVIOUS
<1>1. IInv /\ ~broken /\ \A t \in Threads : call[t] = Idle
  <2>1. CASE Journal = NoObject
    <3>1. Init
      BY <2>1 DEF ServerInit
    <3>2. QED
      BY <3>1, InitAgrees DEF Init
  <2>2. CASE Journal # NoObject
    <3>1. JournalOpen
      BY <2>2 DEF ServerInit
    <3>2. QED
      BY <2>2, <3>1, JournalAgrees DEF JournalOpen
  <2>3. QED
    BY <2>1, <2>2
<1>2. /\ locks = [o \in Files |-> <<>>]
      /\ phase = [t \in Threads |-> "run"]
      /\ owner = [h \in Slots |-> NoThread]
      /\ lost = {} /\ wild = {} /\ foul = FALSE
  BY DEF ServerInit
<1>3. locks \in [Files -> Seq(NodeType)]
  BY <1>2
<1>4. ServerTypeOK
  BY <1>2, <1>3 DEF ServerTypeOK, NodeType
<1>5. NoneVoid
  BY <1>1 DEF NoneVoid, Idle
<1>6. \A o \in Files : Places(o) = {}
  BY <1>2 DEF Places
<1>7. NodesLead /\ LocksExclude
  BY <1>6 DEF NodesLead, LocksExclude
<1>8. OwnedOpen /\ Recorded /\ FilesLocked
  BY <1>2 DEF OwnedOpen, Recorded, FilesLocked
<1>9. WritesLocked
  BY <1>1 DEF WritesLocked, Idle
<1>10. QED
  BY <1>1, <1>4, <1>5, <1>7, <1>8, <1>9 DEF SInv, IInv, Server

-----------------------------------------------------------------------------
(* The theorems. *)

\* Only the release of a lock node closes a handle.
LEMMA FoulRelease ==
  ASSUME ServerTypeOK, [ServerNext]_<<vars, serverVars>>, foul' # foul
  PROVE  \E t \in Threads, o \in Files, k \in 1 .. MaxNodes : Release(t, o, k)
<1>1. ASSUME NEW t \in Threads, NEW o \in Files, NEW k \in 1 .. MaxNodes, OnlyLocks(t, o, k)
      PROVE  foul' = foul
  BY <1>1, OnlyLocksLocks DEF Locks
<1>2. ASSUME NEW t \in Threads, NEW o \in Files, NEW m \in OpenModes, NEW k \in 1 .. MaxNodes,
             on_open(t, o, m, k)
      PROVE  foul' = foul
  BY <1>2 DEF on_open
<1>3. ASSUME NEW t \in Threads, Transfer(t) \/ PhaseStep(t)
      PROVE  foul' = foul
  BY <1>3 DEF Transfer, PhaseStep, Ended, on_txn_end, serverVars
<1>4. UNCHANGED <<vars, serverVars>> => foul' = foul
  BY DEF serverVars
<1>5. QED
  BY <1>1, <1>2, <1>3, <1>4 DEF ServerNext, AllDone, OnlyLocks, PhaseStep

\* Every step of the server keeps the invariant, until one closes a handle of
\* somebody else.
LEMMA ServerStepGood == SInv /\ [ServerNext]_<<vars, serverVars>> => SInv'
<1> SUFFICES ASSUME SInv, [ServerNext]_<<vars, serverVars>> PROVE SInv'
  OBVIOUS
<1>1. Typed' /\ ServerTypeOK' /\ NoneVoid'
  BY TypesKept DEF SInv
<1>2. ASSUME ~foul'
      PROVE  Tables' /\ Holders' /\ Server'
  <2>1. ~foul
    <3>1. ASSUME NEW t \in Threads, NEW o \in Files, NEW k \in 1 .. MaxNodes, Release(t, o, k)
          PROVE  foul => foul'
      BY <3>1, ReleaseCloses DEF Closed, HandlesLeft
    <3>2. QED
      BY <1>2, <3>1, FoulRelease DEF SInv
  <2>2. Good
    BY <2>1 DEF SInv, Good
  <2>3. ASSUME UNCHANGED vars
        PROVE  Tables' /\ Holders'
    <3>1. UNCHANGED <<handle, fd, inode, object, call, mine>>
      BY <2>3 DEF vars
    <3>2. QED
      BY <2>2, <3>1, NothingChanges DEF Good
  <2>4. ASSUME NEW t \in Threads, NEW o \in Files, NEW m \in OpenModes, NEW k \in 1 .. MaxNodes,
               on_open(t, o, m, k)
        PROVE  Tables' /\ Holders' /\ Server'
    BY <2>2, <2>4, OnOpenServes
  <2>5. ASSUME NEW t \in Threads, NEW o \in Files, NEW k \in 1 .. MaxNodes, OnlyLocks(t, o, k)
        PROVE  Tables' /\ Holders' /\ Server'
    <3>1. PICK mode \in {0, 1}, new \in -1 .. YAFFSFS_N_HANDLES - 1 : Locks(t, o, mode, k, new)
      BY <2>2, <2>5, OnlyLocksLocks DEF Good
    <3>2. QED
      BY <2>2, <3>1, LocksServe
  <2>6. ASSUME NEW t \in Threads, NEW o \in Files, NEW k \in 1 .. MaxNodes, Release(t, o, k)
        PROVE  Tables' /\ Holders' /\ Server'
    BY <1>2, <2>2, <2>6, ReleaseServes
  <2>7. ASSUME NEW t \in Threads, Transfer(t)
        PROVE  Tables' /\ Holders' /\ Server'
    BY <2>2, <2>7, TransferServes
  <2>8. ASSUME NEW t \in Threads, PhaseStep(t)
        PROVE  Tables' /\ Holders' /\ Server'
    <3>1. UNCHANGED vars
      BY <2>2, <2>8, PhaseTyped DEF Good
    <3>2. QED
      BY <2>2, <2>3, <2>8, <3>1, PhaseServes
  <2>9. ASSUME UNCHANGED <<vars, serverVars>>
        PROVE  Tables' /\ Holders' /\ Server'
    <3>1. UNCHANGED vars /\ UNCHANGED serverVars
      BY <2>9
    <3>2. UNCHANGED <<mine, call, locks, phase, owner, lost, wild>>
      BY <3>1 DEF vars, serverVars
    <3>3. Server'
      BY <2>2, <3>2 DEF Good, Server, OwnedOpen, Recorded, NodesLead, LocksExclude,
                        FilesLocked, WritesLocked, Places
    <3>4. QED
      BY <2>3, <3>1, <3>3
  <2>10. QED
    BY <2>4, <2>5, <2>6, <2>7, <2>8, <2>9 DEF ServerNext, AllDone, PhaseStep, OnlyLocks
<1>3. QED
  BY <1>1, <1>2 DEF SInv

\* The handles and the nodes of the server agree as long as every thread closed
\* its own.
LEMMA SInvHolds == ServerSpec => []SInv
BY ServerInitGood, ServerStepGood, PTL DEF ServerSpec

\* Every handle a transaction opened comes back: it is in a lock node for the
\* release to find, was overwritten there, or is the handle 0 that a commit
\* does not close (on_open, on_stat, on_unlink, on_rename,
\* release_locks_on_success, release_locks_on_abort).
THEOREM HandlesComeBack == ServerSpec => []HandlesReturned
<1>1. SInv => HandlesReturned
  <2> SUFFICES ASSUME SInv PROVE HandlesReturned
    OBVIOUS
  <2>1. ASSUME ~foul, NEW h \in Slots, owner[h] # NoThread
        PROVE  /\ mine[h] # NoObject /\ HandleToObject(h) = mine[h]
               /\ \/ h \in lost
                  \/ NodeWith(owner[h], mine[h], h)
                  \/ h = 0 /\ phase[owner[h]] \in {"commit", "done"}
    <3>1. mine[h] # NoObject /\ HandleToObject(h) = mine[h]
      BY <2>1, NoObjectAssumption DEF SInv, Server, OwnedOpen, Files, Holders, MineLead
    <3>2. QED
      BY <2>1, <3>1 DEF SInv, Server, Recorded, NodeWith, Places
  <2>2. QED
    BY <2>1 DEF SInv, HandlesReturned
<1>2. QED
  BY <1>1, SInvHolds, PTL

\* While a transaction writes to a file with a number that an open gave it, no
\* other running transaction has a handle on that file, although a transaction
\* may open a file for writing under the shared lock it already has
\* (insert_file_list, write_possible).
THEOREM WriterIsAlone == ServerSpec => []WriterAlone
<1>1. SInv => WriterAlone
  <2> SUFFICES ASSUME SInv, ~foul, NEW t \in Threads, NEW u \in Threads, t # u,
                      call[t].kind = "write", call[t].handle # 0, call[t].handle \notin wild,
                      phase[u] = "run",
                      NEW j \in Slots, owner[j] = u, mine[j] = mine[call[t].handle]
               PROVE  FALSE
    BY DEF WriterAlone
  <2>1. Good
    BY DEF SInv, Good
  <2>2. u # NoThread /\ t # NoThread
    BY NoThreadAssumption
  <2>3. PICK h \in Slots : h = call[t].handle
    BY <2>1, GoodOwners
  <2>4. PICK o \in Files : o = mine[j] /\ o = mine[h]
    BY <2>1, <2>2, <2>3, GoodOwners
  <2>5. PICK k \in Places(o) : locks[o][k].txn = t /\ locks[o][k].held = 1
    BY <2>3, <2>4 DEF SInv, Server, WritesLocked
  <2>6. Len(locks[o]) = 1
    BY <2>5 DEF SInv, Server, LocksExclude
  <2>7. PICK i \in Places(o) : locks[o][i].txn = u
    BY <2>2, <2>4 DEF SInv, Server, FilesLocked
  <2>8. i = k
    BY <2>6 DEF Places
  <2>9. QED
    BY <2>5, <2>7, <2>8
<1>2. QED
  BY <1>1, SInvHolds, PTL

\* Only an abort that releases a file it had just locked, and the release of a
\* number that an open without a branch recorded, close a handle of somebody
\* else (fd >= 0 in release_locks_on_abort, fd = 0 in on_stat, on_creat,
\* on_unlink and on_rename, the uninitialised fd of on_open).
THEOREM ForeignCloses == ServerSpec => NoOtherForeignClose
<1> DEFINE Known ==
      foul' /\ ~foul =>
        \E t \in Threads, o \in Files, k \in 1 .. MaxNodes :
          /\ k <= Len(locks[o]) /\ locks[o][k].txn = t
          /\ \/ phase[t] = "abort" /\ locks[o][k].fd = 0
             \/ phase[t] \in {"commit", "abort"} /\ locks[o][k].fd \in wild
          /\ mine'[locks[o][k].fd] = NoObject
<1>1. SInv /\ [ServerNext]_<<vars, serverVars>> => [Known]_<<vars, serverVars>>
  <2> SUFFICES ASSUME SInv, [ServerNext]_<<vars, serverVars>>, foul', ~foul
               PROVE  \E t \in Threads, o \in Files, k \in 1 .. MaxNodes :
                        /\ k <= Len(locks[o]) /\ locks[o][k].txn = t
                        /\ \/ phase[t] = "abort" /\ locks[o][k].fd = 0
                           \/ phase[t] \in {"commit", "abort"} /\ locks[o][k].fd \in wild
                        /\ mine'[locks[o][k].fd] = NoObject
    OBVIOUS
  <2>1. PICK t \in Threads, o \in Files, k \in 1 .. MaxNodes : Release(t, o, k)
    BY FoulRelease DEF SInv
  <2>2. PICK h : h = locks[o][k].fd
    OBVIOUS
  <2>3. /\ phase[t] \in {"commit", "abort"} /\ Closes(t, h) /\ Closed(t, h)
        /\ k \in Places(o) /\ locks[o][k].txn = t
    BY <2>1, <2>2, ReleaseCloses DEF HandlesLeft
  <2>4. h \in Slots /\ owner[h] # t /\ mine' = [mine EXCEPT ![h] = NoObject]
    BY <2>3 DEF Closed
  <2>5. h = 0 \/ h \in wild
    <3>1. ~ (h > 0) \/ h \in wild
      BY <2>2, <2>3, <2>4 DEF SInv, Server, NodesLead
    <3>2. QED
      BY <2>4, <3>1, NHandlesAssumption DEF Slots
  <2>6. h = 0 => phase[t] = "abort"
    BY <2>3 DEF Closes
  <2>7. mine'[h] = NoObject
    BY <2>4 DEF SInv, Typed, TypeOK
  <2>8. k <= Len(locks[o])
    BY <2>3 DEF Places
  <2>9. QED
    BY <2>2, <2>3, <2>5, <2>6, <2>7, <2>8
<1>2. QED
  BY <1>1, SInvHolds, PTL DEF ServerSpec, NoOtherForeignClose
=============================================================================
