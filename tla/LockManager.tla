---------------------------- MODULE LockManager ----------------------------
(***************************************************************************)
(* The transactional lock manager of TxFS (server/Lock_manager1.c,         *)
(* Lock_manager2.c, Wait_list_manager.c, MS_manager.c, Txn_manager.c), as  *)
(* it is driven by the handlers of TxFS_manager.c and by the online backup *)
(* of backup_manager.c.                                                    *)
(*                                                                         *)
(* One server thread executes one transaction; the backup is transaction 0.*)
(* Everything between pthread_mutex_lock(&file_mutex) and the matching     *)
(* unlock, or the wait on a condition variable in between, is one step.    *)
(* A handler that needs several locks keeps file_mutex from one request to *)
(* the next, which the variable mutex records.                             *)
(***************************************************************************)
EXTENDS Integers, Sequences, FiniteSets

CONSTANTS
    UserTxns,    \* transaction ids the clients send (unique in the traces)
    Files,       \* inode numbers
    Calls,       \* the locking system calls clients may issue, see Call below
    ReadBits,    \* values the uninitialised read_bit of insert_file_list takes
    BackupWalk,  \* inodes in the order online_bck visits them
    PauseLimit,  \* the 5 of "pause_times>5" in MS_manager.c
    MaxCalls,    \* bound: locking calls per transaction
    Spurious     \* whether pthread_cond_wait may return without a broadcast

Backup == 0
NoTxn == -1

\* file_mode and wait_mode of the code: 0 shared, 1 exclusive, -1 neither.
Unlocked == -1
Shared == 0
Exclusive == 1

Txns == UserTxns \cup {Backup}
Request == [inode : Files, mode : {Shared, Exclusive}]
Call == [reqs : Seq(Request), fallible : BOOLEAN]

\* No handler asks for a file again after it asked for it in shared mode.
SharedOnce(reqs) ==
    \A i, j \in 1..Len(reqs) :
        i < j /\ reqs[i].mode = Shared => reqs[i].inode # reqs[j].inode

ASSUME ConstantsAssumption ==
    /\ UserTxns \subseteq Nat \ {0}
    /\ Files \subseteq Nat
    /\ \A c \in Calls : c \in Call /\ c.reqs # <<>> /\ SharedOnce(c.reqs)
    /\ ReadBits \subseteq Int /\ 0 \in ReadBits
    /\ BackupWalk \in Seq(Files)
    /\ PauseLimit \in Nat
    /\ MaxCalls \in Nat
    /\ Spurious \in BOOLEAN

(***************************************************************************)
(* The lock requests of the system calls.  open asks for a shared lock for *)
(* O_RDONLY (flags 0) and an exclusive one otherwise, and is the only call *)
(* that can still fail, and abort, after it got its lock.  rename of a     *)
(* directory ends with lock_subtree, which asks for the old parent again:  *)
(* dirname() has cut the path it is given.                                 *)
(***************************************************************************)
Want(f, mode) == [inode |-> f, mode |-> mode]

ModeOf(flags) == IF flags = 0 THEN Shared ELSE Exclusive

open(f, flags) == [reqs |-> <<Want(f, ModeOf(flags))>>, fallible |-> TRUE]

stat(f) == [reqs |-> <<Want(f, Shared)>>, fallible |-> FALSE]

creat(parent) == [reqs |-> <<Want(parent, Exclusive)>>, fallible |-> FALSE]

unlink(parent, child) ==
    [reqs |-> <<Want(parent, Exclusive), Want(child, Exclusive)>>,
     fallible |-> FALSE]

rename(old, new, mov, isDir) ==
    [reqs |-> <<Want(old, Exclusive)>>
              \o (IF new # old THEN <<Want(new, Exclusive)>> ELSE <<>>)
              \o <<Want(mov, Exclusive)>>
              \o (IF isDir THEN <<Want(old, Shared)>> ELSE <<>>),
     fallible |-> FALSE]

-----------------------------------------------------------------------------
VARIABLES
    lockList,     \* head_lock_list: per inode, its nodes in list order (owners)
    held,         \* file_mode of the live node of a transaction on an inode
    psr,          \* prev_shared_rec of that node: the owner of the node meant
    nsr,          \* next_shared_rec of that node
    in_wait,      \* in_wait of the inode's wait node, 0 when there is none
    pc,           \* where the thread of a transaction is
    todo,         \* requests its current call has not been granted yet
    fallible,     \* its current call may fail after the last lock
    calls,        \* locking calls it has issued so far
    mutex,        \* who keeps file_mutex between two requests of one call
    before_after, \* before_after of the transaction's node
    pause_times,  \* its pause_times in pause_array, 0 when it has no entry
    walk,         \* inodes the backup has still to lock, or to release
    heap          \* history: "sound", "dangling" once a live node points to a
                  \* freed one, "used" once such a pointer was dereferenced

lockVars == <<lockList, held, psr, nsr, heap>>
msVars == <<before_after, pause_times>>
vars == <<lockList, held, psr, nsr, in_wait, pc, todo, fallible, calls, mutex,
          before_after, pause_times, walk, heap>>

PC == {"idle", "run", "call", "wait", "woken", "paused", "commit", "abort",
       "ending", "done"}

TypeOK ==
    /\ lockList \in [Files -> Seq(Txns)]
    /\ held \in [Txns -> [Files -> {Unlocked, Shared, Exclusive}]]
    /\ psr \in [Txns -> [Files -> Txns \cup {NoTxn}]]
    /\ nsr \in [Txns -> [Files -> Txns \cup {NoTxn}]]
    /\ in_wait \in [Files -> Int]
    /\ pc \in [Txns -> PC]
    /\ todo \in [Txns -> Seq(Request)]
    /\ fallible \in [Txns -> BOOLEAN]
    /\ calls \in [Txns -> Nat]
    /\ mutex \in Txns \cup {NoTxn}
    /\ before_after \in [Txns -> ReadBits]
    /\ pause_times \in [Txns -> 0..PauseLimit + 1]
    /\ walk \in Seq(Files)
    /\ heap \in {"sound", "dangling", "used"}

Init ==
    /\ lockList = [f \in Files |-> <<>>]
    /\ held = [t \in Txns |-> [f \in Files |-> Unlocked]]
    /\ psr = [t \in Txns |-> [f \in Files |-> NoTxn]]
    /\ nsr = [t \in Txns |-> [f \in Files |-> NoTxn]]
    /\ in_wait = [f \in Files |-> 0]
    /\ pc = [t \in Txns |-> "idle"]
    /\ todo = [t \in Txns |-> <<>>]
    /\ fallible = [t \in Txns |-> FALSE]
    /\ calls = [t \in Txns |-> 0]
    /\ mutex = NoTxn
    /\ before_after = [t \in Txns |-> 0]
    /\ pause_times = [t \in Txns |-> 0]
    /\ walk = BackupWalk
    /\ heap = "sound"

-----------------------------------------------------------------------------
(***************************************************************************)
(* Reading the state.                                                      *)
(***************************************************************************)
Live(t, f) == t # NoTxn /\ held[t][f] # Unlocked

\* file_rec_no of the transaction's node is not NULL.
HasFiles(t) == \E f \in Files : held[t][f] # Unlocked

Holders(f) == {t \in Txns : held[t][f] # Unlocked}

BackupActive == pc[Backup] \notin {"idle", "done"}

WaitingOn(f) ==
    {t \in Txns : pc[t] \in {"wait", "woken"} /\ Head(todo[t]).inode = f}

(***************************************************************************)
(* search_file_list: the loop starts at the second node, so when the inode *)
(* is the one at the head of the sorted list and has a second node, loc is *)
(* that second node; else it is the inode's first node.                    *)
(***************************************************************************)
LocIndex(f) ==
    IF /\ \A g \in Files : g < f => lockList[g] = <<>>
       /\ Len(lockList[f]) > 1
    THEN 2 ELSE 1

Loc(f) == lockList[f][LocIndex(f)]

InsertAfter(s, k, e) ==
    [i \in 1..Len(s) + 1 |-> IF i <= k THEN s[i]
                             ELSE IF i = k + 1 THEN e ELSE s[i - 1]]

\* delete_file_list: t's node leaves the list (an orphan was never in it).
Without(s, e) ==
    IF \E i \in 1..Len(s) : s[i] = e
    THEN LET k == CHOOSE i \in 1..Len(s) : s[i] = e
         IN  [i \in 1..Len(s) - 1 |-> IF i < k THEN s[i] ELSE s[i + 1]]
    ELSE s

-----------------------------------------------------------------------------
(***************************************************************************)
(* mutually_serializable.  rb is the read bit of the file, compared with   *)
(* the bit of the files the transaction already has.                       *)
(***************************************************************************)
Serializable(t, rb) == HasFiles(t) => rb = before_after[t]

\* Seeded fault: one pause too many.
PauseAgainOnceMore(t, rb) ==
    /\ ~Serializable(t, rb)
    /\ rb = 0 /\ before_after[t] = 1
    /\ pause_times[t] <= PauseLimit + 1

PauseAgain(t, rb) ==
    /\ ~Serializable(t, rb)
    /\ rb = 0 /\ before_after[t] = 1
    /\ pause_times[t] <= PauseLimit

MustAbort(t, rb) == ~Serializable(t, rb) /\ ~PauseAgain(t, rb)

\* insert_same_txn_list on the first file, and the reset of pause_array.
TakeReadBit(t, rb, checked) ==
    /\ before_after' = [before_after EXCEPT ![t] = IF HasFiles(t) THEN @ ELSE rb]
    /\ pause_times' = [pause_times EXCEPT ![t] =
                           IF checked /\ HasFiles(t) THEN 0 ELSE @]

-----------------------------------------------------------------------------
(***************************************************************************)
(* Transactions begin and issue calls.  A trace never asks again for a     *)
(* file its transaction holds in shared mode (Lock_manager1.c:282 relies   *)
(* on it).                                                                 *)
(***************************************************************************)
on_txn_beg(t) ==
    /\ t # Backup
    /\ pc[t] = "idle"
    /\ pc' = [pc EXCEPT ![t] = "run"]
    /\ UNCHANGED <<lockVars, msVars, in_wait, todo, fallible, calls, mutex, walk>>

TraceDiscipline(t, c) ==
    \A i \in 1..Len(c.reqs) : held[t][c.reqs[i].inode] # Shared

StartCall(t) ==
    /\ t # Backup
    /\ pc[t] = "run"
    /\ calls[t] < MaxCalls
    /\ \E c \in Calls :
          /\ TraceDiscipline(t, c)
          /\ todo' = [todo EXCEPT ![t] = c.reqs]
          /\ fallible' = [fallible EXCEPT ![t] = c.fallible]
    /\ pc' = [pc EXCEPT ![t] = "call"]
    /\ calls' = [calls EXCEPT ![t] = @ + 1]
    /\ UNCHANGED <<lockVars, msVars, in_wait, mutex, walk>>

\* log_txn_commit has been called: from here on the transaction commits.
on_txn_commit(t) ==
    /\ t # Backup
    /\ pc[t] = "run"
    /\ pc' = [pc EXCEPT ![t] = "commit"]
    /\ UNCHANGED <<lockVars, msVars, in_wait, todo, fallible, calls, mutex, walk>>

\* The client aborts, or a handler does as the file of its call is missing.
on_txn_abort(t) ==
    /\ t # Backup
    /\ pc[t] = "run"
    /\ pc' = [pc EXCEPT ![t] = "abort"]
    /\ UNCHANGED <<lockVars, msVars, in_wait, todo, fallible, calls, mutex, walk>>

-----------------------------------------------------------------------------
(***************************************************************************)
(* search_file_list followed by insert_file_list, for the first request of *)
(* todo[t]: the thread comes from a handler, or from resume.  It ends in   *)
(* one of Own, GrantFresh, GrantShared, Block, MSPause and MSAbort.        *)
(***************************************************************************)
Req(t) == Head(todo[t])

EntersInsert(t) == pc[t] = "call" /\ mutex \in {NoTxn, t}

OwnedBy(t) == lockList[Req(t).inode] # <<>> /\ Loc(Req(t).inode) = t

\* The backup is among the sharers met by following next_shared_rec from loc.
BackupShares(f) ==
    \E k \in LocIndex(f)..Len(lockList[f]) : lockList[f][k] = Backup

\* Granted without waiting: nobody has the file, or readers share it and, if
\* someone waits for it, the backup is one of the readers.
Fresh(t) == lockList[Req(t).inode] = <<>>

\* Seeded fault: the requested mode is not looked at.
SharableAnyMode(t) ==
    LET f == Req(t).inode
    IN  /\ lockList[f] # <<>>
        /\ Loc(f) # t
        /\ held[Loc(f)][f] = Shared
        /\ in_wait[f] = 0 \/ BackupShares(f)

\* Seeded fault: readers do not look at the wait list.
SharablePastWaiters(t) ==
    LET f == Req(t).inode
    IN  /\ lockList[f] # <<>>
        /\ Loc(f) # t
        /\ held[Loc(f)][f] = Shared
        /\ Req(t).mode = Shared

Sharable(t) ==
    LET f == Req(t).inode
    IN  /\ lockList[f] # <<>>
        /\ Loc(f) # t
        /\ held[Loc(f)][f] = Shared
        /\ Req(t).mode = Shared
        /\ in_wait[f] = 0 \/ BackupShares(f)

\* The check against the backup is skipped for the backup itself and, on a
\* file nobody has, while no backup runs.
MSChecked(t) == t # Backup /\ (Fresh(t) => BackupActive)

(***************************************************************************)
(* insert_file_list returned a lock.  file_mutex is kept for the next      *)
(* request of the call and given up after the last one; an open whose      *)
(* tr_file_open_without_mode then fails goes on to on_txn_abort.           *)
(***************************************************************************)
Proceed(t) ==
    /\ todo' = [todo EXCEPT ![t] = Tail(@)]
    /\ \/ /\ Len(todo[t]) > 1
          /\ mutex' = t
          /\ pc' = pc
       \/ /\ Len(todo[t]) = 1
          /\ mutex' = NoTxn
          /\ \/ pc' = [pc EXCEPT ![t] = "run"]
             \/ fallible[t] /\ pc' = [pc EXCEPT ![t] = "abort"]
    /\ UNCHANGED <<in_wait, fallible, calls, walk>>

Own(t) ==
    /\ EntersInsert(t)
    /\ OwnedBy(t)
    /\ Proceed(t)
    /\ UNCHANGED <<lockVars, msVars>>

GrantFresh(t) ==
    LET f == Req(t).inode
    IN  /\ EntersInsert(t)
        /\ Fresh(t)
        /\ \E rb \in ReadBits :
              /\ MSChecked(t) => Serializable(t, rb)
              /\ TakeReadBit(t, rb, MSChecked(t))
        /\ lockList' = [lockList EXCEPT ![f] = <<t>>]
        /\ held' = [held EXCEPT ![t][f] = Req(t).mode]
        /\ psr' = [psr EXCEPT ![t][f] = NoTxn]
        /\ nsr' = [nsr EXCEPT ![t][f] = NoTxn]
        /\ heap' = heap
        /\ Proceed(t)

(***************************************************************************)
(* The new node goes behind the last node p reached from loc over          *)
(* next_shared_rec.  If p's pointer is to a freed node the walk reads and  *)
(* links freed memory: the new node is on no list (the usual outcome,      *)
(* free_file_node cleared the pointers of the freed node) or, when the     *)
(* chunk serves as the file's last node again, behind that one.            *)
(***************************************************************************)
ChainEnd(f, k) ==
    /\ k \in LocIndex(f)..Len(lockList[f])
    /\ \A j \in LocIndex(f)..k - 1 : Live(nsr[lockList[f][j]][f], f)
    /\ ~Live(nsr[lockList[f][k]][f], f)

\* Seeded fault: prev_shared_rec of the new node is not set.
LinkSharedOneWay(t, f, k) ==
    LET p == lockList[f][k]
    IN  /\ nsr[p][f] = NoTxn
        /\ lockList' = [lockList EXCEPT ![f] = InsertAfter(@, k, t)]
        /\ nsr' = [nsr EXCEPT ![p][f] = t, ![t][f] = NoTxn]
        /\ psr' = [psr EXCEPT ![t][f] = NoTxn]
        /\ heap' = heap

LinkShared(t, f, k) ==
    LET p == lockList[f][k]
    IN  \/ /\ nsr[p][f] = NoTxn
           /\ lockList' = [lockList EXCEPT ![f] = InsertAfter(@, k, t)]
           /\ nsr' = [nsr EXCEPT ![p][f] = t, ![t][f] = NoTxn]
           /\ psr' = [psr EXCEPT ![t][f] = p]
           /\ heap' = heap
        \/ /\ nsr[p][f] # NoTxn
           /\ \/ lockList' = lockList
              \/ lockList' = [lockList EXCEPT ![f] = InsertAfter(@, Len(@), t)]
           /\ nsr' = [nsr EXCEPT ![t][f] = NoTxn]
           /\ psr' = [psr EXCEPT ![t][f] = nsr[p][f]]
           /\ heap' = "used"

GrantShared(t) ==
    LET f == Req(t).inode
    IN  /\ EntersInsert(t)
        /\ Sharable(t)
        /\ \E rb \in ReadBits :
              /\ MSChecked(t) => Serializable(t, rb)
              /\ TakeReadBit(t, rb, MSChecked(t))
        /\ \E k \in 1..Len(lockList[f]) : ChainEnd(f, k) /\ LinkShared(t, f, k)
        /\ held' = [held EXCEPT ![t][f] = Req(t).mode]
        /\ Proceed(t)

\* insert_wait_list or update_wait_list, down to pthread_cond_wait.
Block(t) ==
    /\ EntersInsert(t)
    /\ ~Fresh(t) /\ ~OwnedBy(t) /\ ~Sharable(t)
    /\ in_wait' = [in_wait EXCEPT ![Req(t).inode] = @ + 1]
    /\ pc' = [pc EXCEPT ![t] = "wait"]
    /\ mutex' = NoTxn
    /\ UNCHANGED <<lockVars, msVars, todo, fallible, calls, walk>>

\* Seeded fault: pauses are not counted.
MSPauseUncounted(t) ==
    /\ EntersInsert(t)
    /\ Fresh(t) \/ Sharable(t)
    /\ MSChecked(t)
    /\ \E rb \in ReadBits : PauseAgain(t, rb)
    /\ pc' = [pc EXCEPT ![t] = "paused"]
    /\ mutex' = NoTxn
    /\ UNCHANGED <<lockVars, msVars, in_wait, todo, fallible, calls, walk>>

MSPause(t) ==
    /\ EntersInsert(t)
    /\ Fresh(t) \/ Sharable(t)
    /\ MSChecked(t)
    /\ \E rb \in ReadBits : PauseAgain(t, rb)
    /\ pause_times' = [pause_times EXCEPT ![t] = @ + 1]
    /\ pc' = [pc EXCEPT ![t] = "paused"]
    /\ mutex' = NoTxn
    /\ UNCHANGED <<lockVars, before_after, in_wait, todo, fallible, calls, walk>>

\* Seeded fault: the transaction is ended without releasing its locks.
MSAbortKeepsLocks(t) ==
    /\ EntersInsert(t)
    /\ Fresh(t) \/ Sharable(t)
    /\ MSChecked(t)
    /\ \E rb \in ReadBits : MustAbort(t, rb)
    /\ pc' = [pc EXCEPT ![t] = "ending"]
    /\ todo' = [todo EXCEPT ![t] = <<>>]
    /\ mutex' = NoTxn
    /\ UNCHANGED <<lockVars, msVars, in_wait, fallible, calls, walk>>

MSAbort(t) ==
    /\ EntersInsert(t)
    /\ Fresh(t) \/ Sharable(t)
    /\ MSChecked(t)
    /\ \E rb \in ReadBits : MustAbort(t, rb)
    /\ pc' = [pc EXCEPT ![t] = "abort"]
    /\ todo' = [todo EXCEPT ![t] = <<>>]
    /\ mutex' = NoTxn
    /\ UNCHANGED <<lockVars, msVars, in_wait, fallible, calls, walk>>

\* sleep(2) is over; resume is next.
PauseEnds(t) ==
    /\ pc[t] = "paused"
    /\ pc' = [pc EXCEPT ![t] = "call"]
    /\ UNCHANGED <<lockVars, msVars, in_wait, todo, fallible, calls, mutex, walk>>

\* pthread_cond_wait may return without a broadcast.
SpuriousWake(t) ==
    /\ Spurious
    /\ pc[t] = "wait"
    /\ pc' = [pc EXCEPT ![t] = "woken"]
    /\ UNCHANGED <<lockVars, msVars, in_wait, todo, fallible, calls, mutex, walk>>

\* Seeded fault: the count of the wait node is not decremented.
WakeUpUncounted(t) ==
    /\ pc[t] = "woken"
    /\ mutex = NoTxn
    /\ pc' = [pc EXCEPT ![t] = "call"]
    /\ UNCHANGED <<lockVars, msVars, in_wait, todo, fallible, calls, mutex, walk>>

\* A woken thread has file_mutex again: update_wait_list_on_wake, unlock.
WakeUp(t) ==
    /\ pc[t] = "woken"
    /\ mutex = NoTxn
    /\ in_wait' = [in_wait EXCEPT ![Req(t).inode] = @ - 1]
    /\ pc' = [pc EXCEPT ![t] = "call"]
    /\ UNCHANGED <<lockVars, msVars, todo, fallible, calls, mutex, walk>>

-----------------------------------------------------------------------------
(***************************************************************************)
(* Releasing the nodes of t on the files F, which                          *)
(* release_locks_on_success, release_locks_on_abort and                    *)
(* release_locks_by_backup all do alike.                                   *)
(***************************************************************************)
HasWaiters(f) == in_wait[f] > 0

OnlySharer(t, f) == psr[t][f] = NoTxn /\ nsr[t][f] = NoTxn

\* The neighbours in the chain are only told when someone waits for the file.
Relinks(t, f) == HasWaiters(f) /\ held[t][f] = Shared /\ ~OnlySharer(t, f)

\* Seeded fault: the last reader does not wake the writers.
WakesOnlyExclusive(t, f) == HasWaiters(f) /\ held[t][f] = Exclusive

Wakes(t, f) == HasWaiters(f) /\ (held[t][f] = Exclusive \/ OnlySharer(t, f))

UsesFreed(t, f) ==
    /\ Relinks(t, f)
    /\ \E n \in {psr[t][f], nsr[t][f]} : n # NoTxn /\ ~Live(n, f)

LeavesDangling(t, f) ==
    /\ ~Relinks(t, f)
    /\ \E u \in Txns \ {t} : Live(u, f) /\ t \in {psr[u][f], nsr[u][f]}

ReleaseNodes(t, F) ==
    /\ lockList' = [f \in Files |-> IF f \in F THEN Without(lockList[f], t)
                                    ELSE lockList[f]]
    /\ held' = [held EXCEPT ![t] = [f \in Files |-> IF f \in F THEN Unlocked
                                                    ELSE @[f]]]
    /\ nsr' = [u \in Txns |-> [f \in Files |->
                 IF f \in F /\ u = t THEN NoTxn
                 ELSE IF f \in F /\ Relinks(t, f) /\ u = psr[t][f] THEN nsr[t][f]
                 ELSE nsr[u][f]]]
    /\ psr' = [u \in Txns |-> [f \in Files |->
                 IF f \in F /\ u = t THEN NoTxn
                 ELSE IF f \in F /\ Relinks(t, f) /\ u = nsr[t][f] THEN psr[t][f]
                 ELSE psr[u][f]]]
    /\ heap' = IF heap = "used" \/ \E f \in F : UsesFreed(t, f) THEN "used"
               ELSE IF \E f \in F : LeavesDangling(t, f) THEN "dangling"
               ELSE heap

\* Where the threads are after the broadcasts of that release.
AfterWakes(t, F, next) ==
    [u \in Txns |-> IF u = t THEN next
                    ELSE IF pc[u] = "wait" /\ Req(u).inode \in F
                            /\ Wakes(t, Req(u).inode)
                    THEN "woken" ELSE pc[u]]

\* Seeded fault: the transaction goes on after giving its locks back.
ReleaseAllTooEarly(t) ==
    LET F == {f \in Files : held[t][f] # Unlocked}
    IN  /\ mutex = NoTxn
        /\ ReleaseNodes(t, F)
        /\ pc' = AfterWakes(t, F, "run")
        /\ UNCHANGED <<msVars, in_wait, todo, fallible, calls, mutex, walk>>

ReleaseAll(t) ==
    LET F == {f \in Files : held[t][f] # Unlocked}
    IN  /\ mutex = NoTxn
        /\ ReleaseNodes(t, F)
        /\ pc' = AfterWakes(t, F, "ending")
        /\ UNCHANGED <<msVars, in_wait, todo, fallible, calls, mutex, walk>>

release_locks_on_success(t) == pc[t] = "commit" /\ ReleaseAll(t)

release_locks_on_abort(t) == pc[t] = "abort" /\ ReleaseAll(t)

txn_delete(t) ==
    /\ pc[t] = "ending"
    /\ pc' = [pc EXCEPT ![t] = "done"]
    /\ UNCHANGED <<lockVars, msVars, in_wait, todo, fallible, calls, mutex, walk>>

-----------------------------------------------------------------------------
(***************************************************************************)
(* The online backup: per inode of its walk it locks exclusively, copies,  *)
(* marks and releases.                                                     *)
(***************************************************************************)
on_bck_beg ==
    /\ pc[Backup] = "idle"
    /\ pc' = [pc EXCEPT ![Backup] = "run"]
    /\ UNCHANGED <<lockVars, msVars, in_wait, todo, fallible, calls, mutex, walk>>

lock_file ==
    /\ pc[Backup] = "run"
    /\ walk # <<>>
    /\ held[Backup][Head(walk)] = Unlocked
    /\ pc' = [pc EXCEPT ![Backup] = "call"]
    /\ todo' = [todo EXCEPT ![Backup] = <<Want(Head(walk), Exclusive)>>]
    /\ UNCHANGED <<lockVars, msVars, in_wait, fallible, calls, mutex, walk>>

release_locks_by_backup ==
    /\ pc[Backup] = "run"
    /\ walk # <<>>
    /\ held[Backup][Head(walk)] # Unlocked
    /\ mutex = NoTxn
    /\ ReleaseNodes(Backup, {Head(walk)})
    /\ pc' = AfterWakes(Backup, {Head(walk)}, "run")
    /\ walk' = Tail(walk)
    /\ UNCHANGED <<msVars, in_wait, todo, fallible, calls, mutex>>

EndBackup ==
    /\ pc[Backup] = "run"
    /\ walk = <<>>
    /\ pc' = [pc EXCEPT ![Backup] = "done"]
    /\ UNCHANGED <<lockVars, msVars, in_wait, todo, fallible, calls, mutex, walk>>

-----------------------------------------------------------------------------
InsertFileList(t) ==
    Own(t) \/ GrantFresh(t) \/ GrantShared(t) \/ Block(t) \/ MSPause(t) \/ MSAbort(t)

ReleaseStep(t) == release_locks_on_success(t) \/ release_locks_on_abort(t) \/ txn_delete(t)

\* What the thread of t does by itself, once its client asked for it.
Thread(t) == InsertFileList(t) \/ PauseEnds(t) \/ WakeUp(t) \/ ReleaseStep(t)

\* What the client of t decides.
Client(t) == on_txn_beg(t) \/ StartCall(t) \/ on_txn_commit(t) \/ on_txn_abort(t)

BackupThread == on_bck_beg \/ lock_file \/ release_locks_by_backup \/ EndBackup

\* All transactions and the backup are over.
Finished == (\A t \in Txns : pc[t] = "done") /\ UNCHANGED vars

Next ==
    \/ \E t \in Txns : Thread(t) \/ Client(t) \/ SpuriousWake(t)
    \/ BackupThread
    \/ Finished

Spec == Init /\ [][Next]_vars

\* Threads that can run do, a begun transaction's client goes on to its end,
\* and the backup goes on once begun.
Fairness ==
    /\ \A t \in Txns : WF_vars(Thread(t)) /\ WF_vars(Client(t) /\ pc[t] # "idle")
    /\ WF_vars(BackupThread /\ pc[Backup] # "idle")

FairSpec == Spec /\ Fairness

-----------------------------------------------------------------------------
(***************************************************************************)
(* What the lock manager promises.  A shared node released while nobody    *)
(* waits leaves its neighbours pointing to freed memory (heap leaves       *)
(* "sound"), and a later walk may use it (heap is "used"); the promises    *)
(* name how far they reach.                                                *)
(***************************************************************************)

\* get_file_node: "0=shared,1=exclusive".  A transaction with an exclusive
\* lock on a file is the only one with any lock on it.
ExclusiveAlone ==
    \A f \in Files : \A t, u \in Txns :
        t # u /\ held[t][f] = Exclusive => held[u][f] = Unlocked

\* Locks exclude each other as long as insert_file_list and the releases have
\* not followed a pointer to a freed node.
Exclusion == heap # "used" => ExclusiveAlone

\* insert_wait_list: a thread is blocked "till the transaction owning the file
\* releases the file and updates the condition variable": while one sleeps on
\* a file, another transaction has that file and is there to wake it.
BlockedTillRelease ==
    \A t \in Txns : pc[t] = "wait" => Holders(Req(t).inode) \ {t} # {}

\* No wake-up is lost while no shared node points to a freed one.
NoLostWakeup == heap = "sound" => BlockedTillRelease

\* The wait node of a file counts exactly the threads blocked on it or woken
\* and not yet running, so update_wait_list_on_wake frees it when the last
\* one left it and never before.
WaitCount == \A f \in Files : in_wait[f] = Cardinality(WaitingOn(f))

\* prev_shared_rec and next_shared_rec lead through the sharers of a file in
\* the order of the lock list; once a release left a pointer to a freed node,
\* such a pointer is the only exception.
SharedChain ==
    heap # "used" => \A f \in Files : \A k \in 1..Len(lockList[f]) :
        LET t == lockList[f][k]
            prev == IF k = 1 THEN NoTxn ELSE lockList[f][k - 1]
            next == IF k = Len(lockList[f]) THEN NoTxn ELSE lockList[f][k + 1]
            Freed(n) == heap = "dangling" /\ n # NoTxn /\ ~Live(n, f)
        IN  /\ psr[t][f] = prev \/ Freed(psr[t][f])
            /\ nsr[t][f] = next \/ Freed(nsr[t][f])

\* A transaction whose release loop has run, or that never began, is the owner
\* of no node of the lock list: nothing is left behind to block others.
NothingLeftBehind ==
    \A t \in Txns : pc[t] \in {"idle", "ending", "done"} =>
        \A f \in Files :
            /\ held[t][f] = Unlocked
            /\ \A i \in 1..Len(lockList[f]) : lockList[f][i] # t

\* my_header.h:38: with a writer asleep on a file no further reader is let in.
NoReaderPastSleepingWriter ==
    [][heap = "sound" => \A t \in Txns, f \in Files :
          held[t][f] = Unlocked /\ held'[t][f] = Shared =>
              ~\E u \in Txns : /\ pc[u] = "wait"
                               /\ Req(u) = Want(f, Exclusive)]_vars

\* Every begun transaction comes to its end, as long as no sharer was released
\* behind the back of its neighbours.
EveryTxnEnds ==
    \A t \in Txns : pc[t] # "idle" ~> pc[t] = "done" \/ heap # "sound"

-----------------------------------------------------------------------------
(***************************************************************************)
(* Until memory is used after it was freed, the lock manager is the lock   *)
(* service of module LockService.                                          *)
(***************************************************************************)
Service == INSTANCE LockService WITH
    Users <- UserTxns, Single <- Backup, Objects <- Files,
    grant <- held,
    ended <- {t \in UserTxns : pc[t] \in {"ending", "done"}},
    broken <- (heap = "used")

\* The handlers of TxFS_manager.c with their interleavings, waits, pauses and
\* wake-ups grant and release locks as a strict two-phase lock service does.
ImplementsService == Service!ServiceSpec
=============================================================================
