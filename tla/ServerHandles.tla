--------------------------- MODULE ServerHandles ---------------------------
(***************************************************************************)
(* How the server uses the handles of HandleTables.  The lock list keeps   *)
(* the nodes of a file; a node has a file descriptor: the handle that an   *)
(* open recorded, -1 when nothing was (get_file_node), 0 when the file was *)
(* only locked.  When a transaction ends, its nodes are released one by    *)
(* one under file_mutex and their handles closed.                          *)
(*                                                                         *)
(* A file is the number it is locked by, and a transaction's request for   *)
(* one it already has returns the node as it is, whatever the mode.  What  *)
(* a handler does to its nodes is one step per lock; the waits and the     *)
(* order of the whole list are LockManager's.  The journal is the file     *)
(* that yaffs_mount2 opens before any transaction runs, if it opens one.   *)
(***************************************************************************)
EXTENDS HandleTables, Sequences, SequencesExt

CONSTANTS Journal,   \* the file opened at the mount, or NoObject
          NoThread,
          MaxNodes   \* bound on the lock nodes of a file

ASSUME JournalAssumption == Journal \in Objects \cup {NoObject}
ASSUME NoThreadAssumption == NoThread \notin Threads
ASSUME MaxNodesAssumption == MaxNodes \in Nat \ {0}

VARIABLES locks,  \* the lock nodes of a file, in the order of the lock list
          phase,  \* "run", "commit", "abort" or "done"
          owner,  \* who opened a handle that is open
          lost,   \* handles whose lock node was given another fd
          wild,   \* numbers that were recorded although nothing was opened
          foul    \* a transaction closed a handle it had not opened

serverVars == <<locks, phase, owner, lost, wild, foul>>

Files == Objects \ {Journal}
RW == [reading |-> TRUE, writing |-> TRUE, shareRead |-> TRUE, shareWrite |-> TRUE]

\* The mount opens the journal as a transaction may open a file.
ASSUME JournalModeAssumption == Journal # NoObject => RW \in OpenModes

\* What yaffs_mount2 has left behind: the journal, open with handle 0.
JournalOpen ==
    /\ handle = [h \in Slots |-> IF h = 0 THEN [fdId |-> 0, useCount |-> 1] ELSE FreeHandle]
    /\ fd = [f \in Slots |-> IF f = 0 THEN [handleCount |-> 1, inodeId |-> 0, mode |-> RW] ELSE FreeFd]
    /\ inode = [i \in Slots |-> IF i = 0 THEN [count |-> 1, iObj |-> Journal] ELSE FreeInode]
    /\ object = [o \in Objects |-> [place |-> "linked", my_inode |-> IF o = Journal THEN 0 ELSE -1]]
    /\ device = [is_mounted |-> TRUE, read_only |-> FALSE]
    /\ call = [t \in Threads |-> Idle]
    /\ mine = [h \in Slots |-> IF h = 0 THEN Journal ELSE NoObject]
    /\ broken = FALSE

ServerInit ==
    /\ IF Journal = NoObject THEN Init ELSE JournalOpen
    /\ locks = [o \in Files |-> <<>>]
    /\ phase = [t \in Threads |-> "run"]
    /\ owner = [h \in Slots |-> NoThread]
    /\ lost = {}
    /\ wild = {}
    /\ foul = FALSE

-----------------------------------------------------------------------------
(* Locks. *)

ModeOf(m) == IF m.writing THEN 1 ELSE 0

\* search_file_list: the first node of the file or, when the file heads the
\* whole list, the second.
Found(o) == {k \in {1, 2} : k <= Len(locks[o])}

\* insert_file_list returns the node k: the transaction's own that was found,
\* or a new one.  A handler that has to wait is not enabled.
Granted(t, o, mode, k) ==
    /\ phase[t] = "run" /\ call[t] = Idle
    /\ \A u \in Threads : phase[u] \notin {"commit", "abort"}   \* file_mutex
    /\ \/ k \in Found(o) /\ locks[o][k].txn = t
       \/ /\ k = Len(locks[o]) + 1 /\ k <= MaxNodes
          /\ \/ k = 1
             \/ mode = 0 /\ \E i \in Found(o) : locks[o][i].txn # t /\ locks[o][i].held = 0

FdOf(o, k) == IF k <= Len(locks[o]) THEN locks[o][k].fd ELSE -1

\* The node gets fd, and what it had is overwritten.  Its mode stays.
SetNode(t, o, mode, k, new) ==
    /\ locks' = [locks EXCEPT ![o] =
          IF k <= Len(@) THEN [@ EXCEPT ![k].fd = new]
          ELSE Append(@, [txn |-> t, held |-> mode, fd |-> new])]
    /\ lost' = lost \cup {h \in Slots \ {new} : h = FdOf(o, k) /\ owner[h] = t /\ mine[h] = o}

-----------------------------------------------------------------------------
(* The handlers. *)

\* Mutant: the handle is not written to the lock node.
on_open_unrecorded(t, o, m, k) ==
    /\ Granted(t, o, ModeOf(m), k)
    /\ object[o].place = "linked"
    /\ Open(o, m)
    /\ SetNode(t, o, ModeOf(m), k, FdOf(o, k))
    /\ owner' = [owner EXCEPT ![FirstFree(FreeHandles)] = t]
    /\ UNCHANGED <<phase, wild, foul>>

\* Without O_CREAT: the file is there.
on_open(t, o, m, k) ==
    /\ Granted(t, o, ModeOf(m), k)
    /\ object[o].place = "linked"
    /\ Open(o, m)
    /\ SetNode(t, o, ModeOf(m), k, FirstFree(FreeHandles))
    /\ owner' = [owner EXCEPT ![FirstFree(FreeHandles)] = t]
    /\ UNCHANGED <<phase, wild, foul>>

\* The open returned -1, for whatever reason: the transaction is aborted.
OpenFails(t, o, mode, k) ==
    /\ Granted(t, o, mode, k)
    /\ SetNode(t, o, mode, k, FdOf(o, k))
    /\ phase' = [phase EXCEPT ![t] = "abort"]
    /\ UNCHANGED <<vars, owner, wild, foul>>

\* Flags that on_open has no branch for: file_open_flags returns anything,
\* nothing is opened, and the number recorded was never written.
OpenOther(t, o, mode, k, any) ==
    /\ Granted(t, o, mode, k)
    /\ SetNode(t, o, mode, k, any)
    /\ wild' = wild \cup ({any} \cap Slots)
    /\ UNCHANGED <<vars, phase, owner, foul>>

\* Also the shared locks below a directory that is renamed.  A file that went
\* away while the lock was asked for leaves the node as it was.
on_stat(t, o, k) ==
    /\ Granted(t, o, 0, k)
    /\ \E new \in {0, FdOf(o, k)} : SetNode(t, o, 0, k, new)
    /\ UNCHANGED <<vars, phase, owner, wild, foul>>

\* A directory of on_rename: a node that was found where the search had
\* pointed keeps its fd, a new one or one found after a wait does not.
on_rename(t, o, k) ==
    /\ Granted(t, o, 1, k)
    /\ \E new \in {0} \cup (IF k <= Len(locks[o]) THEN {FdOf(o, k)} ELSE {}) :
          SetNode(t, o, 1, k, new)
    /\ UNCHANGED <<vars, phase, owner, wild, foul>>

\* The two files of on_unlink, the file that on_rename moves, and the directory
\* of a creat that makes nothing.
on_unlink(t, o, k) ==
    /\ Granted(t, o, 1, k)
    /\ SetNode(t, o, 1, k, 0)
    /\ UNCHANGED <<vars, phase, owner, wild, foul>>

\* The directory d is locked and the file made at once, if it can be.
on_creat(t, d, o, k) ==
    /\ Granted(t, d, 1, k)
    /\ SetNode(t, d, 1, k, 0)
    /\ object[o].place = "absent"
    /\ object' = [object EXCEPT ![o].place = "linked"]
    /\ UNCHANGED <<handle, fd, inode, device, call, mine, broken, phase, owner, wild, foul>>

\* Mutant: it is enough that a node has the handle.
write_possible_for_readers(h) ==
    \E o \in Files : \E k \in 1 .. Len(locks[o]) : locks[o][k].fd = h

\* Some node that has this number was not made by a reader.
write_possible(h) ==
    \E o \in Files : \E k \in 1 .. Len(locks[o]) : locks[o][k].fd = h /\ locks[o][k].held = 1

\* on_read and on_write with a number that an open has returned.
Transfer(t) ==
    /\ \/ \E h \in Slots, kind \in {"read", "write"} :
             /\ phase[t] = "run"
             /\ owner[h] = t \/ h \in wild
             /\ kind = "write" => write_possible(h)
             /\ Begin(t, h, kind, MaxChunks)
       \/ \E done \in BOOLEAN : Chunk(t, done)
       \/ End(t)
    /\ UNCHANGED serverVars

on_txn_end(t, how) ==
    /\ phase[t] = "run" /\ call[t] = Idle
    /\ \A u \in Threads : phase[u] \notin {"commit", "abort"}
    /\ phase' = [phase EXCEPT ![t] = how]
    /\ UNCHANGED <<vars, locks, owner, lost, wild, foul>>

-----------------------------------------------------------------------------
(* release_locks_on_success closes what is above 0, release_locks_on_abort  *)
(* what is not below 0.                                                     *)

\* Mutant: the commit goes by the test of the abort.
ClosesOnBoth(t, h) == h >= 0

Closes(t, h) == IF phase[t] = "commit" THEN h > 0 ELSE h >= 0

\* tr_yaffs_close and tr_yaffs_close_abort.
CloseFor(t, h) ==
    IF h \in Slots /\ HandleToObject(h) # NoObject
    THEN /\ PutHandle(h)
         /\ mine' = [mine EXCEPT ![h] = NoObject]
         /\ foul' = (foul \/ owner[h] # t)
         /\ owner' = [owner EXCEPT ![h] = NoThread]
         /\ lost' = lost \ {h}
    ELSE UNCHANGED <<handle, fd, inode, object, mine, owner, lost, foul>>

Release(t, o, k) ==
    /\ phase[t] \in {"commit", "abort"}
    /\ k <= Len(locks[o]) /\ locks[o][k].txn = t
    /\ IF Closes(t, locks[o][k].fd) THEN CloseFor(t, locks[o][k].fd)
       ELSE UNCHANGED <<handle, fd, inode, object, mine, owner, lost, foul>>
    /\ locks' = [locks EXCEPT ![o] = RemoveAt(@, k)]
    /\ UNCHANGED <<device, call, broken, phase, wild>>

Ended(t) ==
    /\ phase[t] \in {"commit", "abort"}
    /\ \A o \in Files : \A k \in 1 .. Len(locks[o]) : locks[o][k].txn # t
    /\ phase' = [phase EXCEPT ![t] = "done"]
    /\ UNCHANGED <<vars, locks, owner, lost, wild, foul>>

AllDone == (\A t \in Threads : phase[t] = "done") /\ UNCHANGED <<vars, serverVars>>

ServerNext ==
    \/ \E t \in Threads, o \in Files, k \in 1 .. MaxNodes :
         \/ \E m \in OpenModes : on_open(t, o, m, k)
         \/ \E mode \in {0, 1} :
              \/ OpenFails(t, o, mode, k)
              \/ \E any \in -1 .. YAFFSFS_N_HANDLES - 1 : OpenOther(t, o, mode, k, any)
         \/ on_stat(t, o, k) \/ on_rename(t, o, k) \/ on_unlink(t, o, k)
         \/ \E p \in Files : on_creat(t, o, p, k)
         \/ Release(t, o, k)
    \/ \E t \in Threads : Transfer(t) \/ Ended(t) \/ \E how \in {"commit", "abort"} : on_txn_end(t, how)
    \/ AllDone

ServerSpec == ServerInit /\ [][ServerNext]_<<vars, serverVars>>

-----------------------------------------------------------------------------
(* Properties. *)

\* The types of the variables that the server adds to the tables.
ServerTypeOK ==
    /\ locks \in [Files -> Seq([txn : Threads, held : {0, 1}, fd : -1 .. YAFFSFS_N_HANDLES - 1])]
    /\ phase \in [Threads -> {"run", "commit", "abort", "done"}]
    /\ owner \in [Slots -> Threads \cup {NoThread}]
    /\ lost \subseteq Slots
    /\ wild \subseteq Slots
    /\ foul \in BOOLEAN

\* A lock node of t on o has the number h.
NodeWith(t, o, h) == \E k \in 1 .. Len(locks[o]) : locks[o][k].txn = t /\ locks[o][k].fd = h

\* A handle that a transaction opened is in one of its lock nodes of the file,
\* so that the release finds it, or was overwritten there (on_stat, on_unlink
\* and on_rename write 0 over it); after the end only handle 0, which a commit
\* does not close, and overwritten handles are left open.
HandlesReturned ==
    ServerTypeOK /\ (~foul =>
      \A h \in Slots : owner[h] # NoThread =>
        /\ mine[h] # NoObject /\ HandleToObject(h) = mine[h]
        /\ \/ h \in lost
           \/ NodeWith(owner[h], mine[h], h)
           \/ h = 0 /\ phase[owner[h]] \in {"commit", "done"})

\* While a transaction writes to a file, no other running transaction has a
\* handle on it.  insert_file_list lets a reader open the file for writing
\* beside other readers, and only write_possible, which looks for the mode of
\* the node, keeps it from using that handle.  Not so for handle 0, which the
\* node of any file that was only locked has, and for a number that an open
\* without a branch recorded.
WriterAlone ==
    ~foul =>
      \A t, u \in Threads :
        LET h == call[t].handle
        IN  /\ t # u /\ call[t].kind = "write"
            /\ h # 0 /\ h \notin wild
            /\ phase[u] = "run"
            => \A j \in Slots : owner[j] = u => mine[j] # mine[h]

\* Nobody closes a handle of somebody else, but for two ways: an abort that
\* releases a file it had only locked closes handle 0 (fd >= 0 in
\* release_locks_on_abort, fd = 0 in on_stat, on_creat, on_unlink, on_rename),
\* and the node of an open without a branch closes whatever its number is.
NoOtherForeignClose ==
    [][foul' /\ ~foul =>
         \E t \in Threads, o \in Files, k \in 1 .. MaxNodes :
           /\ k <= Len(locks[o]) /\ locks[o][k].txn = t
           /\ \/ phase[t] = "abort" /\ locks[o][k].fd = 0
              \/ phase[t] \in {"commit", "abort"} /\ locks[o][k].fd \in wild
           /\ mine'[locks[o][k].fd] = NoObject]_<<vars, serverVars>>
=============================================================================
