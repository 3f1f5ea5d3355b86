# TxFS: a verification development

TxFS (`src/TxFS_Mam`) is a transactional file service. A multi-threaded server
executes the system calls of client transactions under strict two-phase locking
over inodes, logs updates and applies them when a transaction commits, and can
run an *online backup* that copies the file system while transactions go on. The
underlying file system is YAFFS through its direct interface.

## The system and its parts

| Part | Source (`server/` unless noted) | State | Operations |
|---|---|---|---|
| Lock manager | `Lock_manager1.c`, `Lock_manager2.c` | `head_lock_list`, a doubly linked list of lock nodes sorted by inode; each node is also on its transaction's list and on the chain `prev_shared_rec`/`next_shared_rec` of the sharers of its inode | `search_file_list`, `insert_file_list`, `delete_file_list`, `release_locks_on_success`, `release_locks_on_abort` |
| Wait list | `Wait_list_manager.c` | one wait node per inode with waiters: `in_wait`, a condition variable, the first writer | `insert_wait_list`, `update_wait_list`, `update_wait_list_on_wake`, `wake_up`, `resume` |
| Mutual serializability | `MS_manager.c` | `before_after` of a transaction, `pause_array[100]` | `mutually_serializable`, `pause_txn` |
| Transaction list | `Txn_manager.c` | `head_txn_list` | `txn_beg`, `txn_commit`, `txn_abort`, `txn_delete` |
| Handlers | `TxFS_manager.c` | none of their own; they hold `file_mutex` from the first lock request of a call to the last | `on_txn_beg`, `on_open`, `on_stat`, `on_creat`, `on_unlink`, `on_rename`, `on_txn_commit`, `on_txn_abort`, `lock_subtree` |
| Online backup | `backup_manager.c` | a stack of directories, the sticky bit of each inode as its read mark | `online_bck`, `lock_file`, `lock_directory`, `mark_as_read`, `release_locks_by_backup` |
| Event log and delayed updates | `Log_manager.c`, `Update_manager.c` | the stream `event_log` with its one position, `last_LRN` of each transaction; per file, `writes_at`, the updates not applied yet | `log_*`, `creat_log`, `rename_log`, `unlink_log`, `delayed_*` |
| Deadlock detector | `deadlock.c` | the wait-for graph, rebuilt every round | `construct_wait_for_graph`, `detect_cycles`, `deadlock_detection` |
| Request reader | `Reader.c` | a socket and a thread per connection | `global_init`, `handler`, `main` |
| Clients | `client/*.c` | one trace per process | `call_execute`, the trace loop of `transaction.c` |
| YAFFS interface | `yaffsfs.c`, `yaffcfg.c` | tables of handles, file descriptions and inodes; directory search contexts | `yaffs_open_sharing`, `yaffs_dup`, `yaffs_close`, `yaffsfs_do_read`/`_write`, `yaffs_mount2`, `yaffs_unmount2`, `yaffs_rename`, `yaffs_opendir`, `yaffs_readdir`, the `tr_*` functions of the server |

Handlers call the lock manager, which calls the wait list, the serializability
check and the transaction list. All of these structures are shared by the
threads of all transactions and by the backup. `file_mutex` guards
the lock list and the wait list, `txn_mutex` each walk of the transaction list,
`pause_mutex` the pause counts, and `log_mutex` the log calls.

### What is hard here

* A request blocks inside `insert_file_list` with `pthread_cond_wait`, after
  which the call starts over in `resume`: everything read before is stale.
* Handlers that need several locks keep `file_mutex` between the requests and
  give it up when one of them blocks or pauses, holding the locks they have.
* A transaction can be aborted in the middle of a call, by the serializability
  check or because `open` failed after its lock was granted.
* The shared chain is maintained by hand over memory that is freed, and only
  when somebody waits for the file.
* Wake-ups are broadcasts to whoever waits on the file, and the woken requests
  compete with new ones.
* The bit that drives the check against the backup is an uninitialised local of
  `insert_file_list`: its initialisation is commented out.
* The log functions and the delayed updates share one stream and its position
  under two different mutexes.
* Nothing detects deadlocks: the detector thread is not started. When it runs,
  it takes its two mutexes in the other order than the lock manager does, acts
  on a graph that is stale, and kills its victim through a handshake of
  counters in which all sleepers of a file take part.
* The backup uses a path four times, as what `stat` finds, what it locks, what it
  opens and what it marks, while renames and unlinks are applied.
* YAFFS' handles, descriptions and inodes count each other; transfers give the
  lock up between chunks; a removed file lives on until its last handle goes.
* A directory search keeps a pointer into a list that other calls change.

## Modules

| Module | What it is |
|---|---|
| `LockManager` | the lock manager, the wait list, the serializability check, the control of handlers and the lock loop of the backup, composed |
| `LockService` | the abstract service: strict two-phase locking |
| `MCLockManager` | the instances TLC checks |
| `LockManagerProofs` | the theorems about `LockManager` |
| `EventLog` | the log functions and the reads of the delayed updates, over one stream |
| `EventLogProofs` | the theorems about `EventLog` |
| `DelayedUpdates` | the update lists of a transaction's directories and how commit applies them |
| `HandleTables` | the three tables of the YAFFS interface: open, dup, close, transfers, unlink, remount, unmount, mount |
| `OpenFiles` | what those calls promise: descriptions with references |
| `ServerHandles` | the handlers on top of `HandleTables` (EXTENDS): which handle a lock node records, and what commit and abort close |
| `Directories` | names of the YAFFS interface: look-up through links, the calls that change the tree, searches |
| `DeadlockDetector` | the detector, and the transactions' side of it in the wait list |
| `Backup` | the walk of the online backup over a tree that transactions change |
| `BackupProofs` | the theorems about `Backup` |
| `HandleTablesProofs` | the theorems about `HandleTables`, and that it implements `OpenFiles` |
| `ServerHandlesProofs` | the theorems about `ServerHandles` |
| `DelayedUpdatesProofs` | the theorem about `DelayedUpdates` |
| `DirectoriesProofs` | the theorems about `Directories` |
| `DeadlockDetectorProofs` | the theorems about `DeadlockDetector` |
| `MCEventLog`, `MCDelayedUpdates`, `MCHandleTables`, `MCServerHandles`, `MCDirectories`, `MCDeadlockDetector`, `MCBackup` | the instances TLC checks |

Recursion in the code (a look-up follows links that lead back, the search follows
edges) is a recursive function here, over the look-ups, paths or colours it goes
through. Their proofs rest on named assumptions on the constants, among them
`ObjectsAssumption` (there are finitely many objects), `NamesAssumption` (no name is
empty), `ModesAssumption` (a request is shared or exclusive) and `SlotsAssumption`
(the detector's arrays have an entry).

### `LockManager`

One thread executes one transaction; transaction 0 is the backup. What a thread
does between taking `file_mutex` and giving it up, or waiting, is one step.
`mutex` records the mutex only where it is kept *across* steps: between the
requests of one call.

| Variable | Code |
|---|---|
| `lockList[f]` | the nodes of inode `f` in the order of `head_lock_list`, each named by its owner. The list is sorted by inode, so the whole list is the concatenation of these |
| `held[t][f]` | `file_mode` of `t`'s node on `f`, `Unlocked` when `t` has none |
| `psr`, `nsr` | `prev_shared_rec`, `next_shared_rec` of that node, as the owner of the node that was meant |
| `in_wait[f]` | `in_wait` of the wait node of `f`; 0 stands for no node |
| `pc`, `todo`, `fallible`, `calls` | where the thread is, which requests of its call are left, whether the call can still fail after its locks |
| `before_after`, `pause_times` | the fields of the transaction node and of `pause_array` |
| `walk` | the inodes the backup has still to visit |
| `heap` | history: is there a pointer to freed memory, was one used |

`insert_file_list` is the disjunction `InsertFileList`: `Own` (the caller has the
file, any mode), `GrantFresh` (no node for the inode), `GrantShared` (link behind
the last sharer), `Block`, `MSPause`, `MSAbort`. Its inputs are the requests of the
calls in `Calls`: `open`, `stat`, `creat`, `unlink` and `rename` are operators that
give the requests of each handler, in order. `rename` of a directory ends with the
request of `lock_subtree`, which, as the path it is given was cut by `dirname`,
is for the old parent again. The value of the read bit is any member of
`ReadBits`.

A release is one step (`file_mutex` is held over the whole loop). A shared
node is unlinked from its chain only when the file has a wait node: `Relinks`.
Otherwise its neighbours keep pointing to it after it is freed, and `heap`
becomes `dangling`. A later walk or release that follows such a pointer reads
and writes freed memory: `heap` becomes `used`. `GrantShared` then has the
outcomes the allocator can produce for the new node: it is on no list at all,
since `free_file_node` cleared the pointers of the freed one, or it is behind the
last node. The release has the outcome that the writes go nowhere.
The properties say which of the three conditions they need. The ones without a
condition hold even then.

### `LockService`

A transaction acquires compatible locks one by one, gives all of them back in a
single step and acquires none afterwards; the backup has one lock at a time. The
mapping: `grant` is `held`, `ended` the transactions whose release loop ran, and
`broken` is `heap = "used"`.

### `EventLog`

The log is one stdio stream. A `log_*` call takes `log_mutex`, finds the end of
the file (its record number), rewrites `next_LRN` of the transaction's previous
record, and appends the record; a commit then takes `file_mutex`, flushes, and
each `delayed_*` function seeks to a record and reads its strings. The second
sequence does not take `log_mutex`, so its calls come between those of the first.
Therefore every `fseek`, `fread` and `fwrite` is a step of its own here.

| Variable | Code |
|---|---|
| `log`, `disk` | the file as the stream sees it, and what `fflush` brought to it, in cells: the *head* of a record (LRN to offset) and its *body* (the strings) |
| `pos` | the position: a cell, and whether it stands at its start, at its `next_LRN` or elsewhere in it. A cell written from elsewhere than a start leaves junk |
| `log_mutex`, `file_mutex` | their holders |
| `pc`, `fn`, `log_LRN`, `prev_LRN` | where a thread is, which record it writes, the locals of the call |
| `last_LRN` | the field of the transaction node; `NoNode` when there is none |
| `writes_at`, `applied` | the update records of the transaction's directory, and what was read for them |
| `raced` | history: one thread moved the stream while another relied on its position |

The `log_*` functions differ in the record type, in `log_txn_beg` having nothing
to link to, and in `log_txn_end` getting the previous number from its caller and
updating no node; one set of actions stands for all of them. `LinkFails` is the
early return on a failed `fwrite`, with `log_mutex` held. `ToInt` is the `int`
parameter of `new_txn_insert`. A transaction's updates are all in one directory;
the order between directories is left to `DelayedUpdates`. `log_write` and `delayed_write` are not
called by the handlers and are left out.

The properties with `~raced` say what the log promises as long as no delayed
update came in between; what happens otherwise is told below.

### `DelayedUpdates`

One transaction: the records are its own, and a release runs under `file_mutex`.
`files` is the list at `file_rec_no`, in the order of the first
locks; `unflagged` are the nodes on it whose `flags` are 0, since `on_stat` asked for
them first (any inode may have been: `on_creat` locks by YAFFS' object id, the other
handlers by the host's `st_ino`); `writes_at[d]` is the list of records at the node of
`d`, each with its code (`write_length`) and the LRN of its log record; `logged` and
`applied` are the updates in log order and in the order the release did them. The calls
are whole handlers, from the lock requests to the record at the tail of the list.
`on_rename_across` puts a record on both nodes; with `Aliases` the two parents may be one
directory under two names, since `on_rename` compares strings but locks inodes.

`on_creat` makes the file in YAFFS at the call itself (`TxFS_manager.c:627`), in any mode:
these are the `created`. Nothing takes them back, an abort neither. What is delayed of a
`creat` is a sync: `delayed_creat` flushes the file when the mode is the string `256`,
and otherwise takes the record off the list and does nothing.

A commit visits the nodes with flags (`Lock_manager1.c:560`) and takes their records one
per step; it passes over the others, whose updates are then lost. `NeverApplied` names
these two: a `creat` of another mode, and an update all of whose directories are unflagged.
`delayed_rename` takes the rename's other record off a *later* node (`RemoveTwin`); without
one it follows a NULL pointer (`crash`). It finds none when the two names are
of one directory, or when the twin's node is an unflagged one it has passed. Afterwards `delayed_update` reads the record it
freed: `ReadReused` is the case that the memory has been given to another thread,
after which nothing is defined.

### `HandleTables`, `OpenFiles`, `ServerHandles`

| Variable of `HandleTables` | Code |
|---|---|
| `handle`, `fd`, `inode` | the tables `yaffsfs_handle`, `yaffsfs_fd`, `yaffsfs_inode`, with their counts |
| `object`, `device` | what the tables see of YAFFS' objects (linked or not, `my_inode`) and of the device |
| `call` | the transfer a thread is in, with what it looked up before it gave the lock up |
| `mine` | the object the program believes its handle stands for |
| `broken` | history: a transfer went on with a handle that was taken away from it, or the tables were wiped |

Each call is one step, as it runs under `yaffsfs_Lock`. In this build
`yaffsfs_Lock` and `yaffsfs_Unlock` have empty bodies (`yaffcfg.c:37-43`); the
module says what the interface does with the lock its calls are written
for. A read or write is `Begin`, up to `MaxChunks` `Chunk`s and `End`, since it
unlocks between chunks. `Mount` wipes the tables (below), `BreakDeviceHandles`
takes the handles away at a forced unmount.

`OpenFiles` has descriptions with references, from handles and from transfers,
and objects that are linked, unlinked or absent. `HandleTables` implements it,
which `broken` releases from its promises; `SharesRespected` adds the share modes.

`ServerHandles` has transactions over these tables. `locks[o]` are the lock nodes of a
file in the order of the list: transaction, mode, and the `fd` that `on_open` records and
`on_stat`, `on_rename`, `on_creat` and `on_unlink` overwrite with 0 (-1 is what
`get_file_node` puts there). A file is the number it is locked by. A second request
of a transaction returns its node as it is (`Lock_manager1.c:282-283`): a file
that was first read or `stat`ed is opened for writing under its shared lock, beside other
readers, and only `write_possible` stands in the way of a write. (`LockManager` leaves such
traces out, by `TraceDiscipline`; here they are in.) An open of a file that
is not there, or that fails for any other reason, aborts the transaction (`OpenFails`);
one with flags other than 0, 1, 2, 1025 or 1026 opens nothing and records a number that
was never written (`OpenOther`, `TxFS_manager.c:66` and `171`): these are `wild`.
The release closes what it finds in a node.
`lost` are handles whose number was overwritten, `foul` says that somebody's
handle was closed by another. A transfer uses a handle of its own transaction or a
`wild` number; the updates that a commit applies to names are left to `DelayedUpdates`.

### `Directories`

A path is a sequence of names. `FindDirectory` is `yaffsfs_DoFindDirectory` with its
`symDepth`, `Reached` its loop, `FindObject` the last component; the two and
`FollowLink` call each other through `NestedLookUp[stack]`, which says how much stack
is left. `..` is the parent in the middle of a path; as the last component it is
a plain name (`yaffsfs.c:701-705`, `764-767`), of a path as of a link, and that is how
`Reference`, which says what a path means, has it. Components `.` and empty ones in the
middle are skipped by the code and left out. Calls that fail leave no trace and
have no action. `search[s]` is a `yaffsfs_DirectorySearchContext`, moved by
`Advanced` when `yaffs_remove_obj_from_dir` calls back. `returned` and `steady` are
history: what a search has given, and what was there all along.
`yaffs_guts.c` is external: it puts a child at the head of its list, takes it off,
and replaces the target of a rename.

### `DeadlockDetector`

The lock list is `holders[f]`, the first of a chain of sharers first, since the graph
is drawn from it. `wait[f]` is the wait node with `in_wait`, `txnid_abort` and
`woke_up`. Here a mutex that is kept across steps is a variable (`file_mutex`,
`txn_mutex`), since the order they are taken in is one of the hazards.
A thread says in its transaction's node that it waits, and then for which file, in two
statements that need no mutex of the detector's (`Lock_manager1.c:296-303`): `SetWaiting` and
`Blocked`. It takes both back the same way after it was woken (`SetRunning`). So
`cur_state` and `waiting_for_inode` of the node are variables apart from what
the thread does (`pc`, `file`).
A round is `BeginRound` (takes `txn_mutex`), `NoteState` and `NoteInode` for each
transaction, `DrawEdges` (takes `file_mutex` as well) with the search, and `MarkVictim`
(under `file_mutex`). What it notes may be half written: no file yet, no file any more, or
a file that nobody holds, and the search of the lock list follows NULL (`NotLocked`).
`in_deadlock` has 50 entries, of ints, and `in_cycle` 50: `overrun` says that the search
has left them (`DeadlockSlots`), `Wide` are the files whose number does not survive the cut,
so that their wait node is not found and NULL is followed. The sleepers' side is
`WakeAndSleepAgain`, `WakeAsVictim`, `VictimCounts`, `VictimGoesOn`; the two copies of it in
`insert_wait_list` and `update_wait_list` are one. Rounds are not counted (the
code does thirty) and the thread is taken to be started (it is not): of either,
`DeadlockResolved` says nothing. `disturbed` and `swallowed` are history and name the two
ways a handshake or a wake-up is lost; the properties except exactly these.

### `Backup`

The tree is a function `path` from inodes to paths. A turn of the loop of
`online_bck` is `Pop` (first `stat`), `StatAgain`, `LockPath`, `Copy`, `MarkAsRead`,
`List` for a directory, and `Release`. A failed second `stat` leaves an
uninitialised buffer, as `error()` only prints: any inode (`Answers`). `Release`
looks for the inode of the first answer and runs off the list when the backup has
locked another (`at = "crashed"`). Transactions rename and unlink with the lock
requests of their handlers and apply the call at commit, in one step, as
`delayed_update` has `file_mutex`. `LockManager` says how requests are granted and
how waiters are woken; here a lock has an owner or none. `shaken`
is history: the current path has come to lead to another inode, or to none, since it
was popped. Listing a directory is one step.

## Runs

| Run | Instance | Shows |
|---|---|---|
| `one_file` | three transactions and the backup over one file, shared and exclusive opens, spurious wake-ups | exclusion, no lost wake-up, shape of the chain, no reader past a sleeping writer |
| `handlers` | two transactions and the backup over a directory and a file, all handlers, read bits 0, 1 and a junk value | types, the count of the wait node, nothing left behind, refinement of `LockService` |
| `ends` | readers of a directory, handlers that lock the directory before a file, pauses and the backup, with fairness | every begun transaction ends |
| `log_records` | two transactions with two updates each, a link may fail to be written | the log is whole records under their own numbers, each transaction's chain leads through all of its records in order; updates are applied only after they and the commit record are in the file, each once, in order, and only on commit |
| `log_ends` | a transaction and the backup, all interleavings and record numbers past `IntMax`, with fairness | every begun transaction writes its `TXN_END` |
| `delayed` | a transaction with three updates in three directories, each of which it may have `stat`ed first, renames across and of directories, two names for one directory | the delayed work of every update, but of those named in `NeverApplied`, is done once at commit and never at abort, in the order of the first locks and then of the calls |
| `tables` | two threads, tables of two slots, two objects, on a device that is unmounted and mounted | the tables agree with each other and with what is open; an open never fails for want of an inode slot; share modes hold; refinement of `OpenFiles` |
| `server_fds` | two transactions over two files on the tables, with open, failed and unknown opens, stat, rename, creat, unlink, read, write, commit and abort | a handle a transaction opened is where its release looks for it; while one writes nobody else has a handle on the file; nobody closes what is not its own, but by handle 0 in an abort and by a number that was never opened |
| `directories` | three objects, links relative and absolute, one of which ends in `..`, one search, every call that changes the tree | the tree stays one; look-up finds what a path means; a search stays inside its directory, misses nothing that was there all along and returns nothing twice |
| `detector` | three transactions over two files, shared and exclusive, with fairness | a victim is in a deadlock; sleepers are counted; a victim that waits has somebody to wait for; a round that noted all members of a deadlock finds it; deadlocks are resolved, but for the named exceptions |
| `backup` | two transactions over a tree of five inodes, with renames across, over a file and of a directory into another, and unlinks, with fairness | what did not move is copied and marked exactly once; the server falls only over a path that changed; only what is locked is marked; a locked inode keeps its path; the walk ends |

The bounds. Three transactions are what the chain needs: a sharer in the
middle. One file makes `LocIndex` take both values (a file at the head with and
without a second node); two files make the cases that depend on the head of
the list and on holding one lock while asking for another. Two calls per
transaction (`MaxCalls`) are enough to hold and ask. `PauseLimit` is 5 in the
code; 1 gives a pause, a second pause and the abort after it, and no step
depends on the value otherwise.
The three tables have the same size in the code; in `tables` it is 2, so that each runs
full, and two handles give sharing, reuse and a description with two handles. A third
object or handle changes the length of the search for a free slot only. The search
stops at states with `broken` (`Working`), where nothing is promised; `SharesRespected` and
the refinement are about the steps up to there. In `server_fds` the tables have two slots,
handle 0 and another; a file has at most two lock nodes (`MaxNodes`), and the search stops
(`Clean`) at states with `foul`, and at more than one `wild`, one `lost` handle or three lock
nodes in all: two sharers of one file and a lock on the other.
It opens for reading and for both, which are the modes of
`tr_file_open_without_mode` that matter to sharing; threads and files are symmetric. In
`directories` three objects are a directory, something in it and something to
put in its place; `YAFFSFS_MAX_SYMLINK_DEREFERENCES` is 1 (5 in the code), so that
a chain reaches it; `StackLimit` bounds what has no bound in the code. The paths have
one and two components and one has three, among them `x/../y`, `x/..` and one with a divider
at its end; the links are `y` and `/x/..`.
In `detector` three transactions are a cycle of two and a sharer or a late sleeper
beside it, and two files are what a cycle takes; requests per transaction are bounded by
`MaxRequests`. `cycle()` cannot return to its start through a node it left only
with four transactions, so `DeadlockSlots` is 3 (50 in the code), which a round with two
cycles overruns; one of the two files is `Wide`. In `backup` one of the files is hidden (`.g`), a
mark is set at first (`FirstMarks`), `Names` are the names in the tree and in the calls, and `StackLimit` is 2 (199 in the code), so that two names of one
inode overrun it.
In the log, two writers are what an interleaving takes and two updates give an
order of application; the backup, in `log_ends`, adds a begin and an end without a
commit. `log_records` stops at states with `raced`, where its properties say
nothing (`NotYetRaced`). `IntMax` is 3 in `log_ends`, so that the third record is
past it, and out of reach elsewhere. A failed `fwrite` blocks the log for good, so
`log_records` does not check deadlock. In `delayed` three
directories give a list with a twin at its head, in its middle and at its tail, and
three updates a rename between others, before or behind it on both sides; the directories
are symmetric.

Fairness. Each thread is scheduled by the kernel, so a thread with a step to do
takes it (`WF` per thread), the mutex is free again after each step, and traces
are finite with a commit or abort at the end, so a client that has begun goes
on. No fairness is assumed for beginning, and spurious wake-ups are off in the
liveness runs, as a fair run may otherwise hide a lost wake-up.
The detector's thread and those of the transactions are each scheduled (`WF`), and the
clients of `backup` and `detector` end what they began; a lock the backup waits for is
requested by finitely many transactions, so weak fairness is enough.
`BackupEnds` excepts transactions that wait for each other, `DeadlockResolved` the
crash, the deadlock over the two mutexes and the two lost wake-ups named below.
Deadlock checking is on where nothing may stop before the end: `log_ends`, `delayed`,
`tables`, `server_fds` and `directories`. It is off in `one_file`, `handlers` and
`orphan_lock`, where two transactions that lock two files in opposite order block each
other for good, in `ends`, where a lost wake-up leaves the backup asleep (the property
excepts it through `heap`), in `log_records`, whose programs come to an end, and in
`detector` and `backup`, whose transactions may block each other and come to an end.

### Where the code departs from what it says

The run `orphan_lock` ends with a counterexample: an exclusive lock is not exclusive
(`Lock_manager1.c:409` and the modes of `my_header.h`), as a reader linked behind
a freed node is on no list, so a writer finds the file free.

The others are in the models without a run of their own: the properties except them
by name, or the transition that does it is there to be read.

Lock manager and wait list:

* A sharer released while nobody waited leaves its neighbour's pointers; the
  neighbour's own release later takes itself for one of several sharers, wakes
  nobody, and the writer sleeps on a free file (`NoLostWakeup` excepts `heap # "sound"`).
* A reader that arrives after a broadcast, before the writer it woke has run, gets
  the file, against `my_header.h:38`.
* A transaction that shares a file is checked against the backup, with an
  uninitialised bit, when none runs (`MSChecked`, against `Lock_manager1.c:216`).
* `search_file_list` starts its loop at the second node, so `loc` is not always
  the first node of the inode (`LocIndex`, against `Lock_manager1.c:63`).

Log and delayed updates:

* A delayed update seeks between the seek to the end and the write of another thread,
  and the record lands on an older one (`raced`, against `Log_manager.c:140`); the
  same race makes a delayed update apply another record's strings (`CellRead`).
* Two names of one directory put both records of a rename on one node; the search of
  the later nodes ends with NULL, which is followed (`pc = "crash"`, against
  `Log_manager.c:496`).
* The updates of a directory that the transaction has `stat`ed before it changed it are
  logged and never applied, as the node's `flags` stay 0 (`Passed`). If they include half
  of a rename, the other half applies it, but follows NULL when the `stat`ed directory
  was locked first, as it looks for its twin in later nodes only.
* A file that `on_creat` made stays when its transaction aborts (`created`).
* A log call whose `fwrite` fails keeps `log_mutex` (`LinkFails`), and as the callers
  ignore its -1, a transaction whose `log_txn_commit` failed applies its updates without
  a commit record (`LogFailed`, which `WriteAhead` excepts).

Handles:

* `yaffsfs_handlesInitialised` (`yaffsfs.c:102`) is tested and never set: every mount
  wipes the tables under whatever is open.
* `yaffsfs_BreakDeviceHandles` closes the handles of other devices than its own.
* A transfer goes on after its chunk with a handle that may stand for another file.
* `yaffsfs_HandleToPointer` (line 139) admits the handle one past the table.
* A second open or a stat of an open file overwrites the `fd` of its node: the handle
  is never closed (`lost`). A commit never closes handle 0, which is a valid one; an abort
  closes handle 0 for every node that has no file, another transaction's or the
  journal's (against `yaffsfs.c:3680`).
* A transaction that asks for more than the lock it has gets its node back as it is: it opens
  a file for writing under a shared lock, beside other readers (`Granted`). `write_possible`
  then refuses its writes, but goes by the number of the handle, so that handle 0
  passes as soon as an exclusive node was only locked (`WriterAlone` excepts it).
* An open with flags that `file_open_flags` has no branch for records an uninitialised
  number, whose handle the release then closes (`wild`).

Names:

* `yaffsfs_FindDevice` takes `/abc` for a path on device `/a` (against the comment at
  line 497). `yaffsfs_CheckPath` rejects a component of exactly the maximal length.
* `symDepth` is passed by value, so a link `x` to `x/y` recurses without end.
* `rewinddir` after the directory was removed uses the object that was freed.
* A `..` at the end of a path is a plain name: `mkdir("/d/..")` makes an object of that name,
  and without one such a path, or a link that ends so, leads nowhere.

Detector:

* It is not started (`Reader.c:521`), and `main` joins an uninitialised thread id.
* A file it noted may be released before the edges are drawn, or was not written yet, or no
  more, when it was noted; the search for it follows NULL (`crashed`).
* A member of a deadlock that falls asleep behind the detector's back is not on its
  list, and the round finds nothing (`AllNoted`).
* The number of a file is cut to an int on its way to the search for the wait node, which
  follows NULL when it finds none; more than 50 entries leave the arrays (`overrun`).
* It takes `file_mutex` under `txn_mutex`, `insert_file_list` the other way round
  (`MutexCycle`).
* A thread that joins a marked wait node, or a second mark during the handshake, makes
  the victim wait for a count that never comes (`disturbed`).
* Sleepers that see a mark when a release wakes them sleep again on a free file
  (`swallowed`).
* Edges to a sharer behind one that does not wait are not drawn.

Backup:

* When a path is renamed or replaced between its two `stat`s, the release looks for a
  lock that is not there and runs off the list; when a directory is, `opendir`
  fails and the NULL stream is read (`at = "crashed"`).
* `mark_as_read` changes the mode of whatever is at the path by then, and toggles: an
  inode that is marked before a backup begins is unmarked by it.
* What moves between push and pop is missed or copied twice; the check that should
  prevent it compares an uninitialised bit.
* `on_rename` locks neither what it overwrites nor what is below a directory it moves
  (`lock_subtree` asks for the old parent each time), so the backup may be inside.
* `on_unlink` looks its inodes up before it waits for them and removes, at commit,
  what the path names by then, which it may never have locked.

## Theorems

About `LockManager` (`LockManagerProofs`):
for every set of transactions, files and calls, every walk of the backup, every
set of read bits and every `PauseLimit`, under `ConstantsAssumption`. Beyond
typing this assumes only that transaction ids are positive (0 is the backup),
and that no handler asks again for a file it asked for in shared mode in
the same call.

The inductive invariant `IInv` has five parts. `Control` and
`BackupControl` tie the program counters to the locks; `Discipline` carries the
condition on traces that `insert_file_list` relies on (a transaction does
not ask again for a file it shares) from the start of a call to the request it is
about; `Nodes` is the core: the owners on the list of an inode are distinct and
have locks, an exclusive owner is alone on it, and, until a freed node is used,
every lock has its node. The last clause is why exclusion is not inductive alone:
`insert_file_list` decides by looking at the list, not at the locks.

| Theorem | Statement |
|---|---|
| `TypeCorrect` | `Spec => []TypeOK` |
| `ExclusionHolds` | `Spec => []Exclusion` |
| `NothingIsLeftBehind` | `Spec => []NothingLeftBehind`, unconditionally |
| `WaitersAreCounted` | `Spec => []WaitCount`, unconditionally |
| `Refinement` | `Spec => Service!ServiceSpec` |
| `NoWakeupIsLost` | `Spec => []NoLostWakeup` |
| `SharersAreChained` | `Spec => []SharedChain` |
| `WritersAreNotOvertaken` | `Spec => NoReaderPastSleepingWriter` |

None of the last three follows from `IInv`. `Counts` adds
that the threads waiting on a file are finitely many and counted; `Chain` that the
pointers of a node lead to its neighbours on the list or, once the heap is dangling, to
a transaction that has ended, and so will never have a node again; `Sleepers` that a
sleeper has somebody to wait for; `BackupNeverReads` that the backup's locks are
exclusive. They lean on each other: a release that wakes nobody belongs to a sharer who
is not the only one (`Counts` says it saw the waiters), so by `Chain` it has a neighbour,
who keeps the file after it (`Sleepers`). A reader that passes a sleeping writer would
need the backup among the sharers, whom `BackupNeverReads` excludes.

About `Backup` (`BackupProofs`), for every tree, every set of transactions and calls
and every size of the stack, under `TreeAssumption` (the tree the backup begins with is
finite, each inode has a path of its own, and what a path goes through are directories),
`CallsAssumption`, `StackAssumption` (there is room for the root) and `TxnsAssumption`:

| Theorem | Statement |
|---|---|
| `TypeCorrect` | `Spec => []TypeOK` |
| `FallsOnlyOverMoves` | `Spec => []FallsOnlyShaken` |
| `WalkCovers` | `Spec => []CoveredOnce` |
| `LockCoversWork` | `Spec => TouchesWhatItLocked` |
| `LockedKeepsItsPath` | `Spec => LockedStays` |

None is inductive. Two share an invariant `IInv` says what the four uses of a path
have to do with each other: from the lock to its release the backup owns `locked`
(`OwnsLocked`), and as long as the path leads where it led, both answers, what was
opened and what the path names now are one inode (`Steadied`). `TxnStep` is the
interference lemma: whatever a transaction does leaves the backup's lock alone, and
changes where the current path leads only by setting `shaken`.

The others need to know what a rename does to a tree. `Tree` says that the host's tree
stays one: paths are told apart, and what a path goes through are directories that
exist (`RenameTree`, `UnlinkTree`). An inode that has not moved has only such above it
(`SteadyPaths`), since a directory takes what is below it along. `TxnLocks` has what a
transaction looked up and what it was granted, in the order of `LockPaths`. Of the inodes
that have not moved before, a commit moves the one it locked last, which nobody else has,
what is below it, and what it replaces; the latter two are the exceptions of `LockedStays`.
`WalkCovers` is an account: what is copied and what is `Ahead` add up to one. `Knows`
says what the backup has in hand when it works on a path that has not moved. `Pop`
takes a position from the stack and works on it (`CoverPop`); `Copy` turns the work on the
inode itself into a copy (`CoverCopy`); what is below a directory is work until `List`, and
then leads through exactly one of the paths pushed (`ListedOnce`), as `readdir` gives
each name once and none that is hidden.

About `EventLog` (`EventLogProofs`), for every set of transactions,
every kind and number of updates, every `IntMax`, with and without a backup and
failing writes, under `LogAssumption`:

| Theorem | Statement |
|---|---|
| `LogTypes` | `Spec => [](TypeOK /\ UpdatesLeft)` |
| `RecordsStayWhole` | `Spec => [](Len(log) <= IntMax + 1 => WholeRecords)` |
| `ChainsStayIntact` | `Spec => [](Len(log) <= IntMax + 1 => ChainIntact)` |
| `UpdatesAreDurable` | `Spec => [](Len(log) <= IntMax + 1 => WriteAhead)` |
| `UpdatesAppliedOrNone` | `Spec => [](Len(log) <= IntMax + 1 => AllOrNothing)` |

The bound is the program's own: `new_txn_insert` takes the number of the `TXN_BEG`
record as an int (`ToInt`), so that the node of a transaction that begins further
down the log points somewhere else, and both properties are lost.
Typing needs `UpdatesLeft`: a release loop that goes on has an update to go on with.
The properties speak of the log while nobody writes; the invariants say how it looks
while somebody does. `Locked` says that whoever is inside a call has `log_mutex`.
`Records` has the place of the stream at each step of a call (`Placed`), the lone head of
a record whose body is to come (`Parity`), and that a transaction's links lead
to heads (`Linked`), or the eight bytes of `next_LRN` would ruin another record.
`Chains` adds where the newest record of a transaction is known at each step: in its node,
in `prev_LRN` once the node is deleted, in `log_LRN` once the head is written (`Tip`),
and that between the link and the head the chain leads to a record not there yet
(`Chain`). `raced` is in all of them: the reads of delayed updates hold another mutex, so
`OthersKept`, the interference lemma, holds only until one comes in between.

The last two rest on `UInv`, which keeps account of the updates of each transaction
(`Accounted`): what is noted for the release are records of its own, in order, behind all
that was applied and, once the release goes on, in the file (`NotedRight`); the record
about to be noted is the newest (`NewestRight`); and as long as no log call failed,
the update records are as many as the applied, the noted and the one about to be noted
(`Counted`). `CommitRight` says where a transaction is that has a commit record, or has
failed to write it; `DiskRight` that the file is a beginning of the log, but for the
links. That what is read is the update, `NextUpdate`, is what `Records` is for.

About `HandleTables` (`HandleTablesProofs`), for every size of the tables, every set of
threads, objects and modes, under its assumptions, among them `ThreadsAssumption`: there
are finitely many threads, none of them a number of a slot.

| Theorem | Statement |
|---|---|
| `TypesHold` | `Spec => []TypeOK` |
| `CountsHold` | `Spec => []TablesAgree` |
| `InodeAlwaysAvailable` | `Spec => []InodeAvailable` |
| `SharesHold` | `Spec => []SharesRespected` |
| `TablesImplementOpenFiles` | `Spec => ImplementsOpenFiles` |

The invariant is `Typed /\ (~broken => Tables /\ Holders)`. `Tables` are the counts: a
description's is the number of its handles, an inode's that of its descriptions; an object
and its inode point to each other, and the modes of an inode's descriptions go together.
`Holders` says who is behind a handle, which counts the transfers on it and 1 more while
the program has it open, and what the program's handles and the transfers in progress
lead to through all three tables; without it a `close` could take away what a transfer is
about to use. Since each count is a cardinality, a step is a step in one set: one
handle more or less of one description (`FS_AddElement`, `FS_RemoveElement`). That an
inode slot is free when a description is follows from counting: inodes in use are at most
descriptions in use. For the refinement the set of references of a description is
its handles and the transfers on it, `RefsSplit` and one lemma per call
say what each step does to it.

About `ServerHandles` (`ServerHandlesProofs`), in addition under `JournalModeAssumption`:
when the server has a journal, its mode is one an open may have.

| Theorem | Statement |
|---|---|
| `HandlesComeBack` | `ServerSpec => []HandlesReturned` |
| `WriterIsAlone` | `ServerSpec => []WriterAlone` |
| `ForeignCloses` | `ServerSpec => NoOtherForeignClose` |

The steps of the server are steps of the tables, so `IInv` of `HandleTables` is
part of the invariant `SInv`. `Server` adds what ties the lock nodes to
the handles: a handle with an owner is open on a file (`OwnedOpen`); it is in a lock node
of its owner, was overwritten there, or is handle 0 after a commit (`Recorded`); a node with
a number above 0 that an open gave leads to its transaction's handle and is the only one of
the file with it (`NodesLead`); an exclusive node is alone on its file (`LocksExclude`); a
running transaction has a node on every file it has a handle on (`FilesLocked`), and one that
writes an exclusive one (`WritesLocked`), since by `NodesLead` the node that
`write_possible` found is its own. The
last three together make a writer alone. All of it is given up when somebody closed
another's handle (`foul`).

About `DelayedUpdates` (`DelayedUpdatesProofs`), for every set of directories and every
number of updates of each kind:

| Theorem | Statement |
|---|---|
| `UpdatesAppliedOnce` | `Spec => []AppliedOnce` |

The list of a node is in the order of the log (`Sorted`), and each record tells what its
update is (`Right`), so the head of a list is its oldest update. The
core is `Whole`: an update that waits in one of its directories waits in all of them. It
is what `RemoveTwin` restores at each rename, and why nothing is done twice (`Progress`). The
lists that are not empty are still ahead of the release, or of nodes without flags (`Queued`). For the
order, `Ordered` says that what is applied lies before the place the release has
come to, and, at the same node, before every record that is left there. A record
that is taken off moves up what follows (`OneRemoved`); `Shrinks` is all the rest
of the argument needs to know of that. What is typed is so always; the account ends
where the server follows a NULL or reads a reused record (`Sound`).

About `Directories` (`DirectoriesProofs`), for every finite set of objects and every set
of names, paths and searches:

| Theorem | Statement |
|---|---|
| `TreeHasItsShape` | `Spec => []TreeShape` |
| `SearchesPointInside` | `Spec => []SearchInside` |
| `SearchesComplete` | `Spec => []SearchComplete` |
| `ChildrenReturnedOnce` | `Spec => ReturnedOnce` |

The invariant of a search, `Goes`, is about the child it points at: what lies from there
to the end of the list has not been returned, and of what was there all the time, all
that is not yet returned lies there. A removal moves the pointer
(`GoesOn`), a new child comes before it (`GoesStill`): so it may be missed, as it was
not there all the time, but nothing comes twice. The code relies on the callback reaching
*every* context.

That the tree is one is not a property of single steps of it: `Below` climbs it level
by level. The invariant says it without counting. `Grounded`: there is no set of
objects, but the empty one, in which each has its parent. `GroundedBranch` is
the rename: a set that hangs after a directory was moved would hold the new parent, and with
it the way up from there; the check of `yaffs_rename` has walked this way and not met
what is moved, so the set was hanging before. Both climbs are recursive functions that
the module defines, and TLA+ gives such a definition a meaning only where a function
like that exists: `WayUpExists` and `LevelsExist` exhibit one. `LevelsClose` counts: a
level that adds nothing is the last, and there are no more levels than objects.

About `DeadlockDetector` (`DeadlockDetectorProofs`), for every finite set of transactions
and every set of files:

| Theorem | Statement |
|---|---|
| `WaitNodesCountTheirSleepers` | `Spec => []WaitersCounted` |
| `VictimsAreRemembered` | `Spec => []VictimNotForgotten` |

Nothing is used of the search but that it chooses a transaction (`DrawEdgesKeeps`): the
handshake goes well whoever is marked, and whenever. `Counted` says that `in_wait` is the
number of sleepers of a file, `Asks` that a sleeper does not hold what it
waits for. `Shaken` is the handshake at one file: under a mark, `in_wait` is at most
`woke_up` and those still awake, so nobody is forgotten; whoever counts, waits
on `wake_cond` or is signalled is the one that is marked; and it waits only while
`woke_up` is less than `in_wait`. `MarkVictimKeeps` is where this could break: a second mark
sets `woke_up` to 0. Unless it disturbs a handshake (`Counting`), nobody at the file is
awake, and then nobody waits on `wake_cond` either, so it wakes all of them.
`disturbed` is the exception the code leaves open.

Only model-checked:

* Liveness: `EveryTxnEnds`, `EveryTxnLogsItsEnd`, `DeadlockResolved`, `BackupEnds`. The
  prover has no rules for fairness.
* `LookupRight`: the look-up and what a path means are two recursions through links
  and paths of any length. That either definition has a solution at all would have to be
  shown by induction over data, before the two could be compared.
* `VictimInDeadlock` and `CyclesFound`, for the same reason: they depend on what the
  depth-first search returns for every graph.

## Not modelled

* The reader of requests and the client library: they format, send and parse; the
  order of a transaction's calls, which is all the server depends on, is in the modules.
  (A request is assumed to arrive in one piece; TCP does not promise it, see
  `Reader.c:226`.)
* In `yaffsfs.c`: seek and truncate, attributes and times, free space and the lists of
  devices. They change one object or position under the lock. Below it,
  `yaffs_guts.c` and the flash are vendored and external.
* The slots of `pause_array`: `LockManager` keeps the count of each transaction.
* The trace generators and the older copies `backup_manager_working.c`, `test_log.c` and
  `TxIDManager.c`, which are not linked into the server.

## Plan

1. Positions of descriptions: reads, writes, seeks and truncation of an open file.
2. The reader's protocol with the clients.
3. `DelayedUpdates` and the names of `Directories` composed, so that a commit's updates
   change the tree that the open handles of `ServerHandles` lead to.
