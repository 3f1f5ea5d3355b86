--------------------------- MODULE DelayedUpdates ---------------------------
(***************************************************************************)
(* The directory updates of one transaction: on_creat, on_unlink and       *)
(* on_rename lock directories and note each update in writes_at of their   *)
(* lock nodes (server/Update_manager.c); at commit delayed_update applies  *)
(* them node by node (server/Log_manager.c), but for the nodes whose flags *)
(* are 0: those of directories that on_stat locked first.  A rename        *)
(* between two directories is noted in both and must be applied once.      *)
(* What on_creat does to YAFFS at the call itself is `created'.            *)
(*                                                                         *)
(* The records are the transaction's own and file_mutex is held over the   *)
(* whole release, so nobody else takes part.                               *)
(***************************************************************************)
EXTENDS Integers, Sequences, SequencesExt, FiniteSets

CONSTANTS
    Dirs,        \* inodes of directories
    MaxUpdates,  \* bound: updates of the transaction
    Aliases      \* whether a path may name a directory by another string

ASSUME UpdatesAssumption ==
    /\ IsFiniteSet(Dirs)
    /\ MaxUpdates \in Nat
    /\ Aliases \in BOOLEAN

VARIABLES
    pc,         \* run, release, done, or how it went wrong: crash, undefined
    committed,  \* the release is that of a commit
    files,      \* lock nodes of the transaction: the list at file_rec_no
    unflagged,  \* those of them whose flags are 0
    at,         \* the release's place in that list
    writes_at,  \* per node, the update records not applied yet
    logged,     \* the updates in the order of the log; LRN is the place in it
    created,    \* LRNs of the creats whose file was made at the call
    applied     \* LRNs of the updates done by the release, in that order

vars == <<pc, committed, files, unflagged, at, writes_at, logged, created, applied>>

\* The write_length of a record tells what it is.
OldPath == -1
NewPath == -2
SamePath == -3
Creat == -4
Unlink == -5

\* The mode of creat for which delayed_creat does something.
SyncedMode == "256"
Modes == {SyncedMode, "384"}

LRNs == 1..Len(logged)

Updates == [type : {"CREAT"}, dirs : SUBSET Dirs, mode : Modes]
           \cup [type : {"UNLINK", "RENAME"}, dirs : SUBSET Dirs]

\* No node is on the list twice.
TypeOK ==
    /\ pc \in {"run", "release", "done", "crash", "undefined"}
    /\ committed \in BOOLEAN
    /\ files \in Seq(Dirs) /\ \A i, j \in 1..Len(files) : files[i] = files[j] => i = j
    /\ unflagged \subseteq ToSet(files)
    /\ at \in 1..Len(files) + 1
    /\ writes_at \in [Dirs -> Seq([write_length : Unlink..OldPath, LRN : LRNs])]
    /\ logged \in Seq(Updates)
    /\ created \subseteq {i \in LRNs : logged[i].type = "CREAT"}
    /\ applied \in Seq(LRNs)

Init ==
    /\ pc = "run"
    /\ committed = FALSE
    /\ files = <<>>
    /\ unflagged = {}
    /\ at = 1
    /\ writes_at = [d \in Dirs |-> <<>>]
    /\ logged = <<>>
    /\ created = {}
    /\ applied = <<>>

-----------------------------------------------------------------------------
(***************************************************************************)
(* The calls.                                                              *)
(***************************************************************************)

\* insert_file_list: the node is that of an earlier call, with the flags of
\* that call, or goes to the tail.
Locked(list, d) ==
    IF \E i \in 1..Len(list) : list[i] = d THEN list ELSE Append(list, d)

\* The new record goes to the tail of the node's list.
Note(w, d, code) ==
    [w EXCEPT ![d] = Append(@, [write_length |-> code, LRN |-> Len(logged) + 1])]

\* log_creat, log_unlink and log_rename.
Log(update) ==
    /\ pc = "run"
    /\ Len(logged) < MaxUpdates
    /\ logged' = Append(logged, update)
    /\ UNCHANGED <<pc, committed, unflagged, at, applied>>

\* The lock that on_stat asks for is a shared one and its flags are 0.
on_stat(d) ==
    /\ pc = "run"
    /\ d \notin ToSet(files)
    /\ files' = Append(files, d)
    /\ unflagged' = unflagged \cup {d}
    /\ UNCHANGED <<pc, committed, at, writes_at, logged, created, applied>>

\* After the record tr_ext_creat_yaffs_creat makes the file in YAFFS, in any
\* mode; where it cannot, the client gets -1 and the record stays.
on_creat(d, mode) ==
    /\ Log([type |-> "CREAT", dirs |-> {d}, mode |-> mode])
    /\ files' = Locked(files, d)
    /\ writes_at' = Note(writes_at, d, Creat)
    /\ created' \in {created, created \cup {Len(logged) + 1}}

\* The child's node gets no record and stands for nothing here.
on_unlink(d) ==
    /\ Log([type |-> "UNLINK", dirs |-> {d}])
    /\ files' = Locked(files, d)
    /\ writes_at' = Note(writes_at, d, Unlink)
    /\ UNCHANGED created

\* The parents are compared as strings.
on_rename_here(d) ==
    /\ Log([type |-> "RENAME", dirs |-> {d}])
    /\ files' = Locked(files, d)
    /\ writes_at' = Note(writes_at, d, SamePath)
    /\ UNCHANGED created

on_rename_across(old, new) ==
    /\ old = new => Aliases
    /\ Log([type |-> "RENAME", dirs |-> {old, new}])
    /\ files' = Locked(Locked(files, old), new)
    /\ writes_at' = Note(Note(writes_at, old, OldPath), new, NewPath)
    /\ UNCHANGED created

\* What is moved is locked, too; it may be a directory that has updates.
on_rename_dir(old, new, moved) ==
    /\ moved \notin {old, new} /\ old # new
    /\ Log([type |-> "RENAME", dirs |-> {old, new}])
    /\ files' = Locked(Locked(Locked(files, old), new), moved)
    /\ writes_at' = Note(Note(writes_at, old, OldPath), new, NewPath)
    /\ UNCHANGED created

on_txn_commit ==
    /\ pc = "run"
    /\ pc' = "release"
    /\ committed' = TRUE
    /\ UNCHANGED <<files, unflagged, at, writes_at, logged, created, applied>>

\* release_locks_on_abort frees the records of the nodes with flags, and
\* nothing undoes what on_creat made.
on_txn_abort ==
    /\ pc = "run"
    /\ pc' = "done"
    /\ writes_at' = [d \in Dirs |-> IF d \in unflagged THEN writes_at[d] ELSE <<>>]
    /\ UNCHANGED <<committed, files, unflagged, at, logged, created, applied>>

-----------------------------------------------------------------------------
(***************************************************************************)
(* release_locks_on_success: delayed_update for one node after the other,  *)
(* one record per step.                                                    *)
(***************************************************************************)
AtRecord(codes) ==
    /\ pc = "release"
    /\ at <= Len(files)
    /\ files[at] \notin unflagged
    /\ writes_at[files[at]] # <<>>
    /\ Head(writes_at[files[at]]).write_length \in codes

lrn == Head(writes_at[files[at]]).LRN

Advance(w) == [w EXCEPT ![files[at]] = Tail(@)]

delayed_creat ==
    /\ AtRecord({Creat})
    /\ applied' = IF logged[lrn].mode = SyncedMode THEN Append(applied, lrn) ELSE applied
    /\ writes_at' = Advance(writes_at)
    /\ UNCHANGED <<pc, committed, files, unflagged, at, logged, created>>

delayed_unlink ==
    /\ AtRecord({Unlink})
    /\ applied' = Append(applied, lrn)
    /\ writes_at' = Advance(writes_at)
    /\ UNCHANGED <<pc, committed, files, unflagged, at, logged, created>>

\* Where a node has the other record of the rename, and the nodes after this one
\* that have it.
Places(i) == {r \in 1..Len(writes_at[files[i]]) : writes_at[files[i]][r].LRN = lrn}
Twins == {i \in at + 1..Len(files) : Places(i) # {}}

First(S) == CHOOSE n \in S : \A m \in S : n <= m

\* Seeded fault: the other record of the rename stays.
KeepTwin(w) == w

RemoveTwin(w) ==
    IF Twins = {} THEN w
    ELSE LET i == First(Twins) IN [w EXCEPT ![files[i]] = RemoveAt(@, First(Places(i)))]

\* The rename is done; without the other record file_rename2 is NULL and the
\* server then follows it.
delayed_rename ==
    /\ AtRecord({OldPath, NewPath, SamePath})
    /\ applied' = Append(applied, lrn)
    /\ IF AtRecord({SamePath}) \/ Twins # {}
       THEN writes_at' = Advance(RemoveTwin(writes_at)) /\ UNCHANGED pc
       ELSE pc' = "crash" /\ UNCHANGED writes_at
    /\ UNCHANGED <<committed, files, unflagged, at, logged, created>>

\* delayed_update reads the code and the successor of the record that
\* delayed_rename has freed: mostly they are still there, but another thread may
\* have been given the memory.
ReadReused ==
    /\ AtRecord({OldPath, NewPath, SamePath})
    /\ AtRecord({SamePath}) \/ Twins # {}
    /\ applied' = Append(applied, lrn)
    /\ pc' = "undefined"
    /\ UNCHANGED <<committed, files, unflagged, at, writes_at, logged, created>>

\* A node without flags is passed over with its records.
Passed(d) == d \in unflagged \/ writes_at[d] = <<>>

NextFile ==
    /\ pc = "release"
    /\ IF at <= Len(files) THEN Passed(files[at]) /\ at' = at + 1 /\ UNCHANGED pc
       ELSE pc' = "done" /\ UNCHANGED at
    /\ UNCHANGED <<committed, files, unflagged, writes_at, logged, created, applied>>

Finished == pc \in {"done", "crash", "undefined"} /\ UNCHANGED vars

Call ==
    \/ \E d \in Dirs, mode \in Modes : on_creat(d, mode)
    \/ \E d \in Dirs : on_stat(d) \/ on_unlink(d) \/ on_rename_here(d)
    \/ \E old, new \in Dirs : on_rename_across(old, new)
    \/ \E old, new, moved \in Dirs : on_rename_dir(old, new, moved)
    \/ on_txn_commit \/ on_txn_abort

release_locks_on_success ==
    delayed_creat \/ delayed_unlink \/ delayed_rename \/ ReadReused \/ NextFile

Next == Call \/ release_locks_on_success \/ Finished

Spec == Init /\ [][Next]_vars

-----------------------------------------------------------------------------
(***************************************************************************)
(* What a commit promises, as long as the server lives and no freed record *)
(* was given to another thread.                                            *)
(***************************************************************************)
Sound == pc \notin {"crash", "undefined"}

Pending(i) == \E d \in Dirs : \E r \in 1..Len(writes_at[d]) : writes_at[d][r].LRN = i

Applied(i) == \E a \in 1..Len(applied) : applied[a] = i

\* What the release leaves out: syncing the creats of other modes to disk, and
\* every update of directories whose nodes have no flags.
NeverApplied(i) ==
    \/ logged[i].type = "CREAT" /\ logged[i].mode # SyncedMode
    \/ logged[i].dirs \subseteq unflagged

\* The directory of an update that the transaction locked first.
Place(i) == CHOOSE p \in 1..Len(files) :
    /\ files[p] \in logged[i].dirs
    /\ \A q \in 1..p - 1 : files[q] \notin logged[i].dirs

\* Of the delayed work of an update, which for a creat is only to sync the file
\* that on_creat made at the call: at any time a logged update is applied or
\* waits to be, never both, and never applied twice, the renames that are on two
\* lists included; what is applied is so in the order in which the directories
\* were locked and, in one of them, of the calls.  At the end of a commit all are
\* applied but those that have a lock with flags on none of their directories; at
\* the end of an abort none, while the files in `created' stay.
AppliedOnce ==
    TypeOK /\ (Sound =>
             /\ \A a, b \in 1..Len(applied) : a < b =>
                  \/ Place(applied[a]) < Place(applied[b])
                  \/ Place(applied[a]) = Place(applied[b]) /\ applied[a] < applied[b]
             /\ \A i \in LRNs : /\ Applied(i) => ~Pending(i) /\ ~NeverApplied(i) /\ committed
                                /\ pc = "run" => Pending(i)
                                /\ pc = "release" /\ ~NeverApplied(i) => Applied(i) \/ Pending(i)
             /\ pc = "done" => \A i \in LRNs : Applied(i) <=> committed /\ ~NeverApplied(i))
=============================================================================
