------------------------------ MODULE EventLog ------------------------------
(***************************************************************************)
(* The event log of TxFS (server/Log_manager.c), written by the handlers   *)
(* of TxFS_manager.c through the log_* functions and read back at commit   *)
(* by the delayed_* functions.                                             *)
(*                                                                         *)
(* All of them use one stdio stream and its one position.  The log_*       *)
(* functions hold log_mutex while they seek and write; the delayed_*       *)
(* functions hold file_mutex while they seek and read.  Each fseek, ftell, *)
(* fread and fwrite is a step, but for pairs that make one seek and for    *)
(* the fields of a record: they are written as two cells, the head (LRN to *)
(* offset) and the body (the data).                                        *)
(***************************************************************************)
EXTENDS Integers, Sequences, FiniteSets

CONSTANTS
    UserTxns,    \* transactions of the clients
    Kinds,       \* update records they write, of CREAT, RENAME and UNLINK
    MaxUpdates,  \* bound: updates per transaction
    BackupRuns,  \* whether a backup is asked for
    IntMax,      \* the largest int; log record numbers are long
    WriteErrors  \* whether the fwrite of next_LRN may fail

Backup == 0
NoTxn == -1
Txns == UserTxns \cup {Backup}
UpdateTypes == {"CREAT", "RENAME", "UNLINK"}

ASSUME LogAssumption ==
    /\ UserTxns \subseteq Nat \ {0}
    /\ Kinds \subseteq UpdateTypes
    /\ MaxUpdates \in Nat
    /\ BackupRuns \in BOOLEAN
    /\ IntMax \in Nat
    /\ WriteErrors \in BOOLEAN

VARIABLES
    log,         \* the cells of the file; the one at offset o is log[o + 1]
    pos,         \* the stream position: an offset and the place in that cell
    disk,        \* what fflush last brought to the file
    log_mutex,   \* its holder
    file_mutex,  \* its holder, over a whole release loop
    pc,          \* where the thread of a transaction is
    fn,          \* record type the current log_* call writes
    log_LRN,     \* locals of that call
    prev_LRN,
    last_LRN,    \* last_LRN of the transaction's node, NoNode without one
    writes_at,   \* update records of its directory; one directory is modelled
    applied,     \* what the delayed_* functions read for them
    raced        \* history: a step used the stream inside another's sequence

logVars == <<log, pos, disk>>
vars == <<log, pos, disk, log_mutex, file_mutex, pc, fn, log_LRN, prev_LRN,
          last_LRN, writes_at, applied, raced>>

None == -1

\* A node not in the transaction list.
NoNode == -2

RecordTypes == UpdateTypes \cup {"TXN_BEG", "TXN_COMMIT", "TXN_ABORT", "TXN_END"}

HeadCell(lrn, t, prev, type) ==
    [kind |-> "head", lrn |-> lrn, txn |-> t, prev |-> prev, next |-> None, type |-> type]

BodyCell(lrn, t) == [kind |-> "body", lrn |-> lrn, txn |-> t]

Junk == [kind |-> "junk"]

At(o, place) == [at |-> o, place |-> place]

PC == {"idle", "lock", "ftell", "seek_prev", "link", "seek_end", "head", "body",
       "fflush", "run", "release", "delayed_seek", "delayed_read", "finish", "done"}

Cells == [kind : {"head"}, lrn : Int, txn : Txns, prev : Int, next : Int, type : RecordTypes]
         \cup [kind : {"body"}, lrn : Int, txn : Txns] \cup {Junk}

TypeOK ==
    /\ log \in Seq(Cells) /\ disk \in Seq(Cells)
    /\ pos \in [at : Nat, place : {"start", "next", "inside"}]
    /\ log_mutex \in Txns \cup {NoTxn} /\ file_mutex \in Txns \cup {NoTxn}
    /\ pc \in [Txns -> PC]
    /\ fn \in [Txns -> RecordTypes]
    /\ log_LRN \in [Txns -> Int] /\ prev_LRN \in [Txns -> Int] /\ last_LRN \in [Txns -> Int]
    /\ writes_at \in [Txns -> Seq([lrn : Int, type : UpdateTypes])]
    /\ applied \in [Txns -> Seq(Cells)]
    /\ raced \in BOOLEAN

Init ==
    /\ log = <<>> /\ disk = <<>>
    /\ pos = At(0, "start")
    /\ log_mutex = NoTxn /\ file_mutex = NoTxn
    /\ pc = [t \in Txns |-> "idle"]
    /\ fn = [t \in Txns |-> "TXN_BEG"]
    /\ log_LRN = [t \in Txns |-> None]
    /\ prev_LRN = [t \in Txns |-> None]
    /\ last_LRN = [t \in Txns |-> NoNode]
    /\ writes_at = [t \in Txns |-> <<>>]
    /\ applied = [t \in Txns |-> <<>>]
    /\ raced = FALSE

-----------------------------------------------------------------------------
(***************************************************************************)
(* The stream.                                                             *)
(***************************************************************************)
\* Seeded fault: the last byte is taken for the end.
EndOfLogOffByOne == At(Len(log) - 1, "start")

EndOfLog == At(Len(log), "start")

\* Threads whose next use of the stream relies on where they left it.
InSequence(t) == pc[t] \in {"ftell", "link", "head", "body", "delayed_read"}

Races(t) == raced' = (raced \/ \E u \in Txns \ {t} : InSequence(u))

fseek(t, p) == pos' = p /\ Races(t)

\* A cell as a whole goes where the stream stands: at the end it is appended,
\* elsewhere it replaces what is there, inside a cell it ruins that cell.
PutCell(s, p, c) ==
    IF p.at >= Len(s) THEN Append(s, IF p.place = "start" THEN c ELSE Junk)
    ELSE [s EXCEPT ![p.at + 1] = IF p.place = "start" THEN c ELSE Junk]

fwrite_cell(t, c) ==
    /\ log' = PutCell(log, pos, c)
    /\ pos' = At(pos.at + 1, pos.place)
    /\ Races(t)

\* The eight bytes of next_LRN.
PutNext(s, p, lrn) ==
    IF p.at >= Len(s) THEN Append(s, Junk)
    ELSE [s EXCEPT ![p.at + 1] =
             IF p.place = "next" /\ @.kind = "head" THEN [@ EXCEPT !.next = lrn]
             ELSE Junk]

fwrite_next(t, lrn) ==
    /\ log' = PutNext(log, pos, lrn)
    /\ pos' = At(pos.at, "inside")
    /\ Races(t)

-----------------------------------------------------------------------------
(***************************************************************************)
(* The log_* functions, which differ in the type of the record, and in     *)
(* that log_txn_beg links to nothing and log_txn_end updates no node.      *)
(***************************************************************************)

\* pthread_mutex_lock and the fseek of extract_record_no.
LogLock(t) ==
    /\ pc[t] = "lock"
    /\ log_mutex = NoTxn
    /\ log_mutex' = t
    /\ fseek(t, EndOfLog)
    /\ pc' = [pc EXCEPT ![t] = "ftell"]
    /\ UNCHANGED <<log, disk, file_mutex, fn, log_LRN, prev_LRN, last_LRN, writes_at,
                   applied>>

\* The rest of extract_record_no, and get_prev_log_LRN.
extract_record_no(t) ==
    /\ pc[t] = "ftell"
    /\ log_LRN' = [log_LRN EXCEPT ![t] = pos.at]
    /\ prev_LRN' = [prev_LRN EXCEPT ![t] =
                        IF fn[t] \in {"TXN_BEG", "TXN_END"} THEN @ ELSE last_LRN[t]]
    /\ pc' = [pc EXCEPT ![t] = IF fn[t] = "TXN_BEG" THEN "seek_end" ELSE "seek_prev"]
    /\ UNCHANGED <<logVars, log_mutex, file_mutex, fn, last_LRN, writes_at, applied, raced>>

\* A negative offset is refused and the stream stays; the second fseek goes on
\* from there.
SeekPrev(t) ==
    /\ pc[t] = "seek_prev"
    /\ fseek(t, IF prev_LRN[t] >= 0 THEN At(prev_LRN[t], "next") ELSE At(pos.at, "inside"))
    /\ pc' = [pc EXCEPT ![t] = "link"]
    /\ UNCHANGED <<log, disk, log_mutex, file_mutex, fn, log_LRN, prev_LRN, last_LRN,
                   writes_at, applied>>

\* Seeded fault: update_txn is forgotten.
LinkPrevNoUpdate(t) ==
    /\ pc[t] = "link"
    /\ fwrite_next(t, log_LRN[t])
    /\ pc' = [pc EXCEPT ![t] = "seek_end"]
    /\ UNCHANGED <<disk, log_mutex, file_mutex, fn, log_LRN, prev_LRN, last_LRN, writes_at,
                   applied>>

\* next_LRN of the previous record, and update_txn.
LinkPrev(t) ==
    /\ pc[t] = "link"
    /\ fwrite_next(t, log_LRN[t])
    /\ last_LRN' = [last_LRN EXCEPT ![t] = IF fn[t] = "TXN_END" THEN @ ELSE log_LRN[t]]
    /\ pc' = [pc EXCEPT ![t] = "seek_end"]
    /\ UNCHANGED <<disk, log_mutex, file_mutex, fn, log_LRN, prev_LRN, writes_at, applied>>

\* Seeded fault: the record is written where the link was.
SeekEndLeftOut(t) ==
    /\ pc[t] = "seek_end"
    /\ pc' = [pc EXCEPT ![t] = "head"]
    /\ UNCHANGED <<logVars, log_mutex, file_mutex, fn, log_LRN, prev_LRN, last_LRN,
                   writes_at, applied, raced>>

SeekEnd(t) ==
    /\ pc[t] = "seek_end"
    /\ fseek(t, EndOfLog)
    /\ pc' = [pc EXCEPT ![t] = "head"]
    /\ UNCHANGED <<log, disk, log_mutex, file_mutex, fn, log_LRN, prev_LRN, last_LRN,
                   writes_at, applied>>

WriteHead(t) ==
    /\ pc[t] = "head"
    /\ fwrite_cell(t, HeadCell(log_LRN[t], t, prev_LRN[t], fn[t]))
    /\ pc' = [pc EXCEPT ![t] = "body"]
    /\ UNCHANGED <<disk, log_mutex, file_mutex, fn, log_LRN, prev_LRN, last_LRN, writes_at,
                   applied>>

\* The last fwrite and pthread_mutex_unlock.
WriteBody(t) ==
    /\ pc[t] = "body"
    /\ fwrite_cell(t, BodyCell(log_LRN[t], t))
    /\ log_mutex' = NoTxn
    /\ pc' = [pc EXCEPT ![t] = "fflush"]
    /\ UNCHANGED <<disk, file_mutex, fn, log_LRN, prev_LRN, last_LRN, writes_at, applied>>

-----------------------------------------------------------------------------
(***************************************************************************)
(* The callers.  new_txn_insert takes the record number as an int, and     *)
(* creat_log, rename_log and unlink_log note it in writes_at.              *)
(***************************************************************************)
ToInt(n) == ((n + IntMax + 1) % (2 * (IntMax + 1))) - (IntMax + 1)

Return(t, ret) ==
    /\ pc' = [pc EXCEPT ![t] = CASE fn[t] \in {"TXN_COMMIT", "TXN_ABORT"} -> "release"
                                 [] fn[t] = "TXN_END" -> "done"
                                 [] OTHER -> "run"]
    /\ last_LRN' = [last_LRN EXCEPT ![t] = IF fn[t] = "TXN_BEG" THEN ToInt(ret) ELSE @]
    /\ writes_at' = [writes_at EXCEPT ![t] =
                         IF fn[t] \in UpdateTypes
                         THEN Append(@, [lrn |-> ret, type |-> fn[t]]) ELSE @]

FlushAndReturn(t) ==
    /\ pc[t] = "fflush"
    /\ disk' = log
    /\ Return(t, log_LRN[t])
    /\ UNCHANGED <<log, pos, log_mutex, file_mutex, fn, log_LRN, prev_LRN, applied, raced>>

\* fwrite returned 0: log_* returns at once, with log_mutex.
LinkFails(t) ==
    /\ WriteErrors
    /\ pc[t] = "link"
    /\ Return(t, -1)
    /\ UNCHANGED <<logVars, log_mutex, file_mutex, fn, log_LRN, prev_LRN, applied, raced>>

\* A handler calls a log_* function.
CallLog(t, type) ==
    /\ pc' = [pc EXCEPT ![t] = "lock"]
    /\ fn' = [fn EXCEPT ![t] = type]

\* on_txn_beg, and the begin of on_bck_beg.
on_txn_beg(t) ==
    /\ t = Backup => BackupRuns
    /\ pc[t] = "idle"
    /\ CallLog(t, "TXN_BEG")
    /\ UNCHANGED <<logVars, log_mutex, file_mutex, log_LRN, prev_LRN, last_LRN, writes_at,
                   applied, raced>>

on_update(t) ==
    /\ t # Backup
    /\ pc[t] = "run"
    /\ Len(writes_at[t]) < MaxUpdates
    /\ \E type \in Kinds : CallLog(t, type)
    /\ UNCHANGED <<logVars, log_mutex, file_mutex, log_LRN, prev_LRN, last_LRN, writes_at,
                   applied, raced>>

\* Seeded fault: the locks are released before the commit is logged.
on_txn_commit_unlogged(t) ==
    /\ t # Backup
    /\ pc[t] = "run"
    /\ pc' = [pc EXCEPT ![t] = "release"]
    /\ fn' = [fn EXCEPT ![t] = "TXN_COMMIT"]
    /\ UNCHANGED <<logVars, log_mutex, file_mutex, log_LRN, prev_LRN, last_LRN, writes_at,
                   applied, raced>>

on_txn_commit(t) ==
    /\ t # Backup
    /\ pc[t] = "run"
    /\ CallLog(t, "TXN_COMMIT")
    /\ UNCHANGED <<logVars, log_mutex, file_mutex, log_LRN, prev_LRN, last_LRN, writes_at,
                   applied, raced>>

on_txn_abort(t) ==
    /\ t # Backup
    /\ pc[t] = "run"
    /\ CallLog(t, "TXN_ABORT")
    /\ UNCHANGED <<logVars, log_mutex, file_mutex, log_LRN, prev_LRN, last_LRN, writes_at,
                   applied, raced>>

\* online_bck is over.
BackupOver ==
    /\ pc[Backup] = "run"
    /\ pc' = [pc EXCEPT ![Backup] = "finish"]
    /\ UNCHANGED <<logVars, log_mutex, file_mutex, fn, log_LRN, prev_LRN, last_LRN, writes_at,
                   applied, raced>>

-----------------------------------------------------------------------------
(***************************************************************************)
(* Release of the locks: updates are applied on commit and discarded on    *)
(* abort.                                                                  *)
(***************************************************************************)
\* Seeded fault: an abort applies the updates, too.
AppliesOnAbort(t) == writes_at[t] # <<>>

Applies(t) == fn[t] = "TXN_COMMIT" /\ writes_at[t] # <<>>

release_locks(t) ==
    /\ pc[t] = "release"
    /\ file_mutex = NoTxn
    /\ disk' = log
    /\ file_mutex' = IF Applies(t) THEN t ELSE NoTxn
    /\ pc' = [pc EXCEPT ![t] = IF Applies(t) THEN "delayed_seek" ELSE "finish"]
    /\ writes_at' = [writes_at EXCEPT ![t] = IF Applies(t) THEN @ ELSE <<>>]
    /\ UNCHANGED <<log, pos, log_mutex, fn, log_LRN, prev_LRN, last_LRN, applied, raced>>

\* The two fseek of delayed_creat, delayed_rename and delayed_unlink.
delayed_seek(t) ==
    /\ pc[t] = "delayed_seek"
    /\ LET lrn == Head(writes_at[t]).lrn
       IN  fseek(t, IF lrn >= 0 THEN At(lrn + 1, "start") ELSE At(pos.at, "inside"))
    /\ pc' = [pc EXCEPT ![t] = "delayed_read"]
    /\ UNCHANGED <<log, disk, log_mutex, file_mutex, fn, log_LRN, prev_LRN, last_LRN,
                   writes_at, applied>>

\* fread of the paths, which become the update's arguments.  delayed_unlink
\* leaves the second string unread.
CellRead == IF pos.at < Len(log) /\ pos.place = "start" THEN log[pos.at + 1] ELSE Junk

\* Seeded fault: the loop over the updates does not advance.
delayed_read_again(t) ==
    /\ pc[t] = "delayed_read"
    /\ pos' = At(pos.at + 1, pos.place)
    /\ Races(t)
    /\ pc' = [pc EXCEPT ![t] = "delayed_seek"]
    /\ UNCHANGED <<log, disk, log_mutex, file_mutex, fn, log_LRN, prev_LRN, last_LRN,
                   writes_at, applied>>

delayed_read(t) ==
    /\ pc[t] = "delayed_read"
    /\ applied' = [applied EXCEPT ![t] = Append(@, CellRead)]
    /\ pos' = IF Head(writes_at[t]).type = "UNLINK" THEN At(pos.at, "inside")
              ELSE At(pos.at + 1, pos.place)
    /\ Races(t)
    /\ writes_at' = [writes_at EXCEPT ![t] = Tail(@)]
    /\ file_mutex' = IF Len(writes_at[t]) = 1 THEN NoTxn ELSE file_mutex
    /\ pc' = [pc EXCEPT ![t] = IF Len(writes_at[t]) = 1 THEN "finish" ELSE "delayed_seek"]
    /\ UNCHANGED <<log, disk, log_mutex, fn, log_LRN, prev_LRN, last_LRN>>

\* get_prev_log_LRN and txn_delete, then log_txn_end.
txn_delete(t) ==
    /\ pc[t] = "finish"
    /\ prev_LRN' = [prev_LRN EXCEPT ![t] = last_LRN[t]]
    /\ last_LRN' = [last_LRN EXCEPT ![t] = NoNode]
    /\ CallLog(t, "TXN_END")
    /\ UNCHANGED <<logVars, log_mutex, file_mutex, log_LRN, writes_at, applied, raced>>

-----------------------------------------------------------------------------
LogCall(t) ==
    \/ LogLock(t) \/ extract_record_no(t) \/ SeekPrev(t) \/ LinkPrev(t) \/ LinkFails(t)
    \/ SeekEnd(t) \/ WriteHead(t) \/ WriteBody(t) \/ FlushAndReturn(t)

Release(t) == release_locks(t) \/ delayed_seek(t) \/ delayed_read(t) \/ txn_delete(t)

Client(t) == on_update(t) \/ on_txn_commit(t) \/ on_txn_abort(t)

Finished ==
    /\ \A t \in Txns : pc[t] = "done" \/ (t = Backup /\ ~BackupRuns)
    /\ UNCHANGED vars

Next ==
    \/ \E t \in Txns : on_txn_beg(t) \/ Client(t) \/ LogCall(t) \/ Release(t)
    \/ BackupOver
    \/ Finished

Spec == Init /\ [][Next]_vars

\* Threads run, and a client that has begun goes on.
FairSpec ==
    /\ Spec
    /\ \A t \in Txns : WF_vars(LogCall(t) \/ Release(t)) /\ WF_vars(Client(t))
    /\ WF_vars(BackupOver)
-----------------------------------------------------------------------------
(***************************************************************************)
(* What the log promises.  raced says that a step used the stream while    *)
(* another thread's sequence of steps relied on its position.              *)
(***************************************************************************)
Offsets == 0..Len(log) - 1

HeadsOf(t) == {o \in Offsets : log[o + 1].kind = "head" /\ log[o + 1].txn = t}

Has(t, type) == \E o \in HeadsOf(t) : log[o + 1].type = type

RecordsWhole ==
    \A o \in Offsets :
        LET c == log[o + 1]
        IN  IF o % 2 = 0 THEN c.kind = "head" /\ c.lrn = o
            ELSE c.kind = "body" /\ c.lrn = o - 1 /\ c.txn = log[o].txn

\* Between two log calls the log is a sequence of whole records, each under its
\* own number, as long as no read of a delayed update came in between.
WholeRecords == ~raced /\ log_mutex = NoTxn => RecordsWhole

\* prev_LRN and next_LRN lead through the records of a transaction, all of them
\* and in the order of the log, from TXN_BEG to the newest one.
ChainIntact ==
    ~raced /\ log_mutex = NoTxn => \A t \in Txns : \A o \in HeadsOf(t) :
        LET before == {p \in HeadsOf(t) : p < o}
            after == {p \in HeadsOf(t) : p > o}
            c == log[o + 1]
        IN  /\ IF before = {} THEN c.prev = None /\ c.type = "TXN_BEG"
               ELSE c.prev \in before /\ \A p \in before : p <= c.prev
            /\ IF after = {} THEN c.next = None
               ELSE c.next \in after /\ \A p \in after : c.next <= p

\* The log call of t failed: the thread went on with log_mutex.
LogFailed(t) == log_mutex = t /\ pc[t] \in {"run", "release", "delayed_seek", "delayed_read",
                                           "finish", "lock"}

\* What fflush has brought to the file.
Durable == {disk[j] : j \in 1..Len(disk)}

CommitDurable(t) == \E c \in Durable : c.kind = "head" /\ c.txn = t /\ c.type = "TXN_COMMIT"

\* release_locks_on_success: "FOR DURABILITY BEFORE WRITING IN PLACE": when an
\* update is applied, the file has it, and the commit record unless log_txn_commit
\* failed.
WriteAhead ==
    ~raced => \A t \in Txns :
        /\ \A i \in 1..Len(applied[t]) : applied[t][i] \in Durable
        /\ applied[t] # <<>> => CommitDurable(t) \/ LogFailed(t)

UpdatesOf(t) == {o \in HeadsOf(t) : log[o + 1].type \in UpdateTypes}

\* A transaction that committed has applied each update of a directory once, in
\* the order it logged them, and one that aborted none.
AllOrNothing ==
    ~raced => \A t \in Txns :
        /\ \A i, j \in 1..Len(applied[t]) : i < j => applied[t][i].lrn < applied[t][j].lrn
        /\ {applied[t][i] : i \in 1..Len(applied[t])} \subseteq {BodyCell(o, t) : o \in UpdatesOf(t)}
        /\ pc[t] = "done" => Len(applied[t]) =
              IF Has(t, "TXN_COMMIT") THEN Cardinality(UpdatesOf(t)) ELSE 0

\* Every transaction comes to its TXN_END, whatever is in the log.
EveryTxnLogsItsEnd == \A t \in Txns : pc[t] # "idle" ~> pc[t] = "done"
=============================================================================
