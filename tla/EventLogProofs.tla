---------------------------- MODULE EventLogProofs ----------------------------
(***************************************************************************)
(* Proofs about EventLog, for every set of transactions, every number of   *)
(* updates and every width of an int.                                      *)
(***************************************************************************)
EXTENDS EventLog, FiniteSetTheorems, TLAPS

HeadCells == [kind : {"head"}, lrn : Int, txn : Txns, prev : Int, next : Int, type : RecordTypes]

\* A release loop in its updates has one left.
UpdatesLeft ==
    \A t \in Txns : pc[t] \in {"delayed_seek", "delayed_read"} => writes_at[t] # <<>>

-----------------------------------------------------------------------------
(***************************************************************************)
(* Types.                                                                  *)
(***************************************************************************)

\* What the two kinds of fwrite leave is a log, no shorter than before.
LEMMA PutCellType ==
    ASSUME NEW s \in Seq(Cells), NEW p \in [at : Nat, place : {"start", "next", "inside"}],
           NEW c \in Cells
    PROVE  /\ PutCell(s, p, c) \in Seq(Cells)
           /\ Len(PutCell(s, p, c)) = IF p.at >= Len(s) THEN Len(s) + 1 ELSE Len(s)
<1>1. Junk \in Cells
  BY DEF Cells
<1>2. (IF p.place = "start" THEN c ELSE Junk) \in Cells
  BY <1>1
<1>3. Len(s) \in Nat /\ p.at \in Nat
  OBVIOUS
<1>4. CASE p.at >= Len(s)
  BY <1>2, <1>4 DEF PutCell
<1>5. CASE ~(p.at >= Len(s))
  <2>1. p.at + 1 \in 1..Len(s)
    BY <1>3, <1>5
  <2> QED BY <1>2, <1>5, <2>1 DEF PutCell
<1> QED BY <1>4, <1>5

\* A link leaves a log, no shorter than before.
LEMMA PutNextType ==
    ASSUME NEW s \in Seq(Cells), NEW p \in [at : Nat, place : {"start", "next", "inside"}],
           NEW lrn \in Int
    PROVE  /\ PutNext(s, p, lrn) \in Seq(Cells)
           /\ Len(PutNext(s, p, lrn)) = IF p.at >= Len(s) THEN Len(s) + 1 ELSE Len(s)
<1>1. Junk \in Cells
  BY DEF Cells
<1>2. Len(s) \in Nat /\ p.at \in Nat
  OBVIOUS
<1>3. CASE p.at >= Len(s)
  BY <1>1, <1>3 DEF PutNext
<1>4. CASE ~(p.at >= Len(s))
  <2> DEFINE c == s[p.at + 1]
             d == IF p.place = "next" /\ c.kind = "head" THEN [c EXCEPT !.next = lrn] ELSE Junk
  <2>1. p.at + 1 \in 1..Len(s)
    BY <1>2, <1>4
  <2>2. c \in Cells
    BY <2>1
  <2>3. d \in Cells
    <3>1. CASE p.place = "next" /\ c.kind = "head"
      <4>1. c \in HeadCells
        BY <2>2, <3>1 DEF Cells, HeadCells, Junk
      <4>2. [c EXCEPT !.next = lrn] \in HeadCells
        BY <4>1 DEF HeadCells
      <4> QED BY <3>1, <4>2 DEF HeadCells, Cells
    <3>2. CASE ~(p.place = "next" /\ c.kind = "head")
      BY <1>1, <3>2
    <3> QED BY <3>1, <3>2
  <2>4. PutNext(s, p, lrn) = [s EXCEPT ![p.at + 1] = d]
    BY <1>4 DEF PutNext
  <2> QED BY <1>4, <2>1, <2>3, <2>4
<1> QED BY <1>3, <1>4

\* An int is a number, whatever the long was.
LEMMA ToIntType == ASSUME LogAssumption, NEW n \in Int PROVE ToInt(n) \in Int
<1>1. 2 * (IntMax + 1) \in Int /\ 2 * (IntMax + 1) > 0
  BY DEF LogAssumption
<1>2. (n + IntMax + 1) % (2 * (IntMax + 1)) \in Int
  BY <1>1 DEF LogAssumption
<1> QED BY <1>2 DEF ToInt, LogAssumption

\* An update is noted behind the others of its directory.
LEMMA AppendType == ASSUME NEW S, NEW s \in Seq(S), NEW e \in S PROVE Append(s, e) \in Seq(S)
OBVIOUS

\* A loop over the updates takes the first.
LEMMA HeadTail ==
    ASSUME NEW S, NEW s \in Seq(S), s # <<>>
    PROVE  /\ Head(s) \in S /\ Tail(s) \in Seq(S)
           /\ Len(s) # 1 => Tail(s) # <<>>
<1>1. Head(s) \in S /\ Tail(s) \in Seq(S) /\ Len(Tail(s)) = Len(s) - 1 /\ Len(s) \in Nat
  OBVIOUS
<1> SUFFICES ASSUME NEW u, u = Tail(s), Len(s) # 1 PROVE u # <<>>
  BY <1>1
<1>2. Len(u) # 0
  BY <1>1
<1>3. Len(<<>>) = 0
  OBVIOUS
<1> QED BY <1>2, <1>3, Zenon

\* A log_* function returns to its caller.
LEMMA ReturnTypes ==
    ASSUME LogAssumption, TypeOK, UpdatesLeft, NEW t \in Txns, NEW ret \in Int, Return(t, ret),
           pc[t] \notin {"delayed_seek", "delayed_read"}
    PROVE  /\ pc' \in [Txns -> PC]
           /\ last_LRN' \in [Txns -> Int]
           /\ writes_at' \in [Txns -> Seq([lrn : Int, type : UpdateTypes])]
           /\ UpdatesLeft'
<1>1. /\ pc \in [Txns -> PC] /\ last_LRN \in [Txns -> Int] /\ fn \in [Txns -> RecordTypes]
      /\ writes_at \in [Txns -> Seq([lrn : Int, type : UpdateTypes])]
  BY DEF TypeOK
<1>2. PICK q \in {"release", "done", "run"} : pc' = [pc EXCEPT ![t] = q]
  BY DEF Return
<1>3. last_LRN' \in [Txns -> Int]
  <2>1. (IF fn[t] = "TXN_BEG" THEN ToInt(ret) ELSE last_LRN[t]) \in Int
    BY <1>1, ToIntType
  <2> QED BY <1>1, <2>1 DEF Return
<1>4. writes_at' \in [Txns -> Seq([lrn : Int, type : UpdateTypes])]
  <2>1. writes_at[t] \in Seq([lrn : Int, type : UpdateTypes])
    BY <1>1
  <2>2. fn[t] \in UpdateTypes => [lrn |-> ret, type |-> fn[t]] \in [lrn : Int, type : UpdateTypes]
    OBVIOUS
  <2> DEFINE noted == IF fn[t] \in UpdateTypes
                      THEN Append(writes_at[t], [lrn |-> ret, type |-> fn[t]])
                      ELSE writes_at[t]
  <2>3. fn[t] \in UpdateTypes =>
           Append(writes_at[t], [lrn |-> ret, type |-> fn[t]]) \in Seq([lrn : Int, type : UpdateTypes])
    BY <2>1, <2>2, AppendType
  <2>4. noted \in Seq([lrn : Int, type : UpdateTypes])
    BY <2>1, <2>3
  <2>5. writes_at' = [writes_at EXCEPT ![t] = noted]
    BY DEF Return
  <2> HIDE DEF noted
  <2> QED BY <1>1, <2>5, <2>4
<1>5. pc' \in [Txns -> PC]
  BY <1>1, <1>2 DEF PC
<1>6. \A u \in Txns : u # t => writes_at'[u] = writes_at[u] /\ pc'[u] = pc[u]
  BY <1>1, <1>2 DEF Return
<1>7. pc'[t] \notin {"delayed_seek", "delayed_read"}
  BY <1>1, <1>2
<1> QED BY <1>3, <1>4, <1>5, <1>6, <1>7 DEF UpdatesLeft

\* The thread of t moves on, and not in its release loop.
LEMMA MoveTypes ==
    ASSUME TypeOK, UpdatesLeft, NEW t \in Txns,
           NEW q \in PC \ {"delayed_seek", "delayed_read"}, pc' = [pc EXCEPT ![t] = q],
           \A u \in Txns : u # t => writes_at'[u] = writes_at[u]
    PROVE  pc' \in [Txns -> PC] /\ UpdatesLeft'
BY DEF TypeOK, UpdatesLeft

\* The log_* functions.
LEMMA LogCallTypes ==
    ASSUME LogAssumption, TypeOK, UpdatesLeft, NEW t \in Txns, LogCall(t)
    PROVE  TypeOK' /\ UpdatesLeft'
<1>1. /\ Len(log) \in Nat /\ pos.at \in Nat /\ pos.place \in {"start", "next", "inside"}
      /\ log_LRN[t] \in Int /\ prev_LRN[t] \in Int /\ last_LRN[t] \in Int
      /\ fn[t] \in RecordTypes
  BY DEF TypeOK
<1>2. \A o \in Nat : \A place \in {"start", "next", "inside"} :
         At(o, place) \in [at : Nat, place : {"start", "next", "inside"}]
  BY DEF At
<1>3. Races(t) => raced' \in BOOLEAN
  BY DEF Races, TypeOK
<1>4. CASE LogLock(t)
  <2>1. pc' \in [Txns -> PC] /\ UpdatesLeft'
    BY <1>4, MoveTypes DEF LogLock, PC
  <2> QED BY <1>1, <1>2, <1>3, <1>4, <2>1 DEF LogLock, TypeOK, fseek, EndOfLog
<1>5. CASE extract_record_no(t)
  <2>1. PICK q \in {"seek_end", "seek_prev"} : pc' = [pc EXCEPT ![t] = q]
    BY <1>5 DEF extract_record_no
  <2>2. pc' \in [Txns -> PC] /\ UpdatesLeft'
    BY <1>5, <2>1, MoveTypes DEF extract_record_no, PC
  <2>3. log_LRN' \in [Txns -> Int]
    BY <1>1, <1>5 DEF extract_record_no, TypeOK
  <2> DEFINE prev == IF fn[t] \in {"TXN_BEG", "TXN_END"} THEN prev_LRN[t] ELSE last_LRN[t]
  <2>4. prev \in Int /\ prev_LRN' = [prev_LRN EXCEPT ![t] = prev]
    BY <1>1, <1>5 DEF extract_record_no
  <2> HIDE DEF prev
  <2>5. prev_LRN' \in [Txns -> Int]
    BY <2>4 DEF TypeOK
  <2>6. UNCHANGED <<log, pos, disk, log_mutex, file_mutex, fn, last_LRN, writes_at, applied, raced>>
    BY <1>5 DEF extract_record_no, logVars
  <2> QED BY <2>2, <2>3, <2>5, <2>6 DEF TypeOK
<1>6. CASE SeekPrev(t)
  <2>1. pc' \in [Txns -> PC] /\ UpdatesLeft'
    BY <1>6, MoveTypes DEF SeekPrev, PC
  <2>2. pos' \in [at : Nat, place : {"start", "next", "inside"}]
    <3>1. CASE prev_LRN[t] >= 0
      <4>1. prev_LRN[t] \in Nat
        BY <1>1, <3>1
      <4> QED BY <1>2, <1>6, <3>1, <4>1 DEF SeekPrev, fseek
    <3>2. CASE ~(prev_LRN[t] >= 0)
      BY <1>1, <1>2, <1>6, <3>2 DEF SeekPrev, fseek
    <3> QED BY <3>1, <3>2
  <2> QED BY <1>3, <1>6, <2>1, <2>2 DEF SeekPrev, TypeOK, fseek
<1>7. CASE LinkPrev(t)
  <2>1. pc' \in [Txns -> PC] /\ UpdatesLeft'
    BY <1>7, MoveTypes DEF LinkPrev, PC
  <2>2. log' \in Seq(Cells)
    BY <1>1, <1>7, PutNextType DEF LinkPrev, fwrite_next, TypeOK
  <2>3. pos' \in [at : Nat, place : {"start", "next", "inside"}] /\ raced' \in BOOLEAN
    BY <1>1, <1>2, <1>3, <1>7 DEF LinkPrev, fwrite_next
  <2>4. last_LRN' \in [Txns -> Int]
    BY <1>1, <1>7 DEF LinkPrev, TypeOK
  <2> QED BY <1>7, <2>1, <2>2, <2>3, <2>4 DEF LinkPrev, TypeOK
<1>8. CASE LinkFails(t)
  <2>1. -1 \in Int /\ pc[t] = "link" /\ Return(t, -1)
    BY <1>8 DEF LinkFails
  <2>2. /\ pc' \in [Txns -> PC] /\ last_LRN' \in [Txns -> Int] /\ UpdatesLeft'
        /\ writes_at' \in [Txns -> Seq([lrn : Int, type : UpdateTypes])]
    BY <2>1, ReturnTypes
  <2> QED BY <1>8, <2>2 DEF LinkFails, TypeOK, logVars
<1>9. CASE SeekEnd(t)
  <2>1. pc' \in [Txns -> PC] /\ UpdatesLeft'
    BY <1>9, MoveTypes DEF SeekEnd, PC
  <2> QED BY <1>1, <1>2, <1>3, <1>9, <2>1 DEF SeekEnd, TypeOK, fseek, EndOfLog
<1>10. CASE WriteHead(t)
  <2>1. pc' \in [Txns -> PC] /\ UpdatesLeft'
    BY <1>10, MoveTypes DEF WriteHead, PC
  <2>2. HeadCell(log_LRN[t], t, prev_LRN[t], fn[t]) \in Cells
    BY <1>1 DEF HeadCell, Cells, None
  <2>3. log' \in Seq(Cells)
    BY <1>10, <2>2, PutCellType DEF WriteHead, fwrite_cell, TypeOK
  <2>4. pos' \in [at : Nat, place : {"start", "next", "inside"}] /\ raced' \in BOOLEAN
    <3>1. pos.at + 1 \in Nat /\ pos' = At(pos.at + 1, pos.place) /\ Races(t)
      BY <1>1, <1>10 DEF WriteHead, fwrite_cell
    <3> QED BY <1>1, <1>2, <1>3, <3>1
  <2> QED BY <1>10, <2>1, <2>3, <2>4 DEF WriteHead, TypeOK
<1>11. CASE WriteBody(t)
  <2>1. pc' \in [Txns -> PC] /\ UpdatesLeft'
    BY <1>11, MoveTypes DEF WriteBody, PC
  <2>2. BodyCell(log_LRN[t], t) \in Cells
    BY <1>1 DEF BodyCell, Cells
  <2>3. log' \in Seq(Cells)
    BY <1>11, <2>2, PutCellType DEF WriteBody, fwrite_cell, TypeOK
  <2>4. pos' \in [at : Nat, place : {"start", "next", "inside"}] /\ raced' \in BOOLEAN
    <3>1. pos.at + 1 \in Nat /\ pos' = At(pos.at + 1, pos.place) /\ Races(t)
      BY <1>1, <1>11 DEF WriteBody, fwrite_cell
    <3> QED BY <1>1, <1>2, <1>3, <3>1
  <2> QED BY <1>11, <2>1, <2>3, <2>4 DEF WriteBody, TypeOK
<1>12. CASE FlushAndReturn(t)
  <2>1. pc[t] = "fflush" /\ Return(t, log_LRN[t])
    BY <1>12 DEF FlushAndReturn
  <2>2. /\ pc' \in [Txns -> PC] /\ last_LRN' \in [Txns -> Int] /\ UpdatesLeft'
        /\ writes_at' \in [Txns -> Seq([lrn : Int, type : UpdateTypes])]
    BY <1>1, <2>1, ReturnTypes
  <2> QED BY <1>12, <2>2 DEF FlushAndReturn, TypeOK
<1> QED BY <1>4, <1>5, <1>6, <1>7, <1>8, <1>9, <1>10, <1>11, <1>12 DEF LogCall

\* The handlers begin a call.
LEMMA ClientTypes ==
    ASSUME LogAssumption, TypeOK, UpdatesLeft, NEW t \in Txns, on_txn_beg(t) \/ Client(t)
    PROVE  TypeOK' /\ UpdatesLeft'
<1>1. PICK type \in RecordTypes : CallLog(t, type)
  BY DEF on_txn_beg, Client, on_update, on_txn_commit, on_txn_abort, RecordTypes,
         LogAssumption
<1>2. UNCHANGED <<log, pos, disk, log_mutex, file_mutex, log_LRN, prev_LRN, last_LRN,
                  writes_at, applied, raced>>
  BY DEF on_txn_beg, Client, on_update, on_txn_commit, on_txn_abort, logVars
<1>3. pc' \in [Txns -> PC] /\ UpdatesLeft'
  BY <1>1, <1>2, MoveTypes DEF CallLog, PC
<1>4. fn' \in [Txns -> RecordTypes]
  BY <1>1 DEF CallLog, TypeOK
<1> QED BY <1>2, <1>3, <1>4 DEF TypeOK

\* The release loops, with the delayed_* functions.
LEMMA ReleaseTypes ==
    ASSUME LogAssumption, TypeOK, UpdatesLeft, NEW t \in Txns, Release(t)
    PROVE  TypeOK' /\ UpdatesLeft'
<1> DEFINE Updates == Seq([lrn : Int, type : UpdateTypes])
<1>1. /\ Len(log) \in Nat /\ pos.at \in Nat /\ pos.place \in {"start", "next", "inside"}
      /\ pos.at + 1 \in Nat /\ pc \in [Txns -> PC] /\ writes_at \in [Txns -> Updates]
      /\ last_LRN[t] \in Int /\ prev_LRN \in [Txns -> Int] /\ last_LRN \in [Txns -> Int]
  <2>1. /\ Len(log) \in Nat /\ pos.at \in Nat /\ pos.place \in {"start", "next", "inside"}
        /\ pos.at + 1 \in Nat
    <3>1. log \in Seq(Cells) /\ pos \in [at : Nat, place : {"start", "next", "inside"}]
      BY Zenon DEF TypeOK
    <3> HIDE DEF Updates
    <3>2. Len(log) \in Nat
      BY <3>1
    <3>3. pos.at \in Nat /\ pos.place \in {"start", "next", "inside"}
      BY <3>1
    <3> QED BY <3>2, <3>3
  <2>2. /\ pc \in [Txns -> PC] /\ writes_at \in [Txns -> Updates] /\ last_LRN[t] \in Int
        /\ prev_LRN \in [Txns -> Int] /\ last_LRN \in [Txns -> Int]
    BY DEF TypeOK
  <2> QED BY <2>1, <2>2
<1> HIDE DEF Updates
<1>2. \A o \in Nat : \A place \in {"start", "next", "inside"} :
         At(o, place) \in [at : Nat, place : {"start", "next", "inside"}]
  BY DEF At
<1>3. Races(t) => raced' \in BOOLEAN
  BY DEF Races, TypeOK
<1>4. CASE release_locks(t)
  <2> DEFINE q == IF Applies(t) THEN "delayed_seek" ELSE "finish"
             w == IF Applies(t) THEN writes_at[t] ELSE <<>>
  <2>1. pc' = [pc EXCEPT ![t] = q] /\ writes_at' = [writes_at EXCEPT ![t] = w]
    BY <1>4 DEF release_locks
  <2>2. q \in PC /\ w \in Updates /\ (q \in {"delayed_seek", "delayed_read"} => w # <<>>)
    <3>1. <<>> \in Updates
      BY DEF Updates
    <3>2. writes_at[t] \in Updates
      BY <1>1
    <3> QED BY <3>1, <3>2 DEF PC, Applies
  <2> HIDE DEF q, w
  <2>3. pc' \in [Txns -> PC] /\ writes_at' \in [Txns -> Updates] /\ UpdatesLeft'
    BY <1>1, <2>1, <2>2 DEF UpdatesLeft
  <2>4. file_mutex' \in Txns \cup {NoTxn}
    BY <1>4 DEF release_locks
  <2> QED BY <1>4, <2>3, <2>4 DEF release_locks, TypeOK, Updates
<1>5. CASE delayed_seek(t)
  <2>1. writes_at[t] # <<>> /\ writes_at[t] \in Updates /\ pc' = [pc EXCEPT ![t] = "delayed_read"]
    BY <1>1, <1>5 DEF delayed_seek, UpdatesLeft
  <2>2. pc' \in [Txns -> PC] /\ UpdatesLeft'
    BY <1>1, <1>5, <2>1 DEF delayed_seek, PC, UpdatesLeft
  <2>3. PICK lrn \in Int : fseek(t, IF lrn >= 0 THEN At(lrn + 1, "start") ELSE At(pos.at, "inside"))
    <3>1. Head(writes_at[t]) \in [lrn : Int, type : UpdateTypes]
      BY <2>1, HeadTail DEF Updates
    <3>2. Head(writes_at[t]).lrn \in Int
      BY <3>1
    <3> QED BY <1>5, <3>2 DEF delayed_seek
  <2>4. pos' \in [at : Nat, place : {"start", "next", "inside"}] /\ raced' \in BOOLEAN
    <3>1. CASE lrn >= 0
      <4>1. lrn + 1 \in Nat
        BY <3>1
      <4> QED BY <1>2, <1>3, <2>3, <3>1, <4>1 DEF fseek
    <3>2. CASE ~(lrn >= 0)
      BY <1>1, <1>2, <1>3, <2>3, <3>2 DEF fseek
    <3> QED BY <3>1, <3>2
  <2> QED BY <1>5, <2>2, <2>4 DEF delayed_seek, TypeOK
<1>6. CASE delayed_read(t)
  <2>1. writes_at[t] # <<>> /\ writes_at[t] \in Updates
    BY <1>1, <1>6 DEF delayed_read, UpdatesLeft
  <2>2. Tail(writes_at[t]) \in Updates /\ (Len(writes_at[t]) # 1 => Tail(writes_at[t]) # <<>>)
    BY <2>1, HeadTail DEF Updates
  <2>3. writes_at' = [writes_at EXCEPT ![t] = Tail(writes_at[t])]
    BY <1>6 DEF delayed_read
  <2>4. PICK q \in {"finish", "delayed_seek"} :
           pc' = [pc EXCEPT ![t] = q] /\ (q = "delayed_seek" => Len(writes_at[t]) # 1)
    BY <1>6 DEF delayed_read
  <2>5. pc' \in [Txns -> PC] /\ writes_at' \in [Txns -> Updates] /\ UpdatesLeft'
    BY <1>1, <2>2, <2>3, <2>4 DEF UpdatesLeft, PC
  <2>6. CellRead \in Cells
    <3>1. Junk \in Cells
      BY DEF Cells
    <3>2. pos.at < Len(log) => log[pos.at + 1] \in Cells
      BY <1>1 DEF TypeOK
    <3> QED BY <3>1, <3>2 DEF CellRead
  <2>7. applied' \in [Txns -> Seq(Cells)]
    <3>1. Append(applied[t], CellRead) \in Seq(Cells)
      BY <2>6, AppendType DEF TypeOK
    <3>2. applied' = [applied EXCEPT ![t] = Append(applied[t], CellRead)]
      BY <1>6 DEF delayed_read
    <3> QED BY <3>1, <3>2 DEF TypeOK
  <2>8. pos' \in [at : Nat, place : {"start", "next", "inside"}] /\ raced' \in BOOLEAN
    <3>1. pos' = At(pos.at, "inside") \/ pos' = At(pos.at + 1, pos.place)
      BY <1>6 DEF delayed_read
    <3> QED BY <1>1, <1>2, <1>3, <1>6, <3>1 DEF delayed_read
  <2>9. file_mutex' \in Txns \cup {NoTxn}
    BY <1>6 DEF delayed_read, TypeOK
  <2> QED BY <1>6, <2>5, <2>7, <2>8, <2>9 DEF delayed_read, TypeOK, Updates
<1>7. CASE txn_delete(t)
  <2>1. pc' \in [Txns -> PC] /\ UpdatesLeft'
    BY <1>7, MoveTypes DEF txn_delete, CallLog, PC
  <2>2. fn' \in [Txns -> RecordTypes]
    BY <1>7 DEF txn_delete, CallLog, RecordTypes, TypeOK
  <2>3. prev_LRN' \in [Txns -> Int] /\ last_LRN' \in [Txns -> Int]
    BY <1>1, <1>7 DEF txn_delete, NoNode
  <2> QED BY <1>7, <2>1, <2>2, <2>3 DEF txn_delete, TypeOK, logVars
<1> QED BY <1>4, <1>5, <1>6, <1>7 DEF Release

\* Every variable of the event log keeps its type: no seek leaves the file at
\* its front, and no release loop runs past the updates it has.
THEOREM LogTypes == Spec => [](TypeOK /\ UpdatesLeft)
<1>1. Init => TypeOK /\ UpdatesLeft
  <2> SUFFICES ASSUME Init PROVE TypeOK /\ UpdatesLeft
    OBVIOUS
  <2>1. log \in Seq(Cells) /\ disk \in Seq(Cells)
    BY DEF Init
  <2>2. pos \in [at : Nat, place : {"start", "next", "inside"}]
    BY DEF Init, At
  <2>3. /\ log_LRN \in [Txns -> Int] /\ prev_LRN \in [Txns -> Int] /\ last_LRN \in [Txns -> Int]
        /\ pc \in [Txns -> PC] /\ fn \in [Txns -> RecordTypes]
    BY DEF Init, PC, RecordTypes, None, NoNode
  <2>4. <<>> \in Seq([lrn : Int, type : UpdateTypes]) /\ <<>> \in Seq(Cells)
    OBVIOUS
  <2>5. /\ writes_at \in [Txns -> Seq([lrn : Int, type : UpdateTypes])]
        /\ applied \in [Txns -> Seq(Cells)]
    BY <2>4 DEF Init
  <2> QED BY <2>1, <2>2, <2>3, <2>5 DEF Init, TypeOK, UpdatesLeft
<1>2. TypeOK /\ UpdatesLeft /\ [Next]_vars => TypeOK' /\ UpdatesLeft'
  <2> SUFFICES ASSUME TypeOK, UpdatesLeft, [Next]_vars PROVE TypeOK' /\ UpdatesLeft'
    OBVIOUS
  <2>1. CASE UNCHANGED vars
    BY <2>1 DEF vars, TypeOK, UpdatesLeft
  <2>2. CASE BackupOver
    <3>1. Backup \in Txns
      BY DEF Txns
    <3>2. pc' \in [Txns -> PC] /\ UpdatesLeft'
      BY <2>2, <3>1, MoveTypes DEF BackupOver, PC
    <3> QED BY <2>2, <3>2 DEF BackupOver, TypeOK, logVars
  <2>3. ASSUME NEW t \in Txns, on_txn_beg(t) \/ Client(t) \/ LogCall(t) \/ Release(t)
        PROVE  TypeOK' /\ UpdatesLeft'
    BY <2>3, LogAssumption, ClientTypes, LogCallTypes, ReleaseTypes
  <2> QED BY <2>1, <2>2, <2>3 DEF Next, Finished
<1> QED BY <1>1, <1>2, PTL DEF Spec

-----------------------------------------------------------------------------
(***************************************************************************)
(* Records.  A thread between extract_record_no and its last fwrite holds  *)
(* log_mutex; record numbers that fit an int come back as they were.       *)
(***************************************************************************)
Writing == {"ftell", "seek_prev", "link", "seek_end", "head", "body"}

Locked == \A t \in Txns : pc[t] \in Writing => log_mutex = t

Sound == ~raced /\ Len(log) <= IntMax + 1

\* The offset of a head cell.
Rec(o) == o \in Nat /\ o % 2 = 0 /\ o < Len(log)

\* A lone head is that of the thread about to write its body.
Parity ==
    /\ \A t \in Txns : pc[t] = "body" => Len(log) % 2 = 1
    /\ (\A t \in Txns : pc[t] # "body") => Len(log) % 2 = 0

\* Where the stream is, while nobody else used it.
Placed(t) ==
    /\ pc[t] = "ftell" => pos = EndOfLog
    /\ pc[t] \in {"seek_prev", "link", "seek_end", "head"} => log_LRN[t] = Len(log)
    /\ pc[t] = "link" => pos = At(prev_LRN[t], "next")
    /\ pc[t] = "head" => pos = EndOfLog
    /\ pc[t] = "body" => pos = EndOfLog /\ log_LRN[t] = Len(log) - 1 /\ log[Len(log)].txn = t

\* Which record the next one is linked to.
Linked(t) ==
    /\ pc[t] \in {"run", "release", "delayed_seek", "delayed_read", "finish"} => Rec(last_LRN[t])
    /\ pc[t] \in {"lock", "ftell", "seek_prev", "link", "fflush"}
          /\ fn[t] \notin {"TXN_BEG", "TXN_END"} => Rec(last_LRN[t])
    /\ pc[t] \in {"lock", "ftell"} /\ fn[t] = "TXN_END" => Rec(prev_LRN[t])
    /\ pc[t] \in {"seek_prev", "link"} => fn[t] # "TXN_BEG" /\ Rec(prev_LRN[t])
    /\ pc[t] \in {"seek_end", "head", "body"} /\ fn[t] \notin {"TXN_BEG", "TXN_END"}
          => last_LRN[t] = log_LRN[t]
    /\ pc[t] = "fflush" /\ fn[t] = "TXN_BEG" => Rec(log_LRN[t])

Records == RecordsWhole /\ Parity /\ \A t \in Txns : Placed(t) /\ Linked(t)

\* A record number that fits is not changed by the conversion.
LEMMA ToIntFits ==
    ASSUME LogAssumption, NEW n \in Nat, n <= IntMax
    PROVE  ToInt(n) = n
<1> DEFINE b == 2 * (IntMax + 1)
           a == n + IntMax + 1
<1>1. a \in Nat /\ b \in Nat /\ a < b /\ b > 0 /\ a - (IntMax + 1) = n
  BY DEF LogAssumption
<1> HIDE DEF a, b
<1>2. a % b = a
  BY <1>1
<1>3. ToInt(n) = (a % b) - (IntMax + 1)
  BY DEF ToInt, a, b
<1> QED BY <1>1, <1>2, <1>3

\* What a step of t leaves of the others' positions and records.
LEMMA OthersKept ==
    ASSUME TypeOK, TypeOK', Locked, Records, ~raced', NEW t \in Txns,
           \A u \in Txns : u # t => /\ pc'[u] = pc[u] /\ fn'[u] = fn[u]
                                    /\ log_LRN'[u] = log_LRN[u] /\ prev_LRN'[u] = prev_LRN[u]
                                    /\ last_LRN'[u] = last_LRN[u],
           Len(log') >= Len(log), log' = log \/ pc[t] \in Writing, pos' = pos \/ Races(t)
    PROVE  \A u \in Txns : u # t => Placed(u)' /\ Linked(u)'
<1> SUFFICES ASSUME NEW u \in Txns, u # t PROVE Placed(u)' /\ Linked(u)'
  OBVIOUS
<1>1. Placed(u) /\ Linked(u)
  BY DEF Records
<1>2. Len(log) \in Nat /\ Len(log') \in Nat
  <2>1. log \in Seq(Cells) /\ log' \in Seq(Cells)
    BY DEF TypeOK
  <2> QED BY <2>1
<1>3. /\ Rec(last_LRN[u]) => Rec(last_LRN[u])'
      /\ Rec(prev_LRN[u]) => Rec(prev_LRN[u])'
      /\ Rec(log_LRN[u]) => Rec(log_LRN[u])'
  BY <1>2 DEF Rec
<1>4. Linked(u)'
  BY <1>1, <1>3 DEF Linked
<1>5. pc[u] \in Writing => log' = log
  BY DEF Locked
<1>6. InSequence(u) => pos' = pos
  BY DEF Races
<1>7. Placed(u)'
  <2>1. CASE pc[u] \notin Writing
    BY <2>1 DEF Placed, Writing
  <2>2. CASE pc[u] \in Writing
    <3>1. log' = log
      BY <1>5, <2>2
    <3>2. pc[u] \in {"ftell", "link", "head", "body"} => pos' = pos
      BY <1>6 DEF InSequence
    <3> QED BY <1>1, <3>1, <3>2 DEF Placed, EndOfLog
  <2> QED BY <2>1, <2>2
<1> QED BY <1>4, <1>7

\* Steps that write nothing keep the records.
LEMMA RecordsKept ==
    ASSUME TypeOK, TypeOK', Locked, Records, ~raced', NEW t \in Txns, log' = log,
           \A u \in Txns : u # t => /\ pc'[u] = pc[u] /\ fn'[u] = fn[u]
                                    /\ log_LRN'[u] = log_LRN[u] /\ prev_LRN'[u] = prev_LRN[u]
                                    /\ last_LRN'[u] = last_LRN[u],
           pos' = pos \/ Races(t), pc[t] # "body", pc'[t] # "body", Placed(t)', Linked(t)'
    PROVE  Records'
<1>1. Len(log) \in Nat /\ Len(log') = Len(log) /\ Len(log') >= Len(log)
  BY DEF TypeOK
<1>2. \A u \in Txns : u # t => Placed(u)' /\ Linked(u)'
  BY <1>1, OthersKept
<1>3. RecordsWhole'
  BY DEF Records, RecordsWhole, Offsets
<1>4. Parity'
  BY DEF Records, Parity
<1> QED BY <1>2, <1>3, <1>4 DEF Records

\* log_mutex is held from extract_record_no to the last fwrite.
LEMMA LogCallLocked ==
    ASSUME LogAssumption, TypeOK, Locked, NEW t \in Txns, LogCall(t)
    PROVE  Locked'
<1>1. pc \in [Txns -> PC] /\ NoTxn \notin Txns
  <2>1. \A u \in Txns : u \in Nat
    BY DEF LogAssumption, Txns, Backup
  <2>2. NoTxn \notin Nat
    BY DEF NoTxn
  <2>3. pc \in [Txns -> PC]
    BY DEF TypeOK
  <2> QED BY <2>1, <2>2, <2>3
<1>2. CASE LogLock(t)
  <2>1. \A u \in Txns : pc[u] \notin Writing
    BY <1>1, <1>2 DEF LogLock, Locked
  <2> QED BY <1>1, <1>2, <2>1 DEF LogLock, Locked
<1>3. CASE WriteBody(t)
  <2>1. \A u \in Txns : u # t => pc[u] \notin Writing
    BY <1>3 DEF WriteBody, Locked, Writing
  <2> QED BY <1>1, <1>3, <2>1 DEF WriteBody, Locked, Writing
<1>4. CASE extract_record_no(t) \/ SeekPrev(t) \/ LinkPrev(t) \/ SeekEnd(t) \/ WriteHead(t)
  <2>1. pc[t] \in Writing /\ log_mutex' = log_mutex
    BY <1>4 DEF extract_record_no, SeekPrev, LinkPrev, SeekEnd, WriteHead, Writing
  <2>2. \A u \in Txns : u # t => pc'[u] = pc[u]
    BY <1>1, <1>4 DEF extract_record_no, SeekPrev, LinkPrev, SeekEnd, WriteHead
  <2> QED BY <2>1, <2>2 DEF Locked
<1>5. CASE LinkFails(t) \/ FlushAndReturn(t)
  <2>1. log_mutex' = log_mutex
    BY <1>5 DEF LinkFails, FlushAndReturn
  <2>2. PICK q \in {"release", "done", "run"} : pc' = [pc EXCEPT ![t] = q]
    BY <1>5 DEF LinkFails, FlushAndReturn, Return
  <2> QED BY <1>1, <2>1, <2>2 DEF Locked, Writing
<1> QED BY <1>2, <1>3, <1>4, <1>5 DEF LogCall

\* The others take no part in it.
LEMMA OtherLocked ==
    ASSUME TypeOK, Locked, NEW t \in Txns, on_txn_beg(t) \/ Client(t) \/ Release(t)
    PROVE  Locked'
<1>1. log_mutex' = log_mutex
  BY DEF on_txn_beg, Client, Release, on_update, on_txn_commit, on_txn_abort, release_locks,
         delayed_seek, delayed_read, txn_delete
<1>2. PICK q \in PC \ Writing : pc' = [pc EXCEPT ![t] = q]
  <2>1. CASE on_txn_beg(t) \/ Client(t) \/ txn_delete(t)
    BY <2>1 DEF on_txn_beg, Client, on_update, on_txn_commit, on_txn_abort, txn_delete,
                CallLog, PC, Writing
  <2>2. CASE release_locks(t)
    BY <2>2 DEF release_locks, PC, Writing
  <2>3. CASE delayed_seek(t) \/ delayed_read(t)
    BY <2>3 DEF delayed_seek, delayed_read, PC, Writing
  <2> QED BY <2>1, <2>2, <2>3 DEF Release
<1> QED BY <1>1, <1>2 DEF Locked, TypeOK

\* The seeks of the log_* functions.
LEMMA SeekRecords ==
    ASSUME TypeOK, TypeOK', Locked, Records, ~raced', NEW t \in Txns,
           LogLock(t) \/ extract_record_no(t) \/ SeekPrev(t) \/ SeekEnd(t)
    PROVE  Records'
<1>1. /\ pc \in [Txns -> PC] /\ log_LRN \in [Txns -> Int] /\ prev_LRN \in [Txns -> Int]
      /\ log' = log
  BY DEF TypeOK, LogLock, extract_record_no, SeekPrev, SeekEnd, logVars
<1>2. Placed(t) /\ Linked(t)
  BY DEF Records
<1>3. CASE LogLock(t)
  <2>1. UNCHANGED <<log, fn, log_LRN, prev_LRN, last_LRN>> /\ pc[t] = "lock" /\ pc'[t] = "ftell"
    BY <1>1, <1>3 DEF LogLock
  <2>2. \A u \in Txns : u # t => pc'[u] = pc[u]
    BY <1>1, <1>3 DEF LogLock
  <2>3. pos' = EndOfLog /\ Races(t)
    BY <1>3 DEF LogLock, fseek
  <2>4. Placed(t)'
    BY <2>1, <2>3 DEF Placed, EndOfLog
  <2>5. Linked(t)'
    BY <1>2, <2>1 DEF Linked, Rec
  <2> QED BY <2>1, <2>2, <2>3, <2>4, <2>5, RecordsKept
<1>4. CASE extract_record_no(t)
  <2>1. /\ UNCHANGED <<log, pos, fn, last_LRN>> /\ pc[t] = "ftell"
        /\ pc'[t] = IF fn[t] = "TXN_BEG" THEN "seek_end" ELSE "seek_prev"
        /\ log_LRN'[t] = pos.at
        /\ prev_LRN'[t] = IF fn[t] \in {"TXN_BEG", "TXN_END"} THEN prev_LRN[t] ELSE last_LRN[t]
    BY <1>1, <1>4 DEF extract_record_no, logVars
  <2>2. \A u \in Txns : u # t => /\ pc'[u] = pc[u] /\ log_LRN'[u] = log_LRN[u]
                                 /\ prev_LRN'[u] = prev_LRN[u]
    BY <1>1, <1>4 DEF extract_record_no
  <2>3. Placed(t)'
    <3>1. pos.at = Len(log)
      BY <1>2, <2>1 DEF Placed, EndOfLog, At
    <3> QED BY <2>1, <3>1 DEF Placed
  <2>4. Linked(t)'
    <3>1. CASE fn[t] = "TXN_BEG"
      BY <2>1, <3>1 DEF Linked
    <3>2. CASE fn[t] = "TXN_END"
      BY <1>2, <2>1, <3>2 DEF Linked, Rec
    <3>3. CASE fn[t] \notin {"TXN_BEG", "TXN_END"}
      BY <1>2, <2>1, <3>3 DEF Linked, Rec
    <3> QED BY <3>1, <3>2, <3>3
  <2> QED BY <2>1, <2>2, <2>3, <2>4, RecordsKept
<1>5. CASE SeekPrev(t)
  <2>1. /\ UNCHANGED <<log, fn, log_LRN, prev_LRN, last_LRN>> /\ pc[t] = "seek_prev"
        /\ pc'[t] = "link" /\ Races(t)
    BY <1>1, <1>5 DEF SeekPrev, fseek
  <2>2. \A u \in Txns : u # t => pc'[u] = pc[u]
    BY <1>1, <1>5 DEF SeekPrev
  <2>3. pos' = At(prev_LRN[t], "next")
    <3>1. prev_LRN[t] >= 0
      BY <1>2, <2>1 DEF Linked, Rec
    <3> QED BY <1>5, <3>1 DEF SeekPrev, fseek
  <2>4. Placed(t)'
    BY <1>2, <2>1, <2>3 DEF Placed
  <2>5. Linked(t)'
    BY <1>2, <2>1 DEF Linked, Rec
  <2> QED BY <2>1, <2>2, <2>4, <2>5, RecordsKept
<1>6. CASE SeekEnd(t)
  <2>1. /\ UNCHANGED <<log, fn, log_LRN, prev_LRN, last_LRN>> /\ pc[t] = "seek_end"
        /\ pc'[t] = "head" /\ Races(t) /\ pos' = EndOfLog
    BY <1>1, <1>6 DEF SeekEnd, fseek
  <2>2. \A u \in Txns : u # t => pc'[u] = pc[u]
    BY <1>1, <1>6 DEF SeekEnd
  <2>3. Placed(t)'
    BY <1>2, <2>1 DEF Placed, EndOfLog
  <2>4. Linked(t)'
    BY <1>2, <2>1 DEF Linked
  <2> QED BY <2>1, <2>2, <2>3, <2>4, RecordsKept
<1> QED BY <1>3, <1>4, <1>5, <1>6

\* The returns of the log_* functions.
LEMMA ReturnRecords ==
    ASSUME LogAssumption, TypeOK, TypeOK', Locked, Records, Sound', NEW t \in Txns,
           FlushAndReturn(t) \/ LinkFails(t)
    PROVE  Records'
<1>1. /\ pc \in [Txns -> PC] /\ last_LRN \in [Txns -> Int] /\ log \in Seq(Cells)
  BY DEF TypeOK
<1>2. Placed(t) /\ Linked(t) /\ ~raced'
  BY DEF Records, Sound
<1>3. UNCHANGED <<log, pos, fn, log_LRN, prev_LRN>> /\ pc[t] \in {"fflush", "link"}
  BY DEF FlushAndReturn, LinkFails, logVars
<1>4. PICK ret \in Int : Return(t, ret) /\ (ret = log_LRN[t] \/ pc[t] = "link")
                         /\ (pc[t] = "fflush" => ret = log_LRN[t])
  <2>1. log_LRN[t] \in Int /\ -1 \in Int
    BY DEF TypeOK
  <2> QED BY <2>1 DEF FlushAndReturn, LinkFails
<1>5. PICK q \in {"release", "done", "run"} :
         pc' = [pc EXCEPT ![t] = q] /\ (q = "done" <=> fn[t] = "TXN_END")
  BY <1>4 DEF Return
<1>6. last_LRN' = [last_LRN EXCEPT ![t] = IF fn[t] = "TXN_BEG" THEN ToInt(ret) ELSE last_LRN[t]]
  BY <1>4 DEF Return
<1>7. \A u \in Txns : u # t => pc'[u] = pc[u] /\ last_LRN'[u] = last_LRN[u]
  BY <1>1, <1>5, <1>6
<1>8. pc'[t] = q /\ last_LRN'[t] = IF fn[t] = "TXN_BEG" THEN ToInt(ret) ELSE last_LRN[t]
  BY <1>1, <1>5, <1>6
<1>9. q # "done" => Rec(last_LRN'[t])
  <2>1. CASE fn[t] = "TXN_BEG"
    <3>1. Rec(log_LRN[t]) /\ ret = log_LRN[t]
      BY <1>2, <1>3, <1>4, <2>1 DEF Linked
    <3>2. Len(log) \in Nat /\ Len(log) <= IntMax + 1
      BY <1>1, <1>3 DEF Sound
    <3>3. ret \in Nat /\ ret <= IntMax
      BY <3>1, <3>2 DEF Rec, LogAssumption
    <3>4. ToInt(ret) = ret
      BY <3>3, ToIntFits
    <3> QED BY <1>8, <2>1, <3>1, <3>4
  <2>2. CASE fn[t] \notin {"TXN_BEG", "TXN_END"}
    BY <1>2, <1>3, <1>8, <2>2 DEF Linked
  <2> QED BY <1>5, <2>1, <2>2
<1>10. Placed(t)'
  BY <1>8 DEF Placed
<1>11. Linked(t)'
  <2>1. q # "done" => Rec(last_LRN[t])'
    BY <1>3, <1>9 DEF Rec
  <2> QED BY <1>8, <2>1 DEF Linked
<1> QED BY <1>2, <1>3, <1>7, <1>8, <1>10, <1>11, RecordsKept

\* next_LRN goes into the head cell of the transaction's previous record, and
\* changes nothing else.
LEMMA LinkShape ==
    ASSUME TypeOK, Records, NEW t \in Txns, LinkPrev(t), NEW p, p = prev_LRN[t]
    PROVE  /\ p \in Nat /\ p % 2 = 0 /\ p + 1 \in 1..Len(log) /\ Len(log') = Len(log)
           /\ \A i \in 1..Len(log) : i # p + 1 => log'[i] = log[i]
           /\ log[p + 1] \in HeadCells
           /\ log'[p + 1] = [log[p + 1] EXCEPT !.next = log_LRN[t]]
<1>1. log \in Seq(Cells) /\ log_LRN[t] \in Int /\ Len(log) \in Nat
  <2>1. log \in Seq(Cells) /\ log_LRN[t] \in Int
    BY DEF TypeOK
  <2> QED BY <2>1
<1>2. Placed(t) /\ Linked(t) /\ RecordsWhole
  BY DEF Records
<1>3. pc[t] = "link" /\ log' = PutNext(log, pos, log_LRN[t])
  BY DEF LinkPrev, fwrite_next
<1>4. p \in Nat /\ p % 2 = 0 /\ p < Len(log) /\ pos = At(p, "next")
  BY <1>2, <1>3 DEF Placed, Linked, Rec
<1>5. pos.at = p /\ pos.place = "next"
  BY <1>4 DEF At
<1>6. p + 1 \in 1..Len(log) /\ ~(p >= Len(log)) /\ p \in Offsets
  <2>1. p \in Nat /\ p < Len(log) /\ Len(log) \in Nat
    BY <1>1, <1>4
  <2> QED BY <2>1 DEF Offsets
<1>7. log[p + 1].kind = "head"
  BY <1>2, <1>4, <1>6 DEF RecordsWhole
<1>8. log' = [log EXCEPT ![p + 1] = [log[p + 1] EXCEPT !.next = log_LRN[t]]]
  BY <1>3, <1>5, <1>6, <1>7 DEF PutNext
<1>9. log[p + 1] \in HeadCells
  <2>1. log[p + 1] \in Cells
    BY <1>1, <1>6
  <2> QED BY <1>7, <2>1 DEF Cells, HeadCells, Junk
<1> QED BY <1>1, <1>4, <1>6, <1>8, <1>9

\* A link leaves the records whole.
LEMMA LinkRecords ==
    ASSUME TypeOK, TypeOK', Locked, Records, ~raced', NEW t \in Txns, LinkPrev(t)
    PROVE  Records'
<1>1. /\ pc \in [Txns -> PC] /\ last_LRN \in [Txns -> Int] /\ log \in Seq(Cells)
      /\ Len(log) \in Nat
  <2>1. pc \in [Txns -> PC] /\ last_LRN \in [Txns -> Int] /\ log \in Seq(Cells)
    BY DEF TypeOK
  <2> QED BY <2>1
<1>2. Placed(t) /\ Linked(t) /\ RecordsWhole /\ Parity
  BY DEF Records
<1>3. /\ UNCHANGED <<fn, log_LRN, prev_LRN>> /\ pc[t] = "link" /\ pc'[t] = "seek_end" /\ Races(t)
      /\ last_LRN'[t] = IF fn[t] = "TXN_END" THEN last_LRN[t] ELSE log_LRN[t]
  BY <1>1 DEF LinkPrev, fwrite_next
<1>4. \A u \in Txns : u # t => pc'[u] = pc[u] /\ last_LRN'[u] = last_LRN[u]
  BY <1>1 DEF LinkPrev
<1> DEFINE p == prev_LRN[t]
<1> HIDE DEF p
<1>5. /\ p \in Nat /\ p % 2 = 0 /\ p + 1 \in 1..Len(log) /\ Len(log') = Len(log)
      /\ \A i \in 1..Len(log) : i # p + 1 => log'[i] = log[i]
      /\ log[p + 1] \in HeadCells
      /\ log'[p + 1] = [log[p + 1] EXCEPT !.next = log_LRN[t]]
  <2>1. p = prev_LRN[t]
    BY DEF p
  <2> QED BY <2>1, LinkShape
<1>6. Len(log') = Len(log) /\ \A i \in 1..Len(log) : i # p + 1 => log'[i] = log[i]
  BY <1>5
<1>7. /\ log'[p + 1].kind = log[p + 1].kind /\ log'[p + 1].lrn = log[p + 1].lrn
       /\ log'[p + 1].txn = log[p + 1].txn
  BY <1>5 DEF HeadCells
<1>8. RecordsWhole'
  <2> SUFFICES ASSUME NEW o \in Offsets'
               PROVE  IF o % 2 = 0 THEN log'[o + 1].kind = "head" /\ log'[o + 1].lrn = o
                      ELSE /\ log'[o + 1].kind = "body" /\ log'[o + 1].lrn = o - 1
                           /\ log'[o + 1].txn = log'[o].txn
    BY DEF RecordsWhole
  <2>1. o \in Offsets /\ o \in Nat /\ o + 1 \in 1..Len(log)
    BY <1>1, <1>6 DEF Offsets
  <2>2. IF o % 2 = 0 THEN log[o + 1].kind = "head" /\ log[o + 1].lrn = o
        ELSE log[o + 1].kind = "body" /\ log[o + 1].lrn = o - 1 /\ log[o + 1].txn = log[o].txn
    BY <1>2, <2>1 DEF RecordsWhole
  <2>3. CASE o % 2 = 0
    <3>1. log'[o + 1].kind = log[o + 1].kind /\ log'[o + 1].lrn = log[o + 1].lrn
      BY <1>6, <1>7, <2>1
    <3> QED BY <2>2, <2>3, <3>1
  <2>4. CASE o % 2 # 0
    <3>1. o \in 1..Len(log) /\ o + 1 # p + 1
      BY <1>5, <2>1, <2>4
    <3>2. log'[o].txn = log[o].txn
      BY <1>6, <1>7, <3>1
    <3> QED BY <1>6, <2>1, <2>2, <2>4, <3>1, <3>2
  <2> QED BY <2>3, <2>4
<1>9. Parity'
  <2>1. \A u \in Txns : pc'[u] = "body" <=> pc[u] = "body"
    BY <1>3, <1>4
  <2> QED BY <1>2, <1>6, <2>1 DEF Parity
<1>10. \A u \in Txns : u # t => Placed(u)' /\ Linked(u)'
  <2>1. Len(log') >= Len(log) /\ pc[t] \in Writing
    BY <1>1, <1>3, <1>6 DEF Writing
  <2> QED BY <1>3, <1>4, <2>1, OthersKept
<1>11. Placed(t)' /\ Linked(t)'
  BY <1>2, <1>3, <1>6 DEF Placed, Linked
<1> QED BY <1>8, <1>9, <1>10, <1>11 DEF Records

\* A cell at the end of the log leaves the cells before it whole.
LEMMA Appended ==
    ASSUME NEW s \in Seq(Cells), NEW c \in Cells
    PROVE  /\ PutCell(s, At(Len(s), "start"), c) = Append(s, c)
           /\ Len(Append(s, c)) = Len(s) + 1 /\ Append(s, c)[Len(s) + 1] = c
           /\ \A i \in 1..Len(s) : Append(s, c)[i] = s[i]
<1>1. Len(s) \in Nat
  OBVIOUS
<1>2. PutCell(s, At(Len(s), "start"), c) = Append(s, c)
  BY <1>1 DEF PutCell, At
<1> QED BY <1>2

\* The head of a record goes to the end of the log, under the offset it has.
LEMMA HeadRecords ==
    ASSUME TypeOK, TypeOK', Locked, Records, ~raced', NEW t \in Txns, WriteHead(t)
    PROVE  Records'
<1> DEFINE c == HeadCell(log_LRN[t], t, prev_LRN[t], fn[t])
           n == Len(log)
<1>1. pc \in [Txns -> PC] /\ log \in Seq(Cells) /\ n \in Nat
  <2>1. pc \in [Txns -> PC] /\ log \in Seq(Cells)
    BY DEF TypeOK
  <2> QED BY <2>1
<1>2. Placed(t) /\ Linked(t) /\ RecordsWhole /\ Parity
  BY DEF Records
<1>3. /\ UNCHANGED <<fn, log_LRN, prev_LRN, last_LRN>> /\ pc[t] = "head" /\ pc'[t] = "body"
      /\ Races(t) /\ log' = PutCell(log, pos, c) /\ pos' = At(pos.at + 1, pos.place)
  BY <1>1 DEF WriteHead, fwrite_cell
<1>4. \A u \in Txns : u # t => pc'[u] = pc[u]
  BY <1>1 DEF WriteHead
<1>5. pos = At(n, "start") /\ log_LRN[t] = n
  BY <1>2, <1>3 DEF Placed, EndOfLog
<1>6. c \in Cells /\ c.kind = "head" /\ c.lrn = n /\ c.txn = t
  BY <1>5 DEF HeadCell, Cells, TypeOK, None
<1> HIDE DEF c
<1>7. /\ Len(log') = n + 1 /\ log'[n + 1] = c
      /\ \A i \in 1..n : log'[i] = log[i]
  <2>1. log' = Append(log, c)
    BY <1>1, <1>3, <1>5, <1>6, Appended
  <2> QED BY <1>1, <1>6, <2>1, Appended
<1>8. pos' = At(n + 1, "start")
  BY <1>3, <1>5 DEF At
<1> HIDE DEF n
<1>9. n % 2 = 0
  <2>1. \A u \in Txns : pc[u] # "body"
    BY <1>3 DEF Locked, Writing
  <2> QED BY <1>2, <2>1 DEF Parity, n
<1>10. RecordsWhole'
  <2> SUFFICES ASSUME NEW o \in Offsets'
               PROVE  IF o % 2 = 0 THEN log'[o + 1].kind = "head" /\ log'[o + 1].lrn = o
                      ELSE /\ log'[o + 1].kind = "body" /\ log'[o + 1].lrn = o - 1
                           /\ log'[o + 1].txn = log'[o].txn
    BY DEF RecordsWhole
  <2>1. o \in 0..n
    BY <1>1, <1>7 DEF Offsets
  <2>2. CASE o = n
    BY <1>6, <1>7, <1>9, <2>2
  <2>3. CASE o # n
    <3>1. o \in Offsets /\ o + 1 \in 1..n /\ (o % 2 # 0 => o \in 1..n)
      BY <1>1, <2>1, <2>3 DEF Offsets, n
    <3>2. IF o % 2 = 0 THEN log[o + 1].kind = "head" /\ log[o + 1].lrn = o
          ELSE log[o + 1].kind = "body" /\ log[o + 1].lrn = o - 1 /\ log[o + 1].txn = log[o].txn
      BY <1>2, <3>1 DEF RecordsWhole
    <3> QED BY <1>7, <3>1, <3>2
  <2> QED BY <2>2, <2>3
<1>11. Parity'
  <2>1. Len(log') % 2 = 1
    BY <1>1, <1>7, <1>9
  <2> QED BY <1>3, <2>1 DEF Parity
<1>12. \A u \in Txns : u # t => Placed(u)' /\ Linked(u)'
  <2>1. Len(log') >= Len(log) /\ pc[t] \in Writing
    BY <1>1, <1>3, <1>7 DEF Writing, n
  <2> QED BY <1>3, <1>4, <2>1, OthersKept
<1>13. Placed(t)'
  <2>1. log_LRN'[t] = Len(log') - 1 /\ log'[Len(log')].txn = t /\ pos' = EndOfLog'
    BY <1>1, <1>3, <1>5, <1>6, <1>7, <1>8 DEF EndOfLog
  <2> QED BY <1>3, <2>1 DEF Placed
<1>14. Linked(t)'
  BY <1>2, <1>3 DEF Linked
<1> QED BY <1>10, <1>11, <1>12, <1>13, <1>14 DEF Records

\* The body of a record goes right behind its head.
LEMMA BodyRecords ==
    ASSUME TypeOK, TypeOK', Locked, Records, ~raced', NEW t \in Txns, WriteBody(t)
    PROVE  Records'
<1> DEFINE c == BodyCell(log_LRN[t], t)
           n == Len(log)
<1>1. pc \in [Txns -> PC] /\ log \in Seq(Cells) /\ n \in Nat
  <2>1. pc \in [Txns -> PC] /\ log \in Seq(Cells)
    BY DEF TypeOK
  <2> QED BY <2>1
<1>2. Placed(t) /\ Linked(t) /\ RecordsWhole /\ Parity
  BY DEF Records
<1>3. /\ UNCHANGED <<fn, log_LRN, prev_LRN, last_LRN>> /\ pc[t] = "body" /\ pc'[t] = "fflush"
      /\ Races(t) /\ log' = PutCell(log, pos, c)
  BY <1>1 DEF WriteBody, fwrite_cell
<1>4. \A u \in Txns : u # t => pc'[u] = pc[u]
  BY <1>1 DEF WriteBody
<1>5. pos = At(n, "start") /\ log_LRN[t] = n - 1 /\ log[n].txn = t
  BY <1>2, <1>3 DEF Placed, EndOfLog
<1>6. c \in Cells /\ c.kind = "body" /\ c.lrn = n - 1 /\ c.txn = t
  BY <1>5 DEF BodyCell, Cells, TypeOK
<1> HIDE DEF c
<1>7. /\ Len(log') = n + 1 /\ log'[n + 1] = c
      /\ \A i \in 1..n : log'[i] = log[i]
  <2>1. log' = Append(log, c)
    BY <1>1, <1>3, <1>5, <1>6, Appended
  <2> QED BY <1>1, <1>6, <2>1, Appended
<1>8. n % 2 = 1
  BY <1>2, <1>3 DEF Parity
<1> HIDE DEF n
<1>9. n \in 1..n
  BY <1>1, <1>8
<1>10. RecordsWhole'
  <2> SUFFICES ASSUME NEW o \in Offsets'
               PROVE  IF o % 2 = 0 THEN log'[o + 1].kind = "head" /\ log'[o + 1].lrn = o
                      ELSE /\ log'[o + 1].kind = "body" /\ log'[o + 1].lrn = o - 1
                           /\ log'[o + 1].txn = log'[o].txn
    BY DEF RecordsWhole
  <2>1. o \in 0..n
    BY <1>1, <1>7 DEF Offsets
  <2>2. CASE o = n
    BY <1>5, <1>6, <1>7, <1>8, <1>9, <2>2
  <2>3. CASE o # n
    <3>1. o \in Offsets /\ o + 1 \in 1..n /\ (o % 2 # 0 => o \in 1..n)
      BY <1>1, <2>1, <2>3 DEF Offsets, n
    <3>2. IF o % 2 = 0 THEN log[o + 1].kind = "head" /\ log[o + 1].lrn = o
          ELSE log[o + 1].kind = "body" /\ log[o + 1].lrn = o - 1 /\ log[o + 1].txn = log[o].txn
      BY <1>2, <3>1 DEF RecordsWhole
    <3> QED BY <1>7, <3>1, <3>2
  <2> QED BY <2>2, <2>3
<1>11. Parity'
  <2>1. Len(log') % 2 = 0
    BY <1>1, <1>7, <1>8
  <2>2. \A u \in Txns : pc'[u] # "body"
    BY <1>3, <1>4 DEF Locked, Writing
  <2> QED BY <2>1, <2>2 DEF Parity
<1>12. \A u \in Txns : u # t => Placed(u)' /\ Linked(u)'
  <2>1. Len(log') >= Len(log) /\ pc[t] \in Writing
    BY <1>1, <1>3, <1>7 DEF Writing, n
  <2> QED BY <1>3, <1>4, <2>1, OthersKept
<1>13. Placed(t)'
  BY <1>3 DEF Placed
<1>14. Linked(t)'
  <2>1. Rec(log_LRN[t])'
    <3>1. n - 1 \in Nat /\ (n - 1) % 2 = 0 /\ n - 1 < n + 1
      BY <1>1, <1>8, <1>9
    <3> QED BY <1>3, <1>5, <1>7, <3>1 DEF Rec
  <2> QED BY <1>2, <1>3, <2>1 DEF Linked, Rec
<1> QED BY <1>10, <1>11, <1>12, <1>13, <1>14 DEF Records

\* The handlers and the release loops write nothing.
LEMMA OtherRecords ==
    ASSUME TypeOK, TypeOK', Locked, Records, ~raced', NEW t \in Txns,
           on_txn_beg(t) \/ Client(t) \/ Release(t)
    PROVE  Records'
<1>1. /\ pc \in [Txns -> PC] /\ fn \in [Txns -> RecordTypes]
      /\ prev_LRN \in [Txns -> Int] /\ last_LRN \in [Txns -> Int]
  BY DEF TypeOK
<1>2. Placed(t) /\ Linked(t)
  BY DEF Records
<1>3. CASE on_txn_beg(t) \/ Client(t)
  <2>1. UNCHANGED <<log, pos, log_LRN, prev_LRN, last_LRN>>
    BY <1>3 DEF on_txn_beg, Client, on_update, on_txn_commit, on_txn_abort, logVars
  <2>2. PICK type \in RecordTypes :
           CallLog(t, type) /\ (pc[t] = "run" \/ type = "TXN_BEG") /\ type # "TXN_END"
    <3>1. CASE on_txn_beg(t)
      BY <3>1 DEF on_txn_beg, RecordTypes
    <3>2. CASE on_update(t)
      BY <3>2, LogAssumption DEF on_update, RecordTypes, UpdateTypes, LogAssumption
    <3>3. CASE on_txn_commit(t) \/ on_txn_abort(t)
      BY <3>3 DEF on_txn_commit, on_txn_abort, RecordTypes
    <3> QED BY <1>3, <3>1, <3>2, <3>3 DEF Client
  <2>3. pc[t] \in {"run", "idle"}
    BY <1>3 DEF on_txn_beg, Client, on_update, on_txn_commit, on_txn_abort
  <2>4. pc'[t] = "lock" /\ fn'[t] = type
    BY <1>1, <2>2 DEF CallLog
  <2>5. \A u \in Txns : u # t => pc'[u] = pc[u] /\ fn'[u] = fn[u]
    BY <1>1, <2>2 DEF CallLog
  <2>6. Placed(t)'
    BY <2>4 DEF Placed
  <2>7. Linked(t)'
    BY <1>2, <2>1, <2>2, <2>4 DEF Linked, Rec
  <2> QED BY <2>1, <2>3, <2>4, <2>5, <2>6, <2>7, RecordsKept
<1>4. CASE release_locks(t) \/ delayed_seek(t) \/ delayed_read(t)
  <2>1. UNCHANGED <<log, fn, log_LRN, prev_LRN, last_LRN>> /\ (pos' = pos \/ Races(t))
    BY <1>4 DEF release_locks, delayed_seek, delayed_read, fseek
  <2>2. /\ pc[t] \in {"release", "delayed_seek", "delayed_read"}
        /\ pc'[t] \in {"delayed_seek", "delayed_read", "finish"}
    BY <1>1, <1>4 DEF release_locks, delayed_seek, delayed_read
  <2>3. \A u \in Txns : u # t => pc'[u] = pc[u]
    BY <1>1, <1>4 DEF release_locks, delayed_seek, delayed_read
  <2>4. Placed(t)'
    BY <2>2 DEF Placed
  <2>5. Linked(t)'
    BY <1>2, <2>1, <2>2 DEF Linked, Rec
  <2> QED BY <2>1, <2>2, <2>3, <2>4, <2>5, RecordsKept
<1>5. CASE txn_delete(t)
  <2>1. UNCHANGED <<log, pos, log_LRN>> /\ pc[t] = "finish" /\ pc'[t] = "lock" /\ fn'[t] = "TXN_END"
    BY <1>1, <1>5 DEF txn_delete, CallLog, logVars
  <2>2. prev_LRN'[t] = last_LRN[t]
    BY <1>1, <1>5 DEF txn_delete
  <2>3. \A u \in Txns : u # t => /\ pc'[u] = pc[u] /\ fn'[u] = fn[u]
                                 /\ prev_LRN'[u] = prev_LRN[u] /\ last_LRN'[u] = last_LRN[u]
    BY <1>1, <1>5 DEF txn_delete, CallLog
  <2>4. Placed(t)'
    BY <2>1 DEF Placed
  <2>5. Linked(t)'
    BY <1>2, <2>1, <2>2 DEF Linked, Rec
  <2> QED BY <2>1, <2>3, <2>4, <2>5, RecordsKept
<1> QED BY <1>3, <1>4, <1>5 DEF Release

\* A race stays one, and the log never gets shorter.
LEMMA Monotone ==
    ASSUME TypeOK, NEW t \in Txns, on_txn_beg(t) \/ Client(t) \/ LogCall(t) \/ Release(t)
    PROVE  (raced => raced') /\ Len(log') >= Len(log)
<1>1. log \in Seq(Cells) /\ Len(log) \in Nat /\ pos \in [at : Nat, place : {"start", "next", "inside"}]
      /\ raced \in BOOLEAN
  <2>1. log \in Seq(Cells) /\ pos \in [at : Nat, place : {"start", "next", "inside"}]
        /\ raced \in BOOLEAN
    BY DEF TypeOK
  <2> QED BY <2>1
<1>2. Races(t) => (raced => raced')
  BY DEF Races
<1>3. CASE LinkPrev(t)
  <2>1. log' = PutNext(log, pos, log_LRN[t]) /\ Races(t) /\ log_LRN[t] \in Int
    BY <1>3 DEF LinkPrev, fwrite_next, TypeOK
  <2>2. Len(log') = IF pos.at >= Len(log) THEN Len(log) + 1 ELSE Len(log)
    BY <1>1, <2>1, PutNextType
  <2> QED BY <1>1, <1>2, <2>1, <2>2
<1>4. CASE WriteHead(t) \/ WriteBody(t)
  <2>1. PICK c \in Cells : log' = PutCell(log, pos, c) /\ Races(t)
    <3>1. HeadCell(log_LRN[t], t, prev_LRN[t], fn[t]) \in Cells
      BY DEF TypeOK, HeadCell, Cells, None
    <3>2. BodyCell(log_LRN[t], t) \in Cells
      BY DEF TypeOK, BodyCell, Cells
    <3> QED BY <1>4, <3>1, <3>2 DEF WriteHead, WriteBody, fwrite_cell
  <2>2. Len(log') = IF pos.at >= Len(log) THEN Len(log) + 1 ELSE Len(log)
    BY <1>1, <2>1, PutCellType
  <2> QED BY <1>1, <1>2, <2>1, <2>2
<1>5. CASE on_txn_beg(t) \/ Client(t)
  BY <1>1, <1>5 DEF on_txn_beg, Client, on_update, on_txn_commit, on_txn_abort, logVars
<1>6. CASE LogLock(t) \/ extract_record_no(t) \/ SeekPrev(t) \/ LinkFails(t) \/ SeekEnd(t)
           \/ FlushAndReturn(t)
  BY <1>1, <1>2, <1>6 DEF LogLock, extract_record_no, SeekPrev, LinkFails, SeekEnd,
                          FlushAndReturn, fseek, logVars
<1>7. CASE Release(t)
  BY <1>1, <1>2, <1>7 DEF Release, release_locks, delayed_seek, delayed_read, txn_delete, fseek,
                          logVars
<1> QED BY <1>3, <1>4, <1>5, <1>6, <1>7 DEF LogCall

Inv == Locked /\ (Sound => Records)

\* Both together are inductive: the records depend on the lock, and the lock
\* on nothing but itself.
LEMMA RecordsInvariant == Spec => []Inv
<1>1. Init => Inv
  <2> SUFFICES ASSUME Init PROVE Locked /\ Records
    BY DEF Inv
  <2>1. \A t \in Txns : pc[t] = "idle"
    BY DEF Init
  <2>2. Len(log) = 0
    BY DEF Init
  <2>3. RecordsWhole
    BY <2>2 DEF RecordsWhole, Offsets
  <2>4. Parity
    BY <2>1, <2>2 DEF Parity
  <2>5. \A t \in Txns : Placed(t) /\ Linked(t)
    BY <2>1 DEF Placed, Linked
  <2> QED BY <2>1, <2>3, <2>4, <2>5 DEF Locked, Writing, Records
<1>2. TypeOK /\ TypeOK' /\ Inv /\ [Next]_vars => Inv'
  <2> SUFFICES ASSUME TypeOK, TypeOK', Locked, Sound => Records, [Next]_vars
               PROVE  Locked' /\ (Sound' => Records')
    BY DEF Inv
  <2>1. CASE UNCHANGED vars
    BY <2>1 DEF vars, Locked, Sound, Records, RecordsWhole, Offsets, Parity, Placed, Linked, Rec,
                EndOfLog
  <2>2. CASE BackupOver
    <3>1. /\ UNCHANGED <<log, pos, log_mutex, fn, log_LRN, prev_LRN, last_LRN, raced>>
          /\ Backup \in Txns /\ pc[Backup] = "run" /\ pc' = [pc EXCEPT ![Backup] = "finish"]
      BY <2>2 DEF BackupOver, logVars, Txns
    <3>2. pc'[Backup] = "finish" /\ \A u \in Txns : u # Backup => pc'[u] = pc[u]
      BY <3>1 DEF TypeOK
    <3>3. Locked'
      BY <3>1, <3>2 DEF Locked, Writing
    <3>4. ASSUME Sound' PROVE Records'
      <4>1. Records /\ ~raced'
        BY <3>1, <3>4 DEF Sound
      <4>2. Placed(Backup)' /\ Linked(Backup)'
        BY <3>1, <3>2, <4>1 DEF Records, Placed, Linked, Rec
      <4> QED BY <3>1, <3>2, <4>1, <4>2, RecordsKept
    <3> QED BY <3>3, <3>4
  <2>3. ASSUME NEW t \in Txns, on_txn_beg(t) \/ Client(t) \/ LogCall(t) \/ Release(t)
        PROVE  Locked' /\ (Sound' => Records')
    <3>1. Locked'
      BY <2>3, LogAssumption, LogCallLocked, OtherLocked
    <3>2. ASSUME Sound' PROVE Records'
      <4>1. (raced => raced') /\ Len(log') >= Len(log) /\ Len(log) \in Nat /\ Len(log') \in Nat
        <5>1. log \in Seq(Cells) /\ log' \in Seq(Cells)
          BY DEF TypeOK
        <5> QED BY <2>3, <5>1, Monotone
      <4>2. Sound /\ ~raced'
        BY <3>2, <4>1, LogAssumption DEF Sound, LogAssumption
      <4>3. Records
        BY <4>2
      <4>4. CASE on_txn_beg(t) \/ Client(t) \/ Release(t)
        BY <4>2, <4>3, <4>4, OtherRecords
      <4>5. CASE LogLock(t) \/ extract_record_no(t) \/ SeekPrev(t) \/ SeekEnd(t)
        BY <4>2, <4>3, <4>5, SeekRecords
      <4>6. CASE FlushAndReturn(t) \/ LinkFails(t)
        BY <3>2, <4>3, <4>6, LogAssumption, ReturnRecords
      <4>7. CASE LinkPrev(t)
        BY <4>2, <4>3, <4>7, LinkRecords
      <4>8. CASE WriteHead(t)
        BY <4>2, <4>3, <4>8, HeadRecords
      <4>9. CASE WriteBody(t)
        BY <4>2, <4>3, <4>9, BodyRecords
      <4> QED BY <2>3, <4>4, <4>5, <4>6, <4>7, <4>8, <4>9 DEF LogCall
    <3> QED BY <3>1, <3>2
  <2> QED BY <2>1, <2>2, <2>3 DEF Next, Finished
<1> QED BY <1>1, <1>2, LogTypes, PTL DEF Spec

\* A thread with log_mutex goes from the end of the log to the end of the log:
\* until a delayed update was read in between, every record is where its number
\* says, head and body together.  A record number above IntMax is another number
\* once new_txn_insert has taken it.
THEOREM RecordsStayWhole == Spec => [](Len(log) <= IntMax + 1 => WholeRecords)
<1>1. Inv => (Len(log) <= IntMax + 1 => WholeRecords)
  BY DEF Inv, WholeRecords, Sound, Records
<1> QED BY <1>1, RecordsInvariant, PTL


-----------------------------------------------------------------------------
(***************************************************************************)
(* The proofs that take most: prev_LRN and next_LRN of the records lead    *)
(* through the log of each transaction, and what a release applies of it is*)
(* in the file, in order and complete.                                     *)
(***************************************************************************)

\* The offset m is the newest of H.
Newest(m, H) == m \in H /\ \A p \in H : p <= m

\* The head cells of s at H are linked in the order of the log; the newest of
\* them leads to nx.
Chained(H, s, nx) ==
    \A o \in H :
        /\ IF \A p \in H : ~(p < o)
           THEN s[o + 1].prev = None /\ s[o + 1].type = "TXN_BEG"
           ELSE /\ s[o + 1].prev \in H /\ s[o + 1].prev < o
                /\ \A p \in H : p < o => p <= s[o + 1].prev
        /\ IF \A p \in H : ~(p > o)
           THEN s[o + 1].next = nx
           ELSE /\ s[o + 1].next \in H /\ s[o + 1].next > o
                /\ \A p \in H : p > o => s[o + 1].next <= p

\* The previous record is linked to the next one before that is written.
Chain(t) ==
    Chained(HeadsOf(t), log, IF pc[t] \in {"seek_end", "head"} THEN log_LRN[t] ELSE None)

\* Before its first record a transaction has none; from then on its node, or
\* prev_LRN once the node is deleted, knows the newest.
Tip(t) ==
    /\ pc[t] = "idle" => HeadsOf(t) = {} /\ prev_LRN[t] = None
    /\ pc[t] \in {"lock", "ftell", "seek_end", "head"} /\ fn[t] = "TXN_BEG"
       => HeadsOf(t) = {} /\ prev_LRN[t] = None
    /\ pc[t] \in {"run", "release", "delayed_seek", "delayed_read", "finish"}
       => Newest(last_LRN[t], HeadsOf(t))
    /\ pc[t] \in {"lock", "ftell"} /\ fn[t] # "TXN_BEG"
       => Newest(IF fn[t] = "TXN_END" THEN prev_LRN[t] ELSE last_LRN[t], HeadsOf(t))
    /\ pc[t] \in {"seek_prev", "link"}
       => /\ Newest(prev_LRN[t], HeadsOf(t))
          /\ fn[t] # "TXN_END" => last_LRN[t] = prev_LRN[t]
    /\ pc[t] \in {"seek_end", "head"} /\ fn[t] # "TXN_BEG" => Newest(prev_LRN[t], HeadsOf(t))
    /\ pc[t] \in {"body", "fflush"} => Newest(log_LRN[t], HeadsOf(t))
    /\ pc[t] = "fflush" /\ fn[t] \notin {"TXN_BEG", "TXN_END"} => last_LRN[t] = log_LRN[t]

Chains == \A t \in Txns : Chain(t) /\ Tip(t)

-----------------------------------------------------------------------------
(***************************************************************************)
(* Chains, whatever they are chains of.                                    *)
(***************************************************************************)
\* Cells that are linked the same way are the same chain.
LEMMA ChainKept ==
    ASSUME NEW H, NEW s, NEW r, NEW nx, Chained(H, s, nx),
           \A o \in H : /\ r[o + 1].prev = s[o + 1].prev /\ r[o + 1].next = s[o + 1].next
                        /\ r[o + 1].type = s[o + 1].type
    PROVE  Chained(H, r, nx)
BY DEF Chained

\* The link to the next record is that of the newest record.
LEMMA ChainLinked ==
    ASSUME NEW H \in SUBSET Nat, NEW s, NEW r, NEW n, Chained(H, s, None),
           NEW m, Newest(m, H), r[m + 1].next = n,
           r[m + 1].prev = s[m + 1].prev, r[m + 1].type = s[m + 1].type,
           \A o \in H : o # m => r[o + 1] = s[o + 1]
    PROVE  Chained(H, r, n)
<1> SUFFICES ASSUME NEW o \in H
             PROVE  /\ IF \A p \in H : ~(p < o)
                       THEN r[o + 1].prev = None /\ r[o + 1].type = "TXN_BEG"
                       ELSE /\ r[o + 1].prev \in H /\ r[o + 1].prev < o
                            /\ \A p \in H : p < o => p <= r[o + 1].prev
                    /\ IF \A p \in H : ~(p > o)
                       THEN r[o + 1].next = n
                       ELSE /\ r[o + 1].next \in H /\ r[o + 1].next > o
                            /\ \A p \in H : p > o => r[o + 1].next <= p
  BY DEF Chained
<1>1. /\ IF \A p \in H : ~(p < o)
         THEN s[o + 1].prev = None /\ s[o + 1].type = "TXN_BEG"
         ELSE /\ s[o + 1].prev \in H /\ s[o + 1].prev < o
              /\ \A p \in H : p < o => p <= s[o + 1].prev
      /\ IF \A p \in H : ~(p > o)
         THEN s[o + 1].next = None
         ELSE /\ s[o + 1].next \in H /\ s[o + 1].next > o
              /\ \A p \in H : p > o => s[o + 1].next <= p
  BY DEF Chained
<1>2. m \in H /\ \A p \in H : p <= m
  BY DEF Newest
<1>3. CASE o = m
  <2>1. \A p \in H : ~(p > o)
    BY <1>2, <1>3
  <2> QED BY <1>1, <1>3, <2>1
<1>4. CASE o # m
  <2>1. m > o
    BY <1>2, <1>4
  <2>2. r[o + 1] = s[o + 1]
    BY <1>4
  <2> QED BY <1>1, <1>2, <2>1, <2>2
<1> QED BY <1>3, <1>4

\* A record whose link is there already makes the chain longer.
LEMMA ChainGrown ==
    ASSUME NEW H \in SUBSET Nat, NEW s, NEW r, NEW n \in Nat, Chained(H, s, n),
           NEW m, Newest(m, H), \A o \in H : o < n /\ r[o + 1] = s[o + 1],
           r[n + 1].prev = m, r[n + 1].next = None
    PROVE  Chained(H \cup {n}, r, None) /\ Newest(n, H \cup {n})
<1> DEFINE G == H \cup {n}
<1>1. m \in H /\ m \in Nat /\ m < n /\ \A p \in H : p <= m
  BY DEF Newest
<1>2. Newest(n, G)
  BY DEF Newest
<1>3. ASSUME NEW o \in H
      PROVE  /\ IF \A p \in G : ~(p < o)
                THEN r[o + 1].prev = None /\ r[o + 1].type = "TXN_BEG"
                ELSE /\ r[o + 1].prev \in G /\ r[o + 1].prev < o
                     /\ \A p \in G : p < o => p <= r[o + 1].prev
             /\ r[o + 1].next \in G /\ r[o + 1].next > o
             /\ \A p \in G : p > o => r[o + 1].next <= p
             /\ n > o
  <2>1. /\ IF \A p \in H : ~(p < o)
           THEN s[o + 1].prev = None /\ s[o + 1].type = "TXN_BEG"
           ELSE /\ s[o + 1].prev \in H /\ s[o + 1].prev < o
                /\ \A p \in H : p < o => p <= s[o + 1].prev
        /\ IF \A p \in H : ~(p > o)
           THEN s[o + 1].next = n
           ELSE /\ s[o + 1].next \in H /\ s[o + 1].next > o
                /\ \A p \in H : p > o => s[o + 1].next <= p
    BY DEF Chained
  <2>2. o \in Nat /\ o < n /\ r[o + 1] = s[o + 1] /\ ~(n < o)
    OBVIOUS
  <2>3. CASE \A p \in H : ~(p > o)
    BY <2>1, <2>2, <2>3
  <2>4. CASE ~(\A p \in H : ~(p > o))
    <3>1. /\ s[o + 1].next \in H /\ s[o + 1].next > o
          /\ \A p \in H : p > o => s[o + 1].next <= p
      BY <2>1, <2>4
    <3>2. s[o + 1].next <= n
      <4>1. \A k \in H : k < n /\ k \in Nat
        OBVIOUS
      <4>2. ASSUME NEW k \in H PROVE k <= n
        BY <4>1
      <4> QED BY <3>1, <4>2
    <3>3. r[o + 1].next \in G /\ r[o + 1].next > o /\ n > o
      BY <2>2, <3>1
    <3>4. \A p \in G : p > o => r[o + 1].next <= p
      BY <2>2, <3>1, <3>2
    <3>5. IF \A p \in G : ~(p < o)
          THEN r[o + 1].prev = None /\ r[o + 1].type = "TXN_BEG"
          ELSE /\ r[o + 1].prev \in G /\ r[o + 1].prev < o
               /\ \A p \in G : p < o => p <= r[o + 1].prev
      <4>1. (\A p \in G : ~(p < o)) <=> (\A p \in H : ~(p < o))
        BY <2>2
      <4> QED BY <2>1, <2>2, <4>1
    <3> QED BY <3>3, <3>4, <3>5
  <2> QED BY <2>3, <2>4
<1>4. /\ ~(\A p \in G : ~(p < n)) /\ m \in G /\ m < n
      /\ \A p \in G : p < n => p <= m
      /\ \A p \in G : ~(p > n)
  BY <1>1
<1>5. Chained(G, r, None)
  <2> SUFFICES ASSUME NEW o \in G
               PROVE  /\ IF \A p \in G : ~(p < o)
                         THEN r[o + 1].prev = None /\ r[o + 1].type = "TXN_BEG"
                         ELSE /\ r[o + 1].prev \in G /\ r[o + 1].prev < o
                              /\ \A p \in G : p < o => p <= r[o + 1].prev
                      /\ IF \A p \in G : ~(p > o)
                         THEN r[o + 1].next = None
                         ELSE /\ r[o + 1].next \in G /\ r[o + 1].next > o
                              /\ \A p \in G : p > o => r[o + 1].next <= p
    BY DEF Chained
  <2>1. CASE o = n
    BY <1>4, <2>1
  <2>2. CASE o \in H
    <3>1. ~(\A p \in G : ~(p > o))
      BY <1>3, <2>2
    <3> HIDE DEF G
    <3> QED BY <1>3, <2>2, <3>1
  <2> QED BY <2>1, <2>2
<1> QED BY <1>2, <1>5

\* The first record of a transaction.
LEMMA ChainBegun ==
    ASSUME NEW n \in Nat, NEW r, r[n + 1].prev = None, r[n + 1].type = "TXN_BEG",
           r[n + 1].next = None
    PROVE  Chained({n}, r, None) /\ Newest(n, {n})
BY DEF Chained, Newest

-----------------------------------------------------------------------------
(***************************************************************************)
(* Steps that write nothing.                                               *)
(***************************************************************************)
\* The thread of t moves, over the same log.
LEMMA ChainsKept ==
    ASSUME Chains, NEW t \in Txns, log' = log, Tip(t)',
           \A u \in Txns : u # t => /\ pc'[u] = pc[u] /\ fn'[u] = fn[u]
                                    /\ log_LRN'[u] = log_LRN[u] /\ prev_LRN'[u] = prev_LRN[u]
                                    /\ last_LRN'[u] = last_LRN[u],
           \/ HeadsOf(t) = {}
           \/ pc[t] \notin {"seek_end", "head"} /\ pc'[t] \notin {"seek_end", "head"}
           \/ /\ pc[t] \in {"seek_end", "head"} /\ pc'[t] \in {"seek_end", "head"}
              /\ log_LRN'[t] = log_LRN[t]
    PROVE  Chains'
<1>1. \A u \in Txns : HeadsOf(u)' = HeadsOf(u)
  BY DEF HeadsOf, Offsets
<1>2. ASSUME NEW u \in Txns, u # t PROVE Chain(u)' /\ Tip(u)'
  <2>1. Chain(u) /\ Tip(u)
    BY DEF Chains
  <2>2. Chain(u)'
    BY <1>1, <1>2, <2>1 DEF Chain
  <2>3. Tip(u)'
    BY <1>1, <1>2, <2>1 DEF Tip
  <2> QED BY <2>2, <2>3
<1>3. Chain(t)'
  <2>1. CASE HeadsOf(t) = {}
    BY <1>1, <2>1 DEF Chain, Chained
  <2>2. CASE HeadsOf(t) # {}
    <3>1. Chain(t)
      BY DEF Chains
    <3> QED BY <1>1, <2>2, <3>1 DEF Chain
  <2> QED BY <2>1, <2>2
<1> QED BY <1>2, <1>3 DEF Chains

\* The seeks of the log_* functions.
LEMMA SeekChains ==
    ASSUME TypeOK, Chains, NEW t \in Txns,
           LogLock(t) \/ extract_record_no(t) \/ SeekPrev(t) \/ SeekEnd(t)
    PROVE  Chains'
<1>1. /\ pc \in [Txns -> PC] /\ log_LRN \in [Txns -> Int] /\ prev_LRN \in [Txns -> Int]
  BY DEF TypeOK
<1>2. UNCHANGED <<log, fn, last_LRN>> /\ HeadsOf(t)' = HeadsOf(t)
  BY DEF LogLock, extract_record_no, SeekPrev, SeekEnd, logVars, HeadsOf, Offsets
<1>3. Tip(t)
  BY DEF Chains
<1>4. \A u \in Txns : u # t => /\ pc'[u] = pc[u] /\ log_LRN'[u] = log_LRN[u]
                               /\ prev_LRN'[u] = prev_LRN[u]
  BY <1>1 DEF LogLock, extract_record_no, SeekPrev, SeekEnd
<1>5. CASE extract_record_no(t)
  <2>1. /\ pc[t] = "ftell" /\ pc'[t] = IF fn[t] = "TXN_BEG" THEN "seek_end" ELSE "seek_prev"
        /\ prev_LRN'[t] = IF fn[t] \in {"TXN_BEG", "TXN_END"} THEN prev_LRN[t] ELSE last_LRN[t]
    BY <1>1, <1>5 DEF extract_record_no
  <2>2. fn[t] = "TXN_BEG" => HeadsOf(t) = {}
    BY <1>3, <2>1 DEF Tip
  <2>3. Tip(t)'
    BY <1>2, <1>3, <2>1 DEF Tip
  <2> QED BY <1>2, <1>4, <2>1, <2>2, <2>3, ChainsKept
<1>6. CASE LogLock(t) \/ SeekPrev(t) \/ SeekEnd(t)
  <2>1. /\ log_LRN' = log_LRN /\ prev_LRN' = prev_LRN
        /\ \/ pc[t] = "lock" /\ pc'[t] = "ftell"
           \/ pc[t] = "seek_prev" /\ pc'[t] = "link"
           \/ pc[t] = "seek_end" /\ pc'[t] = "head"
    BY <1>1, <1>6 DEF LogLock, SeekPrev, SeekEnd
  <2>2. Tip(t)'
    BY <1>2, <1>3, <2>1 DEF Tip
  <2> QED BY <1>2, <1>4, <2>1, <2>2, ChainsKept
<1> QED BY <1>5, <1>6

\* The returns: the node of the transaction knows the newest record, whether
\* the call wrote one or failed.
LEMMA ReturnChains ==
    ASSUME LogAssumption, TypeOK, Records, Sound', Chains, NEW t \in Txns,
           FlushAndReturn(t) \/ LinkFails(t)
    PROVE  Chains'
<1>1. /\ pc \in [Txns -> PC] /\ last_LRN \in [Txns -> Int] /\ log \in Seq(Cells)
  BY DEF TypeOK
<1>2. /\ UNCHANGED <<log, fn, log_LRN, prev_LRN>> /\ HeadsOf(t)' = HeadsOf(t)
      /\ pc[t] \in {"fflush", "link"}
  BY DEF FlushAndReturn, LinkFails, logVars, HeadsOf, Offsets
<1>3. Tip(t) /\ Linked(t)
  BY DEF Chains, Records
<1>4. PICK ret \in Int : Return(t, ret) /\ (pc[t] = "fflush" => ret = log_LRN[t])
  <2>1. log_LRN[t] \in Int /\ -1 \in Int
    BY DEF TypeOK
  <2> QED BY <2>1 DEF FlushAndReturn, LinkFails
<1>5. PICK q \in {"release", "done", "run"} :
         pc' = [pc EXCEPT ![t] = q] /\ (q = "done" <=> fn[t] = "TXN_END")
  BY <1>4 DEF Return
<1>6. last_LRN' = [last_LRN EXCEPT ![t] = IF fn[t] = "TXN_BEG" THEN ToInt(ret) ELSE last_LRN[t]]
  BY <1>4 DEF Return
<1>7. \A u \in Txns : u # t => pc'[u] = pc[u] /\ last_LRN'[u] = last_LRN[u]
  BY <1>1, <1>5, <1>6
<1>8. pc'[t] = q /\ last_LRN'[t] = IF fn[t] = "TXN_BEG" THEN ToInt(ret) ELSE last_LRN[t]
  BY <1>1, <1>5, <1>6
<1>9. q # "done" => Newest(last_LRN'[t], HeadsOf(t))
  <2>1. CASE fn[t] = "TXN_BEG"
    <3>1. pc[t] = "fflush" /\ Rec(log_LRN[t]) /\ ret = log_LRN[t]
      BY <1>2, <1>3, <1>4, <2>1 DEF Linked
    <3>2. Len(log) \in Nat /\ Len(log) <= IntMax + 1
      BY <1>1, <1>2 DEF Sound
    <3>3. ret \in Nat /\ ret <= IntMax
      BY <3>1, <3>2 DEF Rec, LogAssumption
    <3>4. ToInt(ret) = ret
      BY <3>3, ToIntFits
    <3> QED BY <1>3, <1>8, <2>1, <3>1, <3>4 DEF Tip
  <2>2. CASE fn[t] \notin {"TXN_BEG", "TXN_END"}
    BY <1>2, <1>3, <1>8, <2>2 DEF Tip
  <2> QED BY <1>5, <2>1, <2>2
<1>10. Tip(t)'
  <2>1. q # "done" => Newest(last_LRN[t], HeadsOf(t))'
    BY <1>2, <1>9 DEF Newest
  <2> QED BY <1>8, <2>1 DEF Tip
<1>11. pc[t] \notin {"seek_end", "head"} /\ pc'[t] \notin {"seek_end", "head"}
  BY <1>2, <1>8
<1> QED BY <1>2, <1>7, <1>10, <1>11, ChainsKept

\* The handlers and the release loops.
LEMMA OtherChains ==
    ASSUME TypeOK, Chains, NEW t \in Txns, on_txn_beg(t) \/ Client(t) \/ Release(t)
    PROVE  Chains'
<1>1. /\ pc \in [Txns -> PC] /\ fn \in [Txns -> RecordTypes]
      /\ prev_LRN \in [Txns -> Int] /\ last_LRN \in [Txns -> Int]
  BY DEF TypeOK
<1>2. UNCHANGED <<log, log_LRN>> /\ HeadsOf(t)' = HeadsOf(t)
  BY DEF on_txn_beg, Client, on_update, on_txn_commit, on_txn_abort, Release, release_locks,
         delayed_seek, delayed_read, txn_delete, logVars, HeadsOf, Offsets
<1>3. Tip(t)
  BY DEF Chains
<1>4. CASE on_txn_beg(t)
  <2>1. /\ UNCHANGED <<prev_LRN, last_LRN>> /\ pc[t] = "idle" /\ pc'[t] = "lock"
        /\ fn'[t] = "TXN_BEG" /\ \A u \in Txns : u # t => pc'[u] = pc[u] /\ fn'[u] = fn[u]
    BY <1>1, <1>4 DEF on_txn_beg, CallLog
  <2>2. Tip(t)'
    BY <1>2, <1>3, <2>1 DEF Tip
  <2> QED BY <1>2, <2>1, <2>2, ChainsKept
<1>5. CASE Client(t)
  <2>1. PICK type \in UpdateTypes \cup {"TXN_COMMIT", "TXN_ABORT"} : CallLog(t, type)
    <3>1. CASE on_update(t)
      BY <3>1, LogAssumption DEF on_update, LogAssumption
    <3>2. CASE on_txn_commit(t) \/ on_txn_abort(t)
      BY <3>2 DEF on_txn_commit, on_txn_abort
    <3> QED BY <1>5, <3>1, <3>2 DEF Client
  <2>2. UNCHANGED <<prev_LRN, last_LRN>> /\ pc[t] = "run"
    BY <1>5 DEF Client, on_update, on_txn_commit, on_txn_abort
  <2>3. /\ pc'[t] = "lock" /\ fn'[t] = type
        /\ \A u \in Txns : u # t => pc'[u] = pc[u] /\ fn'[u] = fn[u]
    BY <1>1, <2>1 DEF CallLog
  <2>4. fn'[t] # "TXN_BEG" /\ fn'[t] # "TXN_END"
    BY <2>1, <2>3 DEF UpdateTypes
  <2>5. Tip(t)'
    BY <1>2, <1>3, <2>2, <2>3, <2>4 DEF Tip
  <2> QED BY <1>2, <2>2, <2>3, <2>5, ChainsKept
<1>6. CASE release_locks(t) \/ delayed_seek(t) \/ delayed_read(t)
  <2>1. UNCHANGED <<fn, prev_LRN, last_LRN>>
    BY <1>6 DEF release_locks, delayed_seek, delayed_read
  <2>2. /\ pc[t] \in {"release", "delayed_seek", "delayed_read"}
        /\ pc'[t] \in {"delayed_seek", "delayed_read", "finish"}
    BY <1>1, <1>6 DEF release_locks, delayed_seek, delayed_read
  <2>3. \A u \in Txns : u # t => pc'[u] = pc[u]
    BY <1>1, <1>6 DEF release_locks, delayed_seek, delayed_read
  <2>4. Tip(t)'
    BY <1>2, <1>3, <2>1, <2>2 DEF Tip
  <2> QED BY <1>2, <2>1, <2>2, <2>3, <2>4, ChainsKept
<1>7. CASE txn_delete(t)
  <2>1. /\ pc[t] = "finish" /\ pc'[t] = "lock" /\ fn'[t] = "TXN_END"
        /\ prev_LRN'[t] = last_LRN[t]
    BY <1>1, <1>7 DEF txn_delete, CallLog
  <2>2. \A u \in Txns : u # t => /\ pc'[u] = pc[u] /\ fn'[u] = fn[u]
                                 /\ prev_LRN'[u] = prev_LRN[u] /\ last_LRN'[u] = last_LRN[u]
    BY <1>1, <1>7 DEF txn_delete, CallLog
  <2>3. Tip(t)'
    BY <1>2, <1>3, <2>1 DEF Tip
  <2> QED BY <1>2, <2>1, <2>2, <2>3, ChainsKept
<1> QED BY <1>4, <1>5, <1>6, <1>7 DEF Release

-----------------------------------------------------------------------------
(***************************************************************************)
(* Steps that write.                                                       *)
(***************************************************************************)
\* What a write of t leaves of the chains of the others.
LEMMA OtherChainsKept ==
    ASSUME Chains, NEW t \in Txns,
           \A u \in Txns : u # t => /\ pc'[u] = pc[u] /\ fn'[u] = fn[u]
                                    /\ log_LRN'[u] = log_LRN[u] /\ prev_LRN'[u] = prev_LRN[u]
                                    /\ last_LRN'[u] = last_LRN[u]
                                    /\ HeadsOf(u)' = HeadsOf(u)
                                    /\ \A o \in HeadsOf(u) : log'[o + 1] = log[o + 1]
    PROVE  \A u \in Txns : u # t => Chain(u)' /\ Tip(u)'
<1> SUFFICES ASSUME NEW u \in Txns, u # t PROVE Chain(u)' /\ Tip(u)'
  OBVIOUS
<1>1. Chain(u) /\ Tip(u)
  BY DEF Chains
<1> DEFINE nx == IF pc[u] \in {"seek_end", "head"} THEN log_LRN[u] ELSE None
<1>2. Chained(HeadsOf(u), log, nx)
  BY <1>1 DEF Chain
<1> HIDE DEF nx
<1>3. Chained(HeadsOf(u), log', nx)
  BY <1>2, ChainKept
<1>4. Chain(u)'
  BY <1>3 DEF Chain, nx
<1>5. Tip(u)'
  BY <1>1 DEF Tip
<1> QED BY <1>4, <1>5

\* next_LRN of the newest record comes to lead to the one about to be written.
LEMMA LinkChains ==
    ASSUME TypeOK, Records, Chains, NEW t \in Txns, LinkPrev(t)
    PROVE  Chains'
<1>1. /\ pc \in [Txns -> PC] /\ last_LRN \in [Txns -> Int] /\ log \in Seq(Cells)
      /\ Len(log) \in Nat /\ fn[t] \in RecordTypes
  <2>1. /\ pc \in [Txns -> PC] /\ last_LRN \in [Txns -> Int] /\ log \in Seq(Cells)
        /\ fn[t] \in RecordTypes
    BY DEF TypeOK
  <2> QED BY <2>1
<1>2. Chain(t) /\ Tip(t) /\ Linked(t)
  BY DEF Chains, Records
<1>3. /\ UNCHANGED <<fn, log_LRN, prev_LRN>> /\ pc[t] = "link" /\ pc'[t] = "seek_end"
  BY <1>1 DEF LinkPrev
<1>4. \A u \in Txns : u # t => pc'[u] = pc[u] /\ last_LRN'[u] = last_LRN[u]
  BY <1>1 DEF LinkPrev
<1>5. PICK p : p = prev_LRN[t]
  OBVIOUS
<1>6. /\ p \in Nat /\ p % 2 = 0 /\ p + 1 \in 1..Len(log) /\ Len(log') = Len(log)
      /\ \A i \in 1..Len(log) : i # p + 1 => log'[i] = log[i]
      /\ log[p + 1] \in HeadCells
      /\ log'[p + 1] = [log[p + 1] EXCEPT !.next = log_LRN[t]]
  BY <1>5, LinkShape
<1>7. /\ log'[p + 1].kind = log[p + 1].kind /\ log'[p + 1].txn = log[p + 1].txn
      /\ log'[p + 1].prev = log[p + 1].prev /\ log'[p + 1].type = log[p + 1].type
      /\ log'[p + 1].next = log_LRN[t]
  BY <1>6 DEF HeadCells
<1>8. \A o \in Offsets : o \in Nat /\ o + 1 \in 1..Len(log) /\ (o # p => log'[o + 1] = log[o + 1])
  BY <1>1, <1>6 DEF Offsets
<1>9. \A u \in Txns : HeadsOf(u)' = HeadsOf(u)
  <2>1. Offsets' = Offsets
    BY <1>6 DEF Offsets
  <2>2. \A o \in Offsets : log'[o + 1].kind = log[o + 1].kind /\ log'[o + 1].txn = log[o + 1].txn
    BY <1>7, <1>8
  <2> QED BY <2>1, <2>2 DEF HeadsOf
<1>10. Newest(p, HeadsOf(t))
  BY <1>2, <1>3, <1>5 DEF Tip
<1>11. Chain(t)'
  <2>1. Chained(HeadsOf(t), log, None)
    BY <1>2, <1>3 DEF Chain
  <2>2. HeadsOf(t) \in SUBSET Nat /\ \A o \in HeadsOf(t) : o # p => log'[o + 1] = log[o + 1]
    BY <1>8 DEF HeadsOf
  <2>3. Chained(HeadsOf(t), log', log_LRN[t])
    BY <1>7, <1>10, <2>1, <2>2, ChainLinked
  <2> QED BY <1>3, <1>9, <2>3 DEF Chain
<1>12. Tip(t)'
  <2>1. fn[t] # "TXN_BEG"
    BY <1>2, <1>3 DEF Linked
  <2> QED BY <1>3, <1>5, <1>9, <1>10, <2>1 DEF Tip
<1>13. \A u \in Txns : u # t => \A o \in HeadsOf(u) : log'[o + 1] = log[o + 1]
  <2>1. log[p + 1].txn = t
    BY <1>10 DEF Newest, HeadsOf
  <2> QED BY <1>8, <2>1 DEF HeadsOf
<1>14. \A u \in Txns : u # t => Chain(u)' /\ Tip(u)'
  BY <1>3, <1>4, <1>9, <1>13, OtherChainsKept
<1> QED BY <1>11, <1>12, <1>14 DEF Chains

\* Cells behind the end take no record from a transaction, and a head gives
\* its transaction one.
LEMMA HeadsGrown ==
    ASSUME NEW u, log \in Seq(Cells), log' \in Seq(Cells), Len(log') = Len(log) + 1,
           \A i \in 1..Len(log) : log'[i] = log[i]
    PROVE  /\ HeadsOf(u)' = HeadsOf(u) \cup
                 (IF log'[Len(log) + 1].kind = "head" /\ log'[Len(log) + 1].txn = u
                  THEN {Len(log)} ELSE {})
           /\ HeadsOf(u) \in SUBSET Nat
           /\ \A o \in HeadsOf(u) : o < Len(log) /\ log'[o + 1] = log[o + 1]
<1> DEFINE n == Len(log)
<1>1. n \in Nat
  OBVIOUS
<1>2. Offsets' = Offsets \cup {n} /\ Offsets = 0..n - 1
  BY <1>1 DEF Offsets
<1> HIDE DEF n
<1>3. \A o \in Offsets : o \in Nat /\ o < n /\ log'[o + 1] = log[o + 1]
  <2> SUFFICES ASSUME NEW o \in Offsets PROVE o \in Nat /\ o < n /\ log'[o + 1] = log[o + 1]
    OBVIOUS
  <2>1. o \in Nat /\ o < n /\ o + 1 \in 1..n
    BY <1>1, <1>2
  <2> QED BY <2>1 DEF n
<1>4. HeadsOf(u)' = {o \in Offsets \cup {n} : log'[o + 1].kind = "head" /\ log'[o + 1].txn = u}
  BY <1>2 DEF HeadsOf
<1>5. HeadsOf(u) \in SUBSET Nat /\ \A o \in HeadsOf(u) : o < n /\ log'[o + 1] = log[o + 1]
  BY <1>3 DEF HeadsOf
<1>6. HeadsOf(u)' = HeadsOf(u) \cup
         (IF log'[n + 1].kind = "head" /\ log'[n + 1].txn = u THEN {n} ELSE {})
  BY <1>3, <1>4 DEF HeadsOf
<1> QED BY <1>5, <1>6 DEF n

\* The head that is written is the end of its transaction's chain.
LEMMA HeadChains ==
    ASSUME TypeOK, TypeOK', Records, Chains, NEW t \in Txns, WriteHead(t)
    PROVE  Chains'
<1> DEFINE c == HeadCell(log_LRN[t], t, prev_LRN[t], fn[t])
           n == Len(log)
<1>1. pc \in [Txns -> PC] /\ log \in Seq(Cells) /\ log' \in Seq(Cells) /\ n \in Nat
  <2>1. pc \in [Txns -> PC] /\ log \in Seq(Cells) /\ log' \in Seq(Cells)
    BY DEF TypeOK
  <2> QED BY <2>1
<1>2. Placed(t) /\ Chain(t) /\ Tip(t)
  BY DEF Records, Chains
<1>3. /\ UNCHANGED <<fn, log_LRN, prev_LRN, last_LRN>> /\ pc[t] = "head" /\ pc'[t] = "body"
      /\ log' = PutCell(log, pos, c)
  BY <1>1 DEF WriteHead, fwrite_cell
<1>4. \A u \in Txns : u # t => pc'[u] = pc[u]
  BY <1>1 DEF WriteHead
<1>5. pos = At(n, "start") /\ log_LRN[t] = n
  BY <1>2, <1>3 DEF Placed, EndOfLog
<1>6. /\ c \in Cells /\ c.kind = "head" /\ c.txn = t /\ c.prev = prev_LRN[t] /\ c.next = None
      /\ c.type = fn[t]
  BY DEF HeadCell, Cells, TypeOK, None
<1> HIDE DEF c
<1>7. Len(log') = n + 1 /\ log'[n + 1] = c /\ \A i \in 1..n : log'[i] = log[i]
  <2>1. log' = Append(log, c)
    BY <1>1, <1>3, <1>5, <1>6, Appended
  <2> QED BY <1>1, <1>6, <2>1, Appended
<1>8. \A u \in Txns : /\ HeadsOf(u)' = HeadsOf(u) \cup
                             (IF log'[n + 1].kind = "head" /\ log'[n + 1].txn = u
                              THEN {n} ELSE {})
                      /\ HeadsOf(u) \in SUBSET Nat
                      /\ \A o \in HeadsOf(u) : o < n /\ log'[o + 1] = log[o + 1]
  BY <1>1, <1>7, HeadsGrown
<1> HIDE DEF n
<1>9. HeadsOf(t)' = HeadsOf(t) \cup {n} /\ \A u \in Txns : u # t => HeadsOf(u)' = HeadsOf(u)
  BY <1>6, <1>7, <1>8
<1>10. Chained(HeadsOf(t), log, n)
  BY <1>2, <1>3, <1>5 DEF Chain
<1>11. Chained(HeadsOf(t)', log', None) /\ Newest(n, HeadsOf(t)')
  <2>1. CASE fn[t] = "TXN_BEG"
    <3>1. HeadsOf(t)' = {n} /\ prev_LRN[t] = None
      BY <1>2, <1>3, <1>9, <2>1 DEF Tip
    <3>2. Chained({n}, log', None) /\ Newest(n, {n})
      BY <1>1, <1>6, <1>7, <2>1, <3>1, ChainBegun
    <3> QED BY <3>1, <3>2
  <2>2. CASE fn[t] # "TXN_BEG"
    <3>1. Newest(prev_LRN[t], HeadsOf(t))
      BY <1>2, <1>3, <2>2 DEF Tip
    <3>2. HeadsOf(t) \in SUBSET Nat /\ \A o \in HeadsOf(t) : o < n /\ log'[o + 1] = log[o + 1]
      BY <1>8
    <3>3. log'[n + 1].prev = prev_LRN[t] /\ log'[n + 1].next = None
      BY <1>6, <1>7
    <3>4. Chained(HeadsOf(t) \cup {n}, log', None) /\ Newest(n, HeadsOf(t) \cup {n})
      BY <1>1, <1>10, <3>1, <3>2, <3>3, ChainGrown
    <3> QED BY <1>9, <3>4
  <2> QED BY <2>1, <2>2
<1>12. Chain(t)'
  BY <1>3, <1>11 DEF Chain
<1>13. Tip(t)'
  BY <1>3, <1>5, <1>11 DEF Tip
<1>14. \A u \in Txns : u # t => Chain(u)' /\ Tip(u)'
  BY <1>3, <1>4, <1>8, <1>9, OtherChainsKept
<1> QED BY <1>12, <1>13, <1>14 DEF Chains

\* The body is no part of a chain.
LEMMA BodyChains ==
    ASSUME TypeOK, TypeOK', Records, Chains, NEW t \in Txns, WriteBody(t)
    PROVE  Chains'
<1> DEFINE c == BodyCell(log_LRN[t], t)
           n == Len(log)
<1>1. pc \in [Txns -> PC] /\ log \in Seq(Cells) /\ log' \in Seq(Cells) /\ n \in Nat
  <2>1. pc \in [Txns -> PC] /\ log \in Seq(Cells) /\ log' \in Seq(Cells)
    BY DEF TypeOK
  <2> QED BY <2>1
<1>2. Placed(t) /\ Linked(t) /\ Chain(t) /\ Tip(t)
  BY DEF Records, Chains
<1>3. /\ UNCHANGED <<fn, log_LRN, prev_LRN, last_LRN>> /\ pc[t] = "body" /\ pc'[t] = "fflush"
      /\ log' = PutCell(log, pos, c)
  BY <1>1 DEF WriteBody, fwrite_cell
<1>4. \A u \in Txns : u # t => pc'[u] = pc[u]
  BY <1>1 DEF WriteBody
<1>5. pos = At(n, "start")
  BY <1>2, <1>3 DEF Placed, EndOfLog
<1>6. c \in Cells /\ c.kind = "body"
  BY DEF BodyCell, Cells, TypeOK
<1> HIDE DEF c
<1>7. Len(log') = n + 1 /\ log'[n + 1] = c /\ \A i \in 1..n : log'[i] = log[i]
  <2>1. log' = Append(log, c)
    BY <1>1, <1>3, <1>5, <1>6, Appended
  <2> QED BY <1>1, <1>6, <2>1, Appended
<1>8. \A u \in Txns : /\ HeadsOf(u)' = HeadsOf(u) \cup
                             (IF log'[n + 1].kind = "head" /\ log'[n + 1].txn = u
                              THEN {n} ELSE {})
                      /\ HeadsOf(u) \in SUBSET Nat
                      /\ \A o \in HeadsOf(u) : o < n /\ log'[o + 1] = log[o + 1]
  BY <1>1, <1>7, HeadsGrown
<1> HIDE DEF n
<1>9. \A u \in Txns : HeadsOf(u)' = HeadsOf(u)
  BY <1>6, <1>7, <1>8
<1>10. Chain(t)'
  <2>1. Chained(HeadsOf(t), log, None)
    BY <1>2, <1>3 DEF Chain
  <2>2. Chained(HeadsOf(t), log', None)
    BY <1>8, <2>1, ChainKept
  <2> QED BY <1>3, <1>9, <2>2 DEF Chain
<1>11. Tip(t)'
  <2>1. fn[t] \notin {"TXN_BEG", "TXN_END"} => last_LRN[t] = log_LRN[t]
    BY <1>2, <1>3 DEF Linked
  <2> QED BY <1>2, <1>3, <1>9, <2>1 DEF Tip
<1>12. \A u \in Txns : u # t => Chain(u)' /\ Tip(u)'
  BY <1>3, <1>4, <1>8, <1>9, OtherChainsKept
<1> QED BY <1>10, <1>11, <1>12 DEF Chains

-----------------------------------------------------------------------------
\* From its TXN_BEG to its newest record the links of a transaction lead through
\* all it has logged, forward and back, also when a log call failed to write the
\* link and returned: nothing else is in the log then, either.
THEOREM ChainsStayIntact == Spec => [](Len(log) <= IntMax + 1 => ChainIntact)
<1> DEFINE CInv == Sound => Chains
<1>1. Init => CInv
  <2> SUFFICES ASSUME Init PROVE Chains
    OBVIOUS
  <2>1. \A t \in Txns : pc[t] = "idle" /\ prev_LRN[t] = None
    BY DEF Init
  <2>2. Len(log) = 0
    BY DEF Init
  <2>3. \A t \in Txns : HeadsOf(t) = {}
    BY <2>2 DEF HeadsOf, Offsets
  <2>4. \A t \in Txns : Chain(t) /\ Tip(t)
    BY <2>1, <2>3 DEF Chain, Chained, Tip
  <2> QED BY <2>4 DEF Chains
<1>2. TypeOK /\ TypeOK' /\ Inv /\ Inv' /\ CInv /\ [Next]_vars => CInv'
  <2> SUFFICES ASSUME TypeOK, TypeOK', Locked, Sound => Records, Sound => Chains, [Next]_vars,
                      Sound'
               PROVE  Chains'
    BY DEF Inv
  <2>1. CASE UNCHANGED vars
    <3>1. Chains
      BY <2>1 DEF vars, Sound
    <3>2. UNCHANGED <<log, pc, fn, log_LRN, prev_LRN, last_LRN>>
      BY <2>1 DEF vars
    <3>3. ASSUME NEW t \in Txns PROVE Chain(t)' /\ Tip(t)'
      <4>1. HeadsOf(t)' = HeadsOf(t) /\ Chain(t) /\ Tip(t)
        BY <3>1, <3>2 DEF HeadsOf, Offsets, Chains
      <4>2. Chain(t)'
        BY <3>2, <4>1 DEF Chain
      <4>3. Tip(t)'
        BY <3>2, <4>1 DEF Tip
      <4> QED BY <4>2, <4>3
    <3> QED BY <3>3 DEF Chains
  <2>2. CASE BackupOver
    <3>1. /\ UNCHANGED <<log, fn, log_LRN, prev_LRN, last_LRN, raced>>
          /\ Backup \in Txns /\ pc[Backup] = "run" /\ pc' = [pc EXCEPT ![Backup] = "finish"]
      BY <2>2 DEF BackupOver, logVars, Txns
    <3>2. pc'[Backup] = "finish" /\ \A u \in Txns : u # Backup => pc'[u] = pc[u]
      BY <3>1 DEF TypeOK
    <3>3. Chains
      BY <3>1 DEF Sound
    <3>4. HeadsOf(Backup)' = HeadsOf(Backup)
      BY <3>1 DEF HeadsOf, Offsets
    <3>5. Tip(Backup)'
      BY <3>1, <3>2, <3>3, <3>4 DEF Chains, Tip
    <3> QED BY <3>1, <3>2, <3>3, <3>5, ChainsKept
  <2>3. ASSUME NEW t \in Txns, on_txn_beg(t) \/ Client(t) \/ LogCall(t) \/ Release(t)
        PROVE  Chains'
    <3>1. (raced => raced') /\ Len(log') >= Len(log) /\ Len(log) \in Nat /\ Len(log') \in Nat
      <4>1. log \in Seq(Cells) /\ log' \in Seq(Cells)
        BY DEF TypeOK
      <4> QED BY <2>3, <4>1, Monotone
    <3>2. Sound
      BY <3>1, LogAssumption DEF Sound, LogAssumption
    <3>3. Records /\ Chains
      BY <3>2
    <3>4. CASE on_txn_beg(t) \/ Client(t) \/ Release(t)
      BY <3>3, <3>4, OtherChains
    <3>5. CASE LogLock(t) \/ extract_record_no(t) \/ SeekPrev(t) \/ SeekEnd(t)
      BY <3>3, <3>5, SeekChains
    <3>6. CASE FlushAndReturn(t) \/ LinkFails(t)
      BY <3>3, <3>6, LogAssumption, ReturnChains
    <3>7. CASE LinkPrev(t)
      BY <3>3, <3>7, LinkChains
    <3>8. CASE WriteHead(t)
      BY <3>3, <3>8, HeadChains
    <3>9. CASE WriteBody(t)
      BY <3>3, <3>9, BodyChains
    <3> QED BY <2>3, <3>4, <3>5, <3>6, <3>7, <3>8, <3>9 DEF LogCall
  <2> QED BY <2>1, <2>2, <2>3 DEF Next, Finished
<1>3. Inv /\ CInv => (Len(log) <= IntMax + 1 => ChainIntact)
  <2> SUFFICES ASSUME Locked, Sound => Chains, Len(log) <= IntMax + 1, ~raced, log_mutex = NoTxn,
                      NEW t \in Txns, NEW o \in HeadsOf(t)
               PROVE  LET before == {p \in HeadsOf(t) : p < o}
                          after == {p \in HeadsOf(t) : p > o}
                          c == log[o + 1]
                      IN  /\ IF before = {} THEN c.prev = None /\ c.type = "TXN_BEG"
                             ELSE c.prev \in before /\ \A p \in before : p <= c.prev
                          /\ IF after = {} THEN c.next = None
                             ELSE c.next \in after /\ \A p \in after : c.next <= p
    BY DEF Inv, ChainIntact
  <2>1. pc[t] \notin {"seek_end", "head"}
    <3>1. \A u \in Txns : u \in Nat
      BY LogAssumption DEF LogAssumption, Txns, Backup
    <3>2. NoTxn \notin Nat
      BY DEF NoTxn
    <3> QED BY <3>1, <3>2 DEF Locked, Writing
  <2>2. Chain(t)
    BY DEF Sound, Chains
  <2>3. Chained(HeadsOf(t), log, None)
    BY <2>1, <2>2 DEF Chain
  <2>4. /\ IF \A p \in HeadsOf(t) : ~(p < o)
           THEN log[o + 1].prev = None /\ log[o + 1].type = "TXN_BEG"
           ELSE /\ log[o + 1].prev \in HeadsOf(t) /\ log[o + 1].prev < o
                /\ \A p \in HeadsOf(t) : p < o => p <= log[o + 1].prev
        /\ IF \A p \in HeadsOf(t) : ~(p > o)
           THEN log[o + 1].next = None
           ELSE /\ log[o + 1].next \in HeadsOf(t) /\ log[o + 1].next > o
                /\ \A p \in HeadsOf(t) : p > o => log[o + 1].next <= p
    BY <2>3 DEF Chained
  <2> DEFINE before == {p \in HeadsOf(t) : p < o}
             after == {p \in HeadsOf(t) : p > o}
  <2>5. /\ before = {} <=> \A p \in HeadsOf(t) : ~(p < o)
        /\ after = {} <=> \A p \in HeadsOf(t) : ~(p > o)
    OBVIOUS
  <2>6. IF before = {} THEN log[o + 1].prev = None /\ log[o + 1].type = "TXN_BEG"
        ELSE log[o + 1].prev \in before /\ \A p \in before : p <= log[o + 1].prev
    BY <2>4, <2>5
  <2>7. IF after = {} THEN log[o + 1].next = None
        ELSE log[o + 1].next \in after /\ \A p \in after : log[o + 1].next <= p
    BY <2>4, <2>5
  <2> QED BY <2>6, <2>7
<1> QED BY <1>1, <1>2, <1>3, LogTypes, RecordsInvariant, PTL DEF Spec


-----------------------------------------------------------------------------
(***************************************************************************)
(* The updates: what was noted for the release, what it has applied and    *)
(* what the file has of it.  A log call that fails keeps log_mutex, and    *)
(* its thread never logs anything again.                                   *)
(***************************************************************************)
Calls == {"lock", "ftell", "seek_prev", "link", "seek_end", "head", "body", "fflush"}
Applying == {"delayed_seek", "delayed_read"}

\* The transaction has committed or may still do so.
MayCommit(t) ==
    \/ pc[t] \in {"idle", "run"}
    \/ pc[t] \in Calls /\ fn[t] \in UpdateTypes \cup {"TXN_BEG", "TXN_COMMIT"}

\* Its commit record is in the file.
CommitWritten(t) == \E o \in HeadsOf(t) : log[o + 1].type = "TXN_COMMIT" /\ o < Len(disk)

\* The update whose record is written and not noted yet.
Unnoted(t) == IF pc[t] \in {"body", "fflush"} /\ fn[t] \in UpdateTypes THEN 1 ELSE 0

\* Where a transaction is, which record it writes and what it has noted.
Course(t) ==
    /\ pc[t] = "idle" => fn[t] = "TXN_BEG"
    /\ pc[t] \in {"release"} \cup Applying => fn[t] \in {"TXN_COMMIT", "TXN_ABORT"}
    /\ pc[t] \in Applying => fn[t] = "TXN_COMMIT"
    /\ pc[t] = "done" => fn[t] = "TXN_END"
    /\ fn[t] = "TXN_END" => pc[t] \in Calls \cup {"done"}
    /\ pc[t] = "finish" \/ fn[t] = "TXN_END" => writes_at[t] = <<>>
    /\ t = Backup => writes_at[t] = <<>> /\ fn[t] \in {"TXN_BEG", "TXN_END"}
    /\ pc[t] = "delayed_read" => pos = At(Head(writes_at[t]).lrn + 1, "start")

\* The commit record is there exactly when the release of a commit goes on.
CommitRight(t) ==
    /\ Has(t, "TXN_COMMIT") =>
         \/ fn[t] = "TXN_END"
         \/ /\ fn[t] = "TXN_COMMIT"
            /\ pc[t] \in {"body", "fflush", "release", "finish"} \cup Applying
    /\ fn[t] = "TXN_COMMIT" /\ pc[t] \in {"body", "fflush", "release", "finish"} \cup Applying =>
         LogFailed(t) \/ Has(t, "TXN_COMMIT")

\* What was applied: in order, whole, in the file, and after the commit record.
AppliedRight(t) ==
    /\ \A i, j \in 1..Len(applied[t]) : i < j => applied[t][i].lrn < applied[t][j].lrn
    /\ \A i \in 1..Len(applied[t]) :
         \E o \in UpdatesOf(t) : applied[t][i] = BodyCell(o, t) /\ o + 1 < Len(disk)
    /\ applied[t] # <<>> =>
         fn[t] = "TXN_END" \/ (fn[t] = "TXN_COMMIT" /\ pc[t] \in {"finish"} \cup Applying)
    /\ applied[t] # <<>> \/ pc[t] \in Applying => LogFailed(t) \/ CommitWritten(t)

\* What is noted for the release: in order, behind what was applied, and in the
\* file once the release applies it.
NotedRight(t) ==
    ~ (LogFailed(t) /\ pc[t] \in {"run", "lock"}) =>
      /\ \A i \in 1..Len(writes_at[t]) :
           /\ writes_at[t][i].lrn \in UpdatesOf(t)
           /\ writes_at[t][i].lrn + 1 < Len(log)
           /\ pc[t] \in Applying => writes_at[t][i].lrn + 1 < Len(disk)
      /\ \A i, j \in 1..Len(writes_at[t]) : i < j => writes_at[t][i].lrn < writes_at[t][j].lrn
      /\ \A i \in 1..Len(applied[t]), j \in 1..Len(writes_at[t]) :
           applied[t][i].lrn < writes_at[t][j].lrn

\* The record that is about to be noted is the newest.
NewestRight(t) ==
    Unnoted(t) = 1 =>
      /\ log_LRN[t] \in UpdatesOf(t)
      /\ pc[t] = "fflush" => log_LRN[t] + 1 < Len(log)
      /\ \A j \in 1..Len(writes_at[t]) : writes_at[t][j].lrn < log_LRN[t]

\* Every update record is accounted for.
Counted(t) ==
    ~ LogFailed(t) /\ (MayCommit(t) \/ Has(t, "TXN_COMMIT")) =>
      Cardinality(UpdatesOf(t)) = Len(applied[t]) + Len(writes_at[t]) + Unnoted(t)

\* The file is a beginning of the log, but for the links.
DiskRight ==
    /\ Len(disk) <= Len(log)
    /\ \A j \in 1..Len(disk) :
         /\ disk[j].kind = log[j].kind
         /\ log[j].kind = "head" => disk[j].txn = log[j].txn /\ disk[j].type = log[j].type
         /\ log[j].kind = "body" => disk[j] = log[j]

Accounted(t) ==
    /\ Course(t) /\ CommitRight(t) /\ AppliedRight(t) /\ NotedRight(t) /\ NewestRight(t)
    /\ Counted(t)

\* A transaction whose records stay has the same updates and the same outcome
\* (log_txn_commit is the only one to write a commit record).
LEMMA SameUpdates ==
    ASSUME NEW u, HeadsOf(u)' = HeadsOf(u),
           \A o \in HeadsOf(u) : log'[o + 1].type = log[o + 1].type,
           Len(disk) \in Nat, Len(disk') \in Nat, Len(disk') >= Len(disk)
    PROVE  /\ UpdatesOf(u)' = UpdatesOf(u)
           /\ Has(u, "TXN_COMMIT")' <=> Has(u, "TXN_COMMIT")
           /\ CommitWritten(u) => CommitWritten(u)'
<1>1. UpdatesOf(u)' = UpdatesOf(u)
  BY DEF UpdatesOf
<1>2. Has(u, "TXN_COMMIT")' <=> Has(u, "TXN_COMMIT")
  BY DEF Has
<1>3. ASSUME NEW o \in HeadsOf(u), log[o + 1].type = "TXN_COMMIT", o < Len(disk)
      PROVE  CommitWritten(u)'
  <2>1. o \in Int
    BY DEF HeadsOf, Offsets
  <2>2. o < Len(disk') /\ o \in HeadsOf(u)' /\ log'[o + 1].type = "TXN_COMMIT"
    BY <1>3, <2>1
  <2> QED BY <2>2 DEF CommitWritten
<1> QED BY <1>1, <1>2, <1>3 DEF CommitWritten

\* What a step of t leaves of the other transactions.
LeavesOthers(t) ==
    /\ \A u \in Txns : u # t =>
         /\ pc'[u] = pc[u] /\ fn'[u] = fn[u] /\ log_LRN'[u] = log_LRN[u]
         /\ writes_at'[u] = writes_at[u] /\ applied'[u] = applied[u]
         /\ LogFailed(u)' <=> LogFailed(u)
         /\ HeadsOf(u)' = HeadsOf(u)
         /\ \A o \in HeadsOf(u) : log'[o + 1].type = log[o + 1].type
    /\ Len(log') >= Len(log) /\ Len(disk') >= Len(disk)
    /\ pos' = pos \/ Races(t)

\* The step of one thread leaves the account of the others, whose reads it did
\* not disturb (raced).
LEMMA OthersAccounted ==
    ASSUME TypeOK, TypeOK', ~raced', NEW t \in Txns, LeavesOthers(t),
           NEW u \in Txns, u # t, Accounted(u)
    PROVE  Accounted(u)'
<1>1. /\ pc'[u] = pc[u] /\ fn'[u] = fn[u] /\ log_LRN'[u] = log_LRN[u]
      /\ writes_at'[u] = writes_at[u] /\ applied'[u] = applied[u]
      /\ LogFailed(u)' <=> LogFailed(u)
      /\ HeadsOf(u)' = HeadsOf(u)
      /\ \A o \in HeadsOf(u) : log'[o + 1].type = log[o + 1].type
      /\ pos' = pos \/ Races(t)
  BY DEF LeavesOthers
<1>2. /\ Len(log) \in Nat /\ Len(log') \in Nat /\ Len(disk) \in Nat /\ Len(disk') \in Nat
      /\ Len(log') >= Len(log) /\ Len(disk') >= Len(disk)
  <2>1. log \in Seq(Cells) /\ log' \in Seq(Cells) /\ disk \in Seq(Cells) /\ disk' \in Seq(Cells)
    BY DEF TypeOK
  <2> QED BY <2>1 DEF LeavesOthers
<1>3. /\ UpdatesOf(u)' = UpdatesOf(u)
      /\ Has(u, "TXN_COMMIT")' <=> Has(u, "TXN_COMMIT")
      /\ CommitWritten(u) => CommitWritten(u)'
  BY <1>1, <1>2, SameUpdates
<1>4. UpdatesOf(u) \in SUBSET Int
  BY DEF UpdatesOf, HeadsOf, Offsets
<1>5. Course(u)'
  <2>1. pc[u] = "delayed_read" => pos' = pos
    BY <1>1 DEF Races, InSequence
  <2> QED BY <1>1, <2>1 DEF Accounted, Course
<1>6. CommitRight(u)'
  BY <1>1, <1>3 DEF Accounted, CommitRight
<1>7. AppliedRight(u)'
  <2>1. \A o \in UpdatesOf(u) : o + 1 < Len(disk) => o + 1 < Len(disk')
    BY <1>2, <1>4
  <2> QED BY <1>1, <1>3, <2>1 DEF Accounted, AppliedRight
<1>8. NotedRight(u)'
  <2>1. \A o \in UpdatesOf(u) : /\ o + 1 < Len(disk) => o + 1 < Len(disk')
                                /\ o + 1 < Len(log) => o + 1 < Len(log')
    BY <1>2, <1>4
  <2> QED BY <1>1, <1>3, <2>1 DEF Accounted, NotedRight
<1>9. NewestRight(u)'
  <2>1. \A o \in UpdatesOf(u) : o + 1 < Len(log) => o + 1 < Len(log')
    BY <1>2, <1>4
  <2>2. Unnoted(u)' = Unnoted(u)
    BY <1>1 DEF Unnoted
  <2> QED BY <1>1, <1>3, <2>1, <2>2 DEF Accounted, NewestRight
<1>10. Counted(u)'
  <2>1. Unnoted(u)' = Unnoted(u) /\ (MayCommit(u)' <=> MayCommit(u))
    BY <1>1 DEF Unnoted, MayCommit
  <2> QED BY <1>1, <1>3, <2>1 DEF Accounted, Counted
<1> QED BY <1>5, <1>6, <1>7, <1>8, <1>9, <1>10 DEF Accounted

\* A thread writes its own entries only.
LEMMA OwnEntries ==
    ASSUME TypeOK, NEW t \in Txns, on_txn_beg(t) \/ Client(t) \/ LogCall(t) \/ Release(t)
    PROVE  /\ \A u \in Txns : u # t =>
                /\ pc'[u] = pc[u] /\ fn'[u] = fn[u] /\ log_LRN'[u] = log_LRN[u]
                /\ writes_at'[u] = writes_at[u] /\ applied'[u] = applied[u]
           /\ pos' = pos \/ Races(t)
           /\ disk' = disk \/ disk' = log
           /\ log' = log \/ LinkPrev(t) \/ WriteHead(t) \/ WriteBody(t)
<1>1. /\ pc \in [Txns -> PC] /\ fn \in [Txns -> RecordTypes] /\ log_LRN \in [Txns -> Int]
      /\ writes_at \in [Txns -> Seq([lrn : Int, type : UpdateTypes])]
      /\ applied \in [Txns -> Seq(Cells)]
  BY DEF TypeOK
<1>2. CASE on_txn_beg(t)
  BY <1>1, <1>2 DEF on_txn_beg, CallLog, logVars
<1>3. CASE Client(t)
  BY <1>1, <1>3 DEF Client, on_update, on_txn_commit, on_txn_abort, CallLog, logVars
<1>4. CASE LogLock(t) \/ SeekPrev(t) \/ SeekEnd(t)
  BY <1>1, <1>4 DEF LogLock, SeekPrev, SeekEnd, fseek
<1>5. CASE extract_record_no(t)
  BY <1>1, <1>5 DEF extract_record_no, logVars
<1>6. CASE LinkPrev(t)
  BY <1>1, <1>6 DEF LinkPrev, fwrite_next
<1>7. CASE WriteHead(t)
  BY <1>1, <1>7 DEF WriteHead, fwrite_cell
<1>8. CASE WriteBody(t)
  BY <1>1, <1>8 DEF WriteBody, fwrite_cell
<1>9. CASE FlushAndReturn(t) \/ LinkFails(t)
  <2>1. PICK q, w : pc' = [pc EXCEPT ![t] = q] /\ writes_at' = [writes_at EXCEPT ![t] = w]
    BY <1>9 DEF FlushAndReturn, LinkFails, Return
  <2> QED BY <1>1, <1>9, <2>1 DEF FlushAndReturn, LinkFails, logVars
<1>10. CASE release_locks(t)
  BY <1>1, <1>10 DEF release_locks
<1>11. CASE delayed_seek(t)
  BY <1>1, <1>11 DEF delayed_seek, fseek
<1>12. CASE delayed_read(t)
  BY <1>1, <1>12 DEF delayed_read
<1>13. CASE txn_delete(t)
  BY <1>1, <1>13 DEF txn_delete, CallLog, logVars
<1> QED BY <1>2, <1>3, <1>4, <1>5, <1>6, <1>7, <1>8, <1>9, <1>10, <1>11, <1>12, <1>13
        DEF LogCall, Release

\* A call takes log_mutex when it is free and gives back what it has.
LEMMA OwnMutex ==
    ASSUME LogAssumption, TypeOK, Locked, NEW t \in Txns,
           on_txn_beg(t) \/ Client(t) \/ LogCall(t) \/ Release(t)
    PROVE  \A u \in Txns : u # t => (log_mutex' = u <=> log_mutex = u)
<1>1. NoTxn \notin Txns
  <2>1. \A u \in Txns : u \in Nat
    BY DEF LogAssumption, Txns, Backup
  <2> QED BY <2>1 DEF NoTxn
<1>2. CASE LogLock(t)
  BY <1>1, <1>2 DEF LogLock
<1>3. CASE WriteBody(t)
  BY <1>1, <1>3 DEF WriteBody, Locked, Writing
<1>4. CASE ~LogLock(t) /\ ~WriteBody(t)
  <2>1. log_mutex' = log_mutex
    BY <1>4 DEF on_txn_beg, Client, on_update, on_txn_commit, on_txn_abort, LogCall, SeekPrev,
                SeekEnd, extract_record_no, LinkPrev, LinkFails, WriteHead, FlushAndReturn,
                Release, release_locks, delayed_seek, delayed_read, txn_delete
  <2> QED BY <2>1
<1> QED BY <1>2, <1>3, <1>4

\* What is in the log stays there; a link changes next_LRN of a head only.
CellsKept ==
    \A i \in 1..Len(log) :
        /\ log'[i].kind = log[i].kind
        /\ log[i].kind = "head" => log'[i].txn = log[i].txn /\ log'[i].type = log[i].type
        /\ log[i].kind = "body" => log'[i] = log[i]

\* The head of a record becomes the newest of its transaction.
LEMMA HeadWritten ==
    ASSUME TypeOK, TypeOK', Records, NEW t \in Txns, WriteHead(t)
    PROVE  /\ log_LRN[t] = Len(log) /\ Len(log') = Len(log) + 1
           /\ log'[Len(log) + 1] = HeadCell(log_LRN[t], t, prev_LRN[t], fn[t])
           /\ \A i \in 1..Len(log) : log'[i] = log[i]
           /\ HeadsOf(t)' = HeadsOf(t) \cup {Len(log)}
           /\ \A u \in Txns : u # t => HeadsOf(u)' = HeadsOf(u)
           /\ \A u \in Txns : \A o \in HeadsOf(u) :
                 o \in Nat /\ o < Len(log) /\ log'[o + 1] = log[o + 1]
<1> DEFINE c == HeadCell(log_LRN[t], t, prev_LRN[t], fn[t])
           n == Len(log)
<1>1. log \in Seq(Cells) /\ log' \in Seq(Cells) /\ n \in Nat
  <2>1. log \in Seq(Cells) /\ log' \in Seq(Cells)
    BY DEF TypeOK
  <2> QED BY <2>1
<1>2. pc[t] = "head" /\ log' = PutCell(log, pos, c)
  BY DEF WriteHead, fwrite_cell
<1>3. pos = At(n, "start") /\ log_LRN[t] = n
  BY <1>2 DEF Records, Placed, EndOfLog
<1>4. c \in Cells /\ c.kind = "head" /\ c.txn = t
  BY DEF HeadCell, Cells, TypeOK, None
<1> HIDE DEF c
<1>5. Len(log') = n + 1 /\ log'[n + 1] = c /\ \A i \in 1..n : log'[i] = log[i]
  <2>1. log' = Append(log, c)
    BY <1>1, <1>2, <1>3, <1>4, Appended
  <2> QED BY <1>1, <1>4, <2>1, Appended
<1>6. \A u \in Txns : /\ HeadsOf(u)' = HeadsOf(u) \cup
                             (IF log'[n + 1].kind = "head" /\ log'[n + 1].txn = u
                              THEN {n} ELSE {})
                      /\ HeadsOf(u) \in SUBSET Nat
                      /\ \A o \in HeadsOf(u) : o < n /\ log'[o + 1] = log[o + 1]
  BY <1>1, <1>5, HeadsGrown
<1> HIDE DEF n
<1>7. HeadsOf(t)' = HeadsOf(t) \cup {n} /\ \A u \in Txns : u # t => HeadsOf(u)' = HeadsOf(u)
  BY <1>4, <1>5, <1>6
<1> QED BY <1>3, <1>5, <1>6, <1>7 DEF c, n

\* The body comes behind its head and is no record of its own.
LEMMA BodyWritten ==
    ASSUME TypeOK, TypeOK', Records, NEW t \in Txns, WriteBody(t)
    PROVE  /\ log_LRN[t] = Len(log) - 1 /\ Len(log') = Len(log) + 1
           /\ \A i \in 1..Len(log) : log'[i] = log[i]
           /\ \A u \in Txns : HeadsOf(u)' = HeadsOf(u)
           /\ \A u \in Txns : \A o \in HeadsOf(u) :
                 o \in Nat /\ o < Len(log) /\ log'[o + 1] = log[o + 1]
<1> DEFINE c == BodyCell(log_LRN[t], t)
           n == Len(log)
<1>1. log \in Seq(Cells) /\ log' \in Seq(Cells) /\ n \in Nat
  <2>1. log \in Seq(Cells) /\ log' \in Seq(Cells)
    BY DEF TypeOK
  <2> QED BY <2>1
<1>2. pc[t] = "body" /\ log' = PutCell(log, pos, c)
  BY DEF WriteBody, fwrite_cell
<1>3. pos = At(n, "start") /\ log_LRN[t] = n - 1
  BY <1>2 DEF Records, Placed, EndOfLog
<1>4. c \in Cells /\ c.kind = "body"
  BY DEF BodyCell, Cells, TypeOK
<1> HIDE DEF c
<1>5. Len(log') = n + 1 /\ log'[n + 1] = c /\ \A i \in 1..n : log'[i] = log[i]
  <2>1. log' = Append(log, c)
    BY <1>1, <1>2, <1>3, <1>4, Appended
  <2> QED BY <1>1, <1>4, <2>1, Appended
<1>6. \A u \in Txns : /\ HeadsOf(u)' = HeadsOf(u) \cup
                             (IF log'[n + 1].kind = "head" /\ log'[n + 1].txn = u
                              THEN {n} ELSE {})
                      /\ HeadsOf(u) \in SUBSET Nat
                      /\ \A o \in HeadsOf(u) : o < n /\ log'[o + 1] = log[o + 1]
  BY <1>1, <1>5, HeadsGrown
<1> HIDE DEF n
<1>7. \A u \in Txns : HeadsOf(u)' = HeadsOf(u)
  BY <1>4, <1>5, <1>6
<1> QED BY <1>3, <1>5, <1>6, <1>7 DEF n

\* The link changes next_LRN of one head, and no transaction's records.
LEMMA LinkWritten ==
    ASSUME TypeOK, TypeOK', Records, NEW t \in Txns, LinkPrev(t)
    PROVE  /\ CellsKept /\ Len(log') = Len(log)
           /\ \A u \in Txns : HeadsOf(u)' = HeadsOf(u)
<1>1. PICK p : p = prev_LRN[t]
  OBVIOUS
<1>2. /\ p \in Nat /\ p + 1 \in 1..Len(log) /\ Len(log') = Len(log)
      /\ \A i \in 1..Len(log) : i # p + 1 => log'[i] = log[i]
      /\ log[p + 1] \in HeadCells
      /\ log'[p + 1] = [log[p + 1] EXCEPT !.next = log_LRN[t]]
  BY <1>1, LinkShape
<1>3. /\ log'[p + 1].kind = "head" /\ log[p + 1].kind = "head"
      /\ log'[p + 1].txn = log[p + 1].txn /\ log'[p + 1].type = log[p + 1].type
  BY <1>2 DEF HeadCells
<1>4. CellsKept
  BY <1>2, <1>3 DEF CellsKept
<1>5. Offsets' = Offsets /\ \A o \in Offsets : o + 1 \in 1..Len(log)
  <2>1. Len(log) \in Nat
    BY DEF TypeOK
  <2> QED BY <1>2, <2>1 DEF Offsets
<1>6. \A o \in Offsets : /\ log'[o + 1].kind = log[o + 1].kind
                         /\ log[o + 1].kind = "head" => log'[o + 1].txn = log[o + 1].txn
  BY <1>4, <1>5 DEF CellsKept
<1>7. \A u \in Txns : HeadsOf(u)' = HeadsOf(u)
  BY <1>5, <1>6 DEF HeadsOf
<1> QED BY <1>2, <1>4, <1>7

\* No step takes a record from a transaction, and only log_* of a transaction
\* gives it one.
LEMMA LogGrows ==
    ASSUME TypeOK, TypeOK', Records, NEW t \in Txns,
           on_txn_beg(t) \/ Client(t) \/ LogCall(t) \/ Release(t)
    PROVE  /\ CellsKept /\ Len(log') >= Len(log)
           /\ \A u \in Txns : u # t \/ ~WriteHead(t) => HeadsOf(u)' = HeadsOf(u)
           /\ \A u \in Txns : \A o \in HeadsOf(u) :
                 o \in Nat /\ o < Len(log) /\ log'[o + 1].type = log[o + 1].type
<1>1. Len(log) \in Nat
  BY DEF TypeOK
<1>2. \A u \in Txns : \A o \in HeadsOf(u) :
         o \in Nat /\ o < Len(log) /\ o + 1 \in 1..Len(log) /\ log[o + 1].kind = "head"
  BY <1>1 DEF HeadsOf, Offsets
<1>3. CASE log' = log
  <2>1. CellsKept
    BY <1>3 DEF CellsKept
  <2>2. \A u \in Txns : HeadsOf(u)' = HeadsOf(u)
    BY <1>3 DEF HeadsOf, Offsets
  <2> QED BY <1>1, <1>2, <1>3, <2>1, <2>2
<1>4. CASE LinkPrev(t)
  <2>1. CellsKept /\ Len(log') = Len(log) /\ \A u \in Txns : HeadsOf(u)' = HeadsOf(u)
    BY <1>4, LinkWritten
  <2> QED BY <1>1, <1>2, <2>1 DEF CellsKept
<1>5. CASE WriteHead(t)
  <2>1. /\ Len(log') = Len(log) + 1 /\ \A i \in 1..Len(log) : log'[i] = log[i]
        /\ \A u \in Txns : u # t => HeadsOf(u)' = HeadsOf(u)
    BY <1>5, HeadWritten
  <2> QED BY <1>1, <1>2, <1>5, <2>1 DEF CellsKept
<1>6. CASE WriteBody(t)
  <2>1. /\ Len(log') = Len(log) + 1 /\ \A i \in 1..Len(log) : log'[i] = log[i]
        /\ \A u \in Txns : HeadsOf(u)' = HeadsOf(u)
    BY <1>6, BodyWritten
  <2> QED BY <1>1, <1>2, <2>1 DEF CellsKept
<1> QED BY <1>3, <1>4, <1>5, <1>6, OwnEntries

\* fflush brings the log to the file as it is, and what is written later leaves
\* what the file has of it.
LEMMA DiskKept ==
    ASSUME TypeOK, TypeOK', DiskRight, CellsKept, Len(log') >= Len(log),
           disk' = disk \/ disk' = log
    PROVE  DiskRight' /\ Len(disk') >= Len(disk)
<1>1. Len(log) \in Nat /\ Len(log') \in Nat /\ Len(disk) \in Nat /\ Len(disk') \in Nat
  <2>1. log \in Seq(Cells) /\ log' \in Seq(Cells) /\ disk \in Seq(Cells) /\ disk' \in Seq(Cells)
    BY DEF TypeOK
  <2> QED BY <2>1
<1>2. CASE disk' = log
  BY <1>1, <1>2 DEF DiskRight, CellsKept
<1>3. CASE disk' = disk
  <2>1. \A j \in 1..Len(disk) : j \in 1..Len(log)
    BY <1>1 DEF DiskRight
  <2>2. ASSUME NEW j \in 1..Len(disk)
        PROVE  /\ disk[j].kind = log'[j].kind
               /\ log'[j].kind = "head" => disk[j].txn = log'[j].txn /\ disk[j].type = log'[j].type
               /\ log'[j].kind = "body" => disk[j] = log'[j]
    <3>1. j \in 1..Len(log)
      BY <2>1
    <3>2. /\ log'[j].kind = log[j].kind
          /\ log[j].kind = "head" => log'[j].txn = log[j].txn /\ log'[j].type = log[j].type
          /\ log[j].kind = "body" => log'[j] = log[j]
      BY <3>1 DEF CellsKept
    <3>3. /\ disk[j].kind = log[j].kind
          /\ log[j].kind = "head" => disk[j].txn = log[j].txn /\ disk[j].type = log[j].type
          /\ log[j].kind = "body" => disk[j] = log[j]
      BY DEF DiskRight
    <3> QED BY <3>2, <3>3
  <2>3. Len(disk) <= Len(log')
    BY <1>1 DEF DiskRight
  <2> QED BY <1>1, <1>3, <2>2, <2>3 DEF DiskRight
<1> QED BY <1>2, <1>3

\* Every step leaves the other transactions as they are.
LEMMA StepLeavesOthers ==
    ASSUME LogAssumption, TypeOK, TypeOK', Locked, Records, DiskRight, NEW t \in Txns,
           on_txn_beg(t) \/ Client(t) \/ LogCall(t) \/ Release(t)
    PROVE  LeavesOthers(t) /\ DiskRight' /\ Len(disk') >= Len(disk)
<1>1. /\ \A u \in Txns : u # t =>
           /\ pc'[u] = pc[u] /\ fn'[u] = fn[u] /\ log_LRN'[u] = log_LRN[u]
           /\ writes_at'[u] = writes_at[u] /\ applied'[u] = applied[u]
      /\ pos' = pos \/ Races(t)
      /\ disk' = disk \/ disk' = log
  BY OwnEntries
<1>2. \A u \in Txns : u # t => (LogFailed(u)' <=> LogFailed(u))
  BY <1>1, OwnMutex DEF LogFailed
<1>3. /\ CellsKept /\ Len(log') >= Len(log)
      /\ \A u \in Txns : u # t => HeadsOf(u)' = HeadsOf(u)
      /\ \A u \in Txns : \A o \in HeadsOf(u) : log'[o + 1].type = log[o + 1].type
  BY LogGrows
<1>4. DiskRight' /\ Len(disk') >= Len(disk)
  BY <1>1, <1>3, DiskKept
<1> QED BY <1>1, <1>2, <1>3, <1>4 DEF LeavesOthers

\* A call on its way to the end of the log changes nothing of the account.
LEMMA MoveAccounted ==
    ASSUME LogAssumption, TypeOK, TypeOK', Records, DiskRight, Locked,
           NEW t \in Txns, Accounted(t),
           LogLock(t) \/ extract_record_no(t) \/ SeekPrev(t) \/ LinkPrev(t) \/ SeekEnd(t)
    PROVE  Accounted(t)'
<1>1. /\ fn'[t] = fn[t] /\ writes_at'[t] = writes_at[t] /\ applied'[t] = applied[t]
      /\ disk' = disk
  BY DEF LogLock, extract_record_no, SeekPrev, LinkPrev, SeekEnd, logVars
<1>2. /\ pc[t] \in {"lock", "ftell", "seek_prev", "link", "seek_end"}
      /\ pc'[t] \in {"ftell", "seek_prev", "link", "seek_end", "head"}
  <2>1. pc \in [Txns -> PC]
    BY DEF TypeOK
  <2> QED BY <2>1 DEF LogLock, extract_record_no, SeekPrev, LinkPrev, SeekEnd
<1>3. ~LogFailed(t) /\ ~LogFailed(t)'
  <2>1. NoTxn \notin Txns
    <3>1. \A u \in Txns : u \in Nat
      BY DEF LogAssumption, Txns, Backup
    <3> QED BY <3>1 DEF NoTxn
  <2>2. pc[t] = "lock" => log_mutex = NoTxn
    BY DEF LogLock, extract_record_no, SeekPrev, LinkPrev, SeekEnd
  <2> QED BY <1>2, <2>1, <2>2 DEF LogFailed
<1>4. /\ Len(log') >= Len(log) /\ HeadsOf(t)' = HeadsOf(t)
      /\ \A o \in HeadsOf(t) : o \in Nat /\ log'[o + 1].type = log[o + 1].type
      /\ Len(log) \in Nat /\ Len(log') \in Nat /\ Len(disk) \in Nat
  <2>1. ~WriteHead(t)
    BY DEF LogLock, extract_record_no, SeekPrev, LinkPrev, SeekEnd, WriteHead
  <2>2. log \in Seq(Cells) /\ log' \in Seq(Cells) /\ disk \in Seq(Cells)
    BY DEF TypeOK
  <2> QED BY <2>1, <2>2, LogGrows DEF LogCall
<1>5. /\ UpdatesOf(t)' = UpdatesOf(t)
      /\ Has(t, "TXN_COMMIT")' <=> Has(t, "TXN_COMMIT")
      /\ CommitWritten(t) => CommitWritten(t)'
  BY <1>1, <1>4, SameUpdates
<1>6. Course(t)'
  BY <1>1, <1>2 DEF Accounted, Course, Calls, Applying
<1>7. CommitRight(t)'
  BY <1>1, <1>2, <1>5 DEF Accounted, CommitRight, Applying
<1>8. AppliedRight(t)'
  BY <1>1, <1>2, <1>3, <1>5 DEF Accounted, AppliedRight, Applying
<1>9. NotedRight(t)'
  <2>1. \A o \in UpdatesOf(t) : o + 1 < Len(log) => o + 1 < Len(log')
    BY <1>4 DEF UpdatesOf
  <2> QED BY <1>1, <1>2, <1>3, <1>5, <2>1 DEF Accounted, NotedRight, Applying
<1>10. Unnoted(t) = 0 /\ Unnoted(t)' = 0
  BY <1>2 DEF Unnoted
<1>11. Counted(t)'
  <2>1. MayCommit(t)' => MayCommit(t)
    BY <1>1, <1>2 DEF MayCommit, Calls
  <2> QED BY <1>1, <1>3, <1>5, <1>10, <2>1 DEF Accounted, Counted
<1> QED BY <1>6, <1>7, <1>8, <1>9, <1>10, <1>11 DEF Accounted, NewestRight

\* The head of a record is what makes an update of the transaction, or its
\* commit.
LEMMA HeadAccounted ==
    ASSUME TypeOK, TypeOK', Records, NEW t \in Txns, Accounted(t), WriteHead(t)
    PROVE  Accounted(t)'
<1> DEFINE n == Len(log)
<1>1. /\ fn'[t] = fn[t] /\ writes_at'[t] = writes_at[t] /\ applied'[t] = applied[t]
      /\ disk' = disk /\ log_LRN'[t] = log_LRN[t] /\ pc[t] = "head" /\ pc'[t] = "body"
  <2>1. pc \in [Txns -> PC]
    BY DEF TypeOK
  <2> QED BY <2>1 DEF WriteHead
<1>2. ~LogFailed(t) /\ ~LogFailed(t)'
  BY <1>1 DEF LogFailed
<1>3. /\ log_LRN[t] = n /\ Len(log') = n + 1 /\ n \in Nat
      /\ log'[n + 1] = HeadCell(log_LRN[t], t, prev_LRN[t], fn[t])
      /\ HeadsOf(t)' = HeadsOf(t) \cup {n}
      /\ \A o \in HeadsOf(t) : o \in Nat /\ o < n /\ log'[o + 1] = log[o + 1]
  <2>1. n \in Nat
    BY DEF TypeOK
  <2> QED BY <2>1, HeadWritten
<1> HIDE DEF n
<1>4. log'[n + 1].type = fn[t]
  BY <1>3 DEF HeadCell
<1>5. UpdatesOf(t)' = UpdatesOf(t) \cup (IF fn[t] \in UpdateTypes THEN {n} ELSE {})
  <2>1. UpdatesOf(t)' = {o \in HeadsOf(t) \cup {n} : log'[o + 1].type \in UpdateTypes}
    BY <1>3 DEF UpdatesOf
  <2> QED BY <1>3, <1>4, <2>1 DEF UpdatesOf
<1>6. \A o \in UpdatesOf(t) : o \in Nat /\ o < n
  BY <1>3 DEF UpdatesOf
<1>7. Has(t, "TXN_COMMIT")' <=> Has(t, "TXN_COMMIT") \/ fn[t] = "TXN_COMMIT"
  <2>1. Has(t, "TXN_COMMIT")' <=>
           \E o \in HeadsOf(t) \cup {n} : log'[o + 1].type = "TXN_COMMIT"
    BY <1>3 DEF Has
  <2> QED BY <1>3, <1>4, <2>1 DEF Has
<1>8. CommitWritten(t) => CommitWritten(t)'
  BY <1>1, <1>3 DEF CommitWritten
<1>9. Course(t)'
  BY <1>1 DEF Accounted, Course, Calls, Applying
<1>10. CommitRight(t)'
  BY <1>1, <1>7 DEF Accounted, CommitRight, Applying
<1>11. AppliedRight(t)'
  BY <1>1, <1>2, <1>5, <1>8 DEF Accounted, AppliedRight, Applying
<1>12. /\ \A i \in 1..Len(writes_at[t]) :
            writes_at[t][i].lrn \in UpdatesOf(t) /\ writes_at[t][i].lrn + 1 < Len(log)
       /\ NotedRight(t)
  BY <1>1, <1>2 DEF Accounted, NotedRight
<1>13. NotedRight(t)'
  <2>1. \A i \in 1..Len(writes_at[t]) :
           /\ writes_at[t][i].lrn \in UpdatesOf(t) \cup (IF fn[t] \in UpdateTypes THEN {n} ELSE {})
           /\ writes_at[t][i].lrn + 1 < Len(log')
    BY <1>3, <1>6, <1>12 DEF n
  <2> QED BY <1>1, <1>2, <1>5, <1>12, <2>1 DEF NotedRight, Applying
<1>14. NewestRight(t)'
  <2>1. \A j \in 1..Len(writes_at[t]) : writes_at[t][j].lrn < n
    BY <1>6, <1>12
  <2> QED BY <1>1, <1>3, <1>5, <2>1 DEF NewestRight, Unnoted
<1>15. Counted(t)'
  <2>1. IsFiniteSet(UpdatesOf(t)) /\ n \notin UpdatesOf(t)
    <3>1. UpdatesOf(t) \subseteq 0..n
      BY <1>3, <1>6
    <3>2. IsFiniteSet(0..n)
      <4>1. 0 \in Int /\ n \in Int
        BY <1>3
      <4> QED BY <4>1, FS_Interval, Zenon
    <3>3. n \notin UpdatesOf(t)
      BY <1>3, <1>6
    <3> QED BY <3>1, <3>2, <3>3, FS_Subset
  <2>2. fn[t] \in UpdateTypes => Cardinality(UpdatesOf(t)') = Cardinality(UpdatesOf(t)) + 1
    BY <1>5, <2>1, FS_AddElement
  <2>3. Unnoted(t) = 0 /\ Unnoted(t)' = IF fn[t] \in UpdateTypes THEN 1 ELSE 0
    BY <1>1 DEF Unnoted
  <2>4. MayCommit(t)' \/ Has(t, "TXN_COMMIT")' => MayCommit(t) \/ Has(t, "TXN_COMMIT")
    BY <1>1, <1>7 DEF MayCommit, Calls
  <2>5. PICK a \in Nat, w \in Nat : a = Len(applied[t]) /\ w = Len(writes_at[t])
    <3>1. applied[t] \in Seq(Cells) /\ writes_at[t] \in Seq([lrn : Int, type : UpdateTypes])
      BY DEF TypeOK
    <3> QED BY <3>1
  <2>6. MayCommit(t)' \/ Has(t, "TXN_COMMIT")' => Cardinality(UpdatesOf(t)) = a + w
    <3>1. MayCommit(t) \/ Has(t, "TXN_COMMIT") => Cardinality(UpdatesOf(t)) = a + w
      <4>1. Counted(t)
        BY DEF Accounted
      <4>2. MayCommit(t) \/ Has(t, "TXN_COMMIT") =>
               Cardinality(UpdatesOf(t)) = Len(applied[t]) + Len(writes_at[t]) + Unnoted(t)
        BY <1>2, <4>1, Zenon DEF Counted
      <4>3. Len(applied[t]) + Len(writes_at[t]) + Unnoted(t) = a + w
        BY <2>3, <2>5
      <4> QED BY <4>2, <4>3, Zenon
    <3> QED BY <2>4, <3>1
  <2>7. MayCommit(t)' \/ Has(t, "TXN_COMMIT")' =>
           Cardinality(UpdatesOf(t)') = a + w + Unnoted(t)'
    <3>1. CASE fn[t] \in UpdateTypes
      BY <2>2, <2>3, <2>5, <2>6, <3>1
    <3>2. CASE fn[t] \notin UpdateTypes
      <4>1. UpdatesOf(t)' = UpdatesOf(t)
        BY <1>5, <3>2
      <4>2. Cardinality(UpdatesOf(t)') = Cardinality(UpdatesOf(t))
        BY <4>1
      <4>3. Unnoted(t)' = 0
        BY <2>3, <3>2
      <4>4. a + w + Unnoted(t)' = a + w
        BY <4>3
      <4> QED BY <2>6, <4>2, <4>4
    <3> QED BY <3>1, <3>2
  <2> QED BY <1>1, <2>5, <2>7 DEF Counted
<1> QED BY <1>9, <1>10, <1>11, <1>13, <1>14, <1>15 DEF Accounted

\* The body completes the newest record.
LEMMA BodyAccounted ==
    ASSUME TypeOK, TypeOK', Records, NEW t \in Txns, Accounted(t), WriteBody(t)
    PROVE  Accounted(t)'
<1>1. /\ fn'[t] = fn[t] /\ writes_at'[t] = writes_at[t] /\ applied'[t] = applied[t]
      /\ disk' = disk /\ log_LRN'[t] = log_LRN[t] /\ pc[t] = "body" /\ pc'[t] = "fflush"
  <2>1. pc \in [Txns -> PC]
    BY DEF TypeOK
  <2> QED BY <2>1 DEF WriteBody
<1>2. ~LogFailed(t) /\ ~LogFailed(t)'
  BY <1>1 DEF LogFailed
<1>3. /\ log_LRN[t] = Len(log) - 1 /\ Len(log') = Len(log) + 1
      /\ HeadsOf(t)' = HeadsOf(t)
      /\ \A o \in HeadsOf(t) : o \in Nat /\ log'[o + 1] = log[o + 1]
      /\ Len(log) \in Nat /\ Len(disk) \in Nat
  <2>1. log \in Seq(Cells) /\ disk \in Seq(Cells)
    BY DEF TypeOK
  <2>2. Len(log) \in Nat /\ Len(disk) \in Nat
    BY <2>1
  <2> QED BY <2>2, BodyWritten
<1>4. /\ UpdatesOf(t)' = UpdatesOf(t)
      /\ Has(t, "TXN_COMMIT")' <=> Has(t, "TXN_COMMIT")
      /\ CommitWritten(t) => CommitWritten(t)'
  BY <1>1, <1>3, SameUpdates
<1>5. Course(t)'
  BY <1>1 DEF Accounted, Course, Calls, Applying
<1>6. CommitRight(t)'
  BY <1>1, <1>2, <1>4 DEF Accounted, CommitRight, Applying
<1>7. AppliedRight(t)'
  BY <1>1, <1>2, <1>4 DEF Accounted, AppliedRight, Applying
<1>8. NotedRight(t)'
  <2>1. \A o \in UpdatesOf(t) : o + 1 < Len(log) => o + 1 < Len(log')
    BY <1>3 DEF UpdatesOf
  <2> QED BY <1>1, <1>2, <1>4, <2>1 DEF Accounted, NotedRight, Applying
<1>9. Unnoted(t)' = Unnoted(t)
  BY <1>1 DEF Unnoted
<1>10. NewestRight(t)'
  BY <1>1, <1>3, <1>4, <1>9 DEF Accounted, NewestRight
<1>11. Counted(t)'
  <2>1. MayCommit(t)' => MayCommit(t)
    BY <1>1 DEF MayCommit, Calls
  <2> QED BY <1>1, <1>2, <1>4, <1>9, <2>1 DEF Accounted, Counted
<1> QED BY <1>5, <1>6, <1>7, <1>8, <1>10, <1>11 DEF Accounted

\* A caller of log_* goes on, and has noted the update it logged.
LEMMA Returned ==
    ASSUME TypeOK, NEW t \in Txns, NEW ret \in Int, Return(t, ret)
    PROVE  /\ pc'[t] = IF fn[t] \in {"TXN_COMMIT", "TXN_ABORT"} THEN "release"
                       ELSE IF fn[t] = "TXN_END" THEN "done" ELSE "run"
           /\ fn[t] \in UpdateTypes =>
                /\ Len(writes_at'[t]) = Len(writes_at[t]) + 1
                /\ writes_at'[t][Len(writes_at[t]) + 1].lrn = ret
                /\ \A i \in 1..Len(writes_at[t]) : writes_at'[t][i] = writes_at[t][i]
           /\ fn[t] \notin UpdateTypes => writes_at'[t] = writes_at[t]
           /\ Len(writes_at[t]) \in Nat
<1>1. pc \in [Txns -> PC] /\ writes_at \in [Txns -> Seq([lrn : Int, type : UpdateTypes])]
  BY DEF TypeOK
<1>2. pc'[t] = IF fn[t] \in {"TXN_COMMIT", "TXN_ABORT"} THEN "release"
               ELSE IF fn[t] = "TXN_END" THEN "done" ELSE "run"
  BY <1>1 DEF Return
<1>3. PICK w \in Seq([lrn : Int, type : UpdateTypes]) : w = writes_at[t]
  BY <1>1
<1>4. fn[t] \notin UpdateTypes => writes_at'[t] = w
  BY <1>1, <1>3 DEF Return
<1>5. ASSUME fn[t] \in UpdateTypes
      PROVE  /\ Len(writes_at'[t]) = Len(w) + 1 /\ writes_at'[t][Len(w) + 1].lrn = ret
             /\ \A i \in 1..Len(w) : writes_at'[t][i] = w[i]
  <2>1. writes_at'[t] = Append(w, [lrn |-> ret, type |-> fn[t]])
    BY <1>1, <1>3, <1>5 DEF Return
  <2>2. [lrn |-> ret, type |-> fn[t]] \in [lrn : Int, type : UpdateTypes]
    BY <1>5
  <2>3. PICK e \in [lrn : Int, type : UpdateTypes] : e = [lrn |-> ret, type |-> fn[t]] /\ e.lrn = ret
    BY <2>2
  <2>4. writes_at'[t] = Append(w, e)
    BY <2>1, <2>3
  <2> QED BY <2>3, <2>4
<1> QED BY <1>2, <1>3, <1>4, <1>5

\* fflush brings the record to the file, and the handler notes the update.
LEMMA FlushAccounted ==
    ASSUME TypeOK, TypeOK', Records, DiskRight, NEW t \in Txns, Accounted(t), FlushAndReturn(t)
    PROVE  Accounted(t)'
<1>1. /\ fn'[t] = fn[t] /\ applied'[t] = applied[t] /\ log' = log /\ disk' = log
      /\ pc[t] = "fflush" /\ fn[t] \in RecordTypes /\ log_LRN[t] \in Int
      /\ log_mutex' = log_mutex
  BY DEF FlushAndReturn, TypeOK
<1>2. /\ pc'[t] = IF fn[t] \in {"TXN_COMMIT", "TXN_ABORT"} THEN "release"
                  ELSE IF fn[t] = "TXN_END" THEN "done" ELSE "run"
      /\ fn[t] \in UpdateTypes =>
           /\ Len(writes_at'[t]) = Len(writes_at[t]) + 1
           /\ writes_at'[t][Len(writes_at[t]) + 1].lrn = log_LRN[t]
           /\ \A i \in 1..Len(writes_at[t]) : writes_at'[t][i] = writes_at[t][i]
      /\ fn[t] \notin UpdateTypes => writes_at'[t] = writes_at[t]
      /\ Len(writes_at[t]) \in Nat
  BY <1>1, Returned DEF FlushAndReturn
<1>3. ~LogFailed(t)
  BY <1>1 DEF LogFailed
<1>4. HeadsOf(t)' = HeadsOf(t) /\ Len(log) \in Nat /\ Len(disk) \in Nat /\ Len(disk) <= Len(log)
  <2>1. log \in Seq(Cells) /\ disk \in Seq(Cells)
    BY DEF TypeOK
  <2>2. Len(log) \in Nat /\ Len(disk) \in Nat
    BY <2>1
  <2> QED BY <1>1, <2>2 DEF HeadsOf, Offsets, DiskRight
<1>5. /\ UpdatesOf(t)' = UpdatesOf(t)
      /\ Has(t, "TXN_COMMIT")' <=> Has(t, "TXN_COMMIT")
      /\ CommitWritten(t) => CommitWritten(t)'
  BY <1>1, <1>4, SameUpdates
<1>6. Course(t)'
  BY <1>1, <1>2 DEF Accounted, Course, Calls, Applying, UpdateTypes
<1>7. CommitRight(t)'
  BY <1>1, <1>2, <1>3, <1>5 DEF Accounted, CommitRight, Applying
<1>8. applied[t] # <<>> => fn[t] = "TXN_END"
  BY <1>1 DEF Accounted, AppliedRight, Applying
<1>9. AppliedRight(t)'
  <2>1. \A o \in UpdatesOf(t) : o + 1 < Len(disk) => o + 1 < Len(disk')
    BY <1>1, <1>4 DEF UpdatesOf, HeadsOf, Offsets
  <2> QED BY <1>1, <1>2, <1>3, <1>5, <1>8, <2>1 DEF Accounted, AppliedRight, Applying
<1>10. /\ \A i \in 1..Len(writes_at[t]) :
            writes_at[t][i].lrn \in UpdatesOf(t) /\ writes_at[t][i].lrn + 1 < Len(log)
       /\ \A i, j \in 1..Len(writes_at[t]) : i < j => writes_at[t][i].lrn < writes_at[t][j].lrn
       /\ \A i \in 1..Len(applied[t]), j \in 1..Len(writes_at[t]) :
            applied[t][i].lrn < writes_at[t][j].lrn
  BY <1>1, <1>3 DEF Accounted, NotedRight
<1>11. NotedRight(t)'
  <2>1. CASE fn[t] \notin UpdateTypes
    BY <1>1, <1>2, <1>5, <1>10, <2>1 DEF NotedRight, Applying
  <2>2. CASE fn[t] \in UpdateTypes
    <3>1. applied[t] = <<>>
      BY <1>8, <2>2 DEF UpdateTypes
    <3>2. /\ log_LRN[t] \in UpdatesOf(t) /\ log_LRN[t] + 1 < Len(log)
          /\ \A j \in 1..Len(writes_at[t]) : writes_at[t][j].lrn < log_LRN[t]
      BY <1>1, <2>2 DEF Accounted, NewestRight, Unnoted
    <3>3. PICK n \in Nat : n = Len(writes_at[t])
      BY <1>2
    <3>4. \A i \in 1..n + 1 : i = n + 1 \/ i \in 1..n
      OBVIOUS
    <3>5. \A i \in 1..n + 1 : /\ writes_at'[t][i].lrn \in UpdatesOf(t)
                              /\ writes_at'[t][i].lrn + 1 < Len(log)
      BY <1>2, <1>10, <2>2, <3>2, <3>3, <3>4
    <3>6. \A i, j \in 1..n + 1 : i < j => writes_at'[t][i].lrn < writes_at'[t][j].lrn
      <4> SUFFICES ASSUME NEW i \in 1..n + 1, NEW j \in 1..n + 1, i < j
                   PROVE  writes_at'[t][i].lrn < writes_at'[t][j].lrn
        OBVIOUS
      <4>1. i \in 1..n
        OBVIOUS
      <4>2. CASE j = n + 1
        BY <1>2, <2>2, <3>2, <3>3, <4>1, <4>2
      <4>3. CASE j \in 1..n
        BY <1>2, <1>10, <2>2, <3>3, <4>1, <4>3
      <4> QED BY <3>4, <4>2, <4>3
    <3>7. Len(applied'[t]) = 0
      BY <1>1, <3>1
    <3>8. \A i \in 1..Len(applied'[t]) : FALSE
      BY <3>7
    <3>9. Len(writes_at'[t]) = n + 1 /\ pc'[t] = "run"
      BY <1>2, <2>2, <3>3 DEF UpdateTypes
    <3> QED BY <1>1, <1>5, <3>5, <3>6, <3>8, <3>9 DEF NotedRight, Applying
  <2> QED BY <2>1, <2>2
<1>12. NewestRight(t)'
  BY <1>2 DEF NewestRight, Unnoted
<1>13. Counted(t)'
  <2>1. MayCommit(t)' => MayCommit(t)
    BY <1>1, <1>2 DEF MayCommit, Calls, RecordTypes
  <2>2. Unnoted(t)' = 0 /\ Unnoted(t) = IF fn[t] \in UpdateTypes THEN 1 ELSE 0
    BY <1>1, <1>2 DEF Unnoted
  <2>3. PICK a \in Nat, w \in Nat : a = Len(applied[t]) /\ w = Len(writes_at[t])
    <3>1. applied[t] \in Seq(Cells)
      BY DEF TypeOK
    <3> QED BY <1>2, <3>1
  <2>4. PICK k \in {0, 1} : k = Unnoted(t) /\ (k = 1 <=> fn[t] \in UpdateTypes)
    BY <2>2
  <2>5. Len(writes_at'[t]) = w + k
    <3>1. CASE fn[t] \in UpdateTypes
      BY <1>2, <2>3, <2>4, <3>1
    <3>2. CASE fn[t] \notin UpdateTypes
      BY <1>2, <2>3, <2>4, <3>2
    <3> QED BY <3>1, <3>2
  <2>6. Len(applied[t]) + Len(writes_at[t]) + Unnoted(t) = a + w + k
    BY <2>3, <2>4
  <2>7. Len(applied'[t]) + Len(writes_at'[t]) + Unnoted(t)' = a + w + k
    <3>1. a + (w + k) + 0 = a + w + k
      OBVIOUS
    <3> QED BY <1>1, <2>2, <2>3, <2>5, <3>1
  <2>8. MayCommit(t) \/ Has(t, "TXN_COMMIT") => Cardinality(UpdatesOf(t)) = a + w + k
    BY <1>3, <2>6, Zenon DEF Accounted, Counted
  <2>9. MayCommit(t)' \/ Has(t, "TXN_COMMIT")' =>
           Cardinality(UpdatesOf(t)') = Len(applied'[t]) + Len(writes_at'[t]) + Unnoted(t)'
    BY <1>5, <2>1, <2>7, <2>8, Zenon
  <2> QED BY <2>9, Zenon DEF Counted
<1> QED BY <1>6, <1>7, <1>9, <1>11, <1>12, <1>13 DEF Accounted

\* A call that fails is over, and its thread has log_mutex for good.
LEMMA FailAccounted ==
    ASSUME TypeOK, TypeOK', Locked, Records, NEW t \in Txns, Accounted(t), LinkFails(t)
    PROVE  Accounted(t)'
<1>1. /\ fn'[t] = fn[t] /\ applied'[t] = applied[t] /\ log' = log /\ disk' = disk
      /\ pc[t] = "link" /\ fn[t] \in RecordTypes \ {"TXN_BEG"}
      /\ log_mutex = t /\ log_mutex' = t
  <2>1. pc[t] = "link" /\ Linked(t)
    BY DEF LinkFails, Records
  <2> QED BY <2>1 DEF LinkFails, TypeOK, logVars, Locked, Writing, Linked
<1>2. /\ pc'[t] = IF fn[t] \in {"TXN_COMMIT", "TXN_ABORT"} THEN "release"
                  ELSE IF fn[t] = "TXN_END" THEN "done" ELSE "run"
      /\ fn[t] \notin UpdateTypes => writes_at'[t] = writes_at[t]
  <2>1. -1 \in Int /\ Return(t, -1)
    BY DEF LinkFails
  <2> QED BY <2>1, Returned
<1>3. ~LogFailed(t) /\ (LogFailed(t)' <=> fn[t] # "TXN_END")
  BY <1>1, <1>2 DEF LogFailed
<1>4. HeadsOf(t)' = HeadsOf(t)
  BY <1>1 DEF HeadsOf, Offsets
<1>5. /\ UpdatesOf(t)' = UpdatesOf(t)
      /\ Has(t, "TXN_COMMIT")' <=> Has(t, "TXN_COMMIT")
      /\ CommitWritten(t)' <=> CommitWritten(t)
  BY <1>1, <1>4 DEF UpdatesOf, Has, CommitWritten
<1>6. fn[t] \in UpdateTypes <=> pc'[t] = "run"
  BY <1>1, <1>2 DEF RecordTypes, UpdateTypes
<1>7. Course(t)'
  BY <1>1, <1>2, <1>6 DEF Accounted, Course, Calls, Applying, UpdateTypes
<1>8. CommitRight(t)'
  BY <1>1, <1>2, <1>3, <1>5 DEF Accounted, CommitRight, Applying
<1>9. AppliedRight(t)'
  BY <1>1, <1>2, <1>3, <1>5 DEF Accounted, AppliedRight, Applying
<1>10. NotedRight(t)'
  <2>1. CASE pc'[t] = "run"
    BY <1>3, <1>6, <2>1 DEF NotedRight, UpdateTypes
  <2>2. CASE pc'[t] # "run"
    BY <1>1, <1>2, <1>3, <1>5, <1>6, <2>2 DEF Accounted, NotedRight, Applying
  <2> QED BY <2>1, <2>2
<1>11. NewestRight(t)'
  BY <1>2 DEF NewestRight, Unnoted
<1>12. Counted(t)'
  <2>1. CASE fn[t] # "TXN_END"
    BY <1>3, <2>1 DEF Counted
  <2>2. CASE fn[t] = "TXN_END"
    <3>1. ~MayCommit(t)' /\ Unnoted(t)' = 0 /\ Unnoted(t) = 0 /\ writes_at'[t] = writes_at[t]
      BY <1>1, <1>2, <1>6, <2>2 DEF MayCommit, Unnoted, Calls
    <3> QED BY <1>1, <1>3, <1>5, <3>1 DEF Accounted, Counted
  <2> QED BY <2>1, <2>2
<1> QED BY <1>7, <1>8, <1>9, <1>10, <1>11, <1>12 DEF Accounted

\* A handler calls a log_* function for an update or the end of its
\* transaction; nothing is applied yet.
LEMMA CallAccounted ==
    ASSUME LogAssumption, TypeOK, TypeOK', NEW t \in Txns, Accounted(t),
           on_txn_beg(t) \/ Client(t)
    PROVE  Accounted(t)'
<1>1. /\ log' = log /\ disk' = disk /\ log_mutex' = log_mutex
      /\ writes_at'[t] = writes_at[t] /\ applied'[t] = applied[t]
  BY DEF on_txn_beg, Client, on_update, on_txn_commit, on_txn_abort, logVars
<1>2. /\ pc[t] \in {"idle", "run"} /\ pc'[t] = "lock"
      /\ fn'[t] \in UpdateTypes \cup {"TXN_BEG", "TXN_COMMIT", "TXN_ABORT"}
      /\ t = Backup => fn'[t] = "TXN_BEG"
  <2>1. PICK type \in UpdateTypes \cup {"TXN_BEG", "TXN_COMMIT", "TXN_ABORT"} :
           CallLog(t, type) /\ (t = Backup => type = "TXN_BEG") /\ pc[t] \in {"idle", "run"}
    BY DEF on_txn_beg, Client, on_update, on_txn_commit, on_txn_abort, LogAssumption
  <2> QED BY <2>1 DEF CallLog, TypeOK
<1>3. HeadsOf(t)' = HeadsOf(t)
  BY <1>1 DEF HeadsOf, Offsets
<1>4. /\ UpdatesOf(t)' = UpdatesOf(t)
      /\ Has(t, "TXN_COMMIT")' <=> Has(t, "TXN_COMMIT")
  BY <1>1, <1>3 DEF UpdatesOf, Has
<1>5. LogFailed(t) => LogFailed(t)'
  BY <1>1, <1>2 DEF LogFailed
<1>6. pc[t] = "run" /\ LogFailed(t)' => LogFailed(t)
  BY <1>1, <1>2 DEF LogFailed
<1>7. fn[t] # "TXN_END" /\ ~Has(t, "TXN_COMMIT") /\ applied[t] = <<>>
  BY <1>2 DEF Accounted, Course, CommitRight, AppliedRight, Calls, Applying
<1>8. Course(t)'
  BY <1>1, <1>2 DEF Accounted, Course, Calls, Applying, UpdateTypes
<1>9. CommitRight(t)'
  BY <1>2, <1>4, <1>7 DEF CommitRight, Applying
<1>10. AppliedRight(t)'
  BY <1>1, <1>2, <1>4, <1>7 DEF Accounted, AppliedRight, Applying
<1>11. NotedRight(t)'
  BY <1>1, <1>2, <1>4, <1>5, <1>6 DEF Accounted, NotedRight, Applying
<1>12. NewestRight(t)'
  BY <1>2 DEF NewestRight, Unnoted
<1>13. Counted(t)'
  <2>1. Unnoted(t) = 0 /\ Unnoted(t)' = 0 /\ MayCommit(t)
    BY <1>2 DEF Unnoted, MayCommit
  <2> QED BY <1>1, <1>4, <1>5, <2>1 DEF Accounted, Counted
<1> QED BY <1>8, <1>9, <1>10, <1>11, <1>12, <1>13 DEF Accounted

\* Every thread that goes on without a log call leaves the log as it is.
LEMMA SameLog ==
    ASSUME NEW t, log' = log, Len(disk) \in Nat, Len(disk') \in Nat, Len(disk') >= Len(disk)
    PROVE  /\ HeadsOf(t)' = HeadsOf(t) /\ UpdatesOf(t)' = UpdatesOf(t)
           /\ Has(t, "TXN_COMMIT")' <=> Has(t, "TXN_COMMIT")
           /\ CommitWritten(t) => CommitWritten(t)'
<1>1. HeadsOf(t)' = HeadsOf(t)
  BY DEF HeadsOf, Offsets
<1> QED BY <1>1, SameUpdates

\* The backup has no updates, and when its node goes a transaction has none left.
LEMMA OverAccounted ==
    ASSUME TypeOK, TypeOK', NEW t \in Txns, Accounted(t),
           txn_delete(t) \/ (t = Backup /\ BackupOver)
    PROVE  Accounted(t)'
<1>1. /\ log' = log /\ disk' = disk /\ log_mutex' = log_mutex
      /\ writes_at'[t] = writes_at[t] /\ applied'[t] = applied[t]
      /\ Len(disk) \in Nat
  <2>1. disk \in Seq(Cells)
    BY DEF TypeOK
  <2>2. Len(disk) \in Nat
    BY <2>1
  <2> QED BY <2>2 DEF txn_delete, BackupOver, logVars
<1>2. \/ pc[t] = "finish" /\ pc'[t] = "lock" /\ fn'[t] = "TXN_END"
      \/ t = Backup /\ pc[t] = "run" /\ pc'[t] = "finish" /\ fn'[t] = fn[t]
  BY DEF txn_delete, BackupOver, CallLog, TypeOK
<1>3. /\ UpdatesOf(t)' = UpdatesOf(t)
      /\ Has(t, "TXN_COMMIT")' <=> Has(t, "TXN_COMMIT")
      /\ CommitWritten(t) => CommitWritten(t)'
  BY <1>1, SameLog
<1>4. LogFailed(t)' <=> LogFailed(t)
  BY <1>1, <1>2 DEF LogFailed
<1>5. /\ writes_at[t] = <<>>
      /\ pc[t] = "run" => /\ fn[t] = "TXN_BEG" /\ ~Has(t, "TXN_COMMIT") /\ applied[t] = <<>>
  BY <1>2 DEF Accounted, Course, CommitRight, AppliedRight, Calls, Applying
<1>6. Course(t)'
  BY <1>1, <1>2, <1>5 DEF Accounted, Course, Calls, Applying
<1>7. CommitRight(t)'
  BY <1>2, <1>3, <1>5 DEF CommitRight, Applying
<1>8. AppliedRight(t)'
  BY <1>1, <1>2, <1>3, <1>4, <1>5 DEF Accounted, AppliedRight, Applying
<1>9. NotedRight(t)'
  <2>1. Len(writes_at'[t]) = 0
    BY <1>1, <1>5
  <2>2. \A i \in 1..Len(writes_at'[t]) : FALSE
    BY <2>1
  <2> QED BY <2>2 DEF NotedRight
<1>10. NewestRight(t)'
  BY <1>2 DEF NewestRight, Unnoted
<1>11. Counted(t)'
  <2>1. Unnoted(t) = 0 /\ Unnoted(t)' = 0 /\ ~MayCommit(t)'
    BY <1>2 DEF Unnoted, MayCommit, Calls, UpdateTypes
  <2> QED BY <1>1, <1>3, <1>4, <2>1 DEF Accounted, Counted
<1> QED BY <1>6, <1>7, <1>8, <1>9, <1>10, <1>11 DEF Accounted

\* The release brings the log to the file before it applies anything, and
\* forgets the updates of a transaction that aborted.
LEMMA ReleaseAccounted ==
    ASSUME TypeOK, TypeOK', DiskRight, NEW t \in Txns, Accounted(t), release_locks(t)
    PROVE  Accounted(t)'
<1>1. /\ log' = log /\ disk' = log /\ log_mutex' = log_mutex
      /\ fn'[t] = fn[t] /\ applied'[t] = applied[t]
      /\ Len(disk) \in Nat /\ Len(log) \in Nat /\ Len(disk) <= Len(log)
  <2>1. disk \in Seq(Cells) /\ log \in Seq(Cells)
    BY DEF TypeOK
  <2>2. Len(disk) \in Nat /\ Len(log) \in Nat
    BY <2>1
  <2> QED BY <2>2 DEF release_locks, DiskRight
<1>2. /\ pc[t] = "release" /\ pc'[t] = IF Applies(t) THEN "delayed_seek" ELSE "finish"
      /\ writes_at'[t] = IF Applies(t) THEN writes_at[t] ELSE <<>>
  BY DEF release_locks, TypeOK
<1>3. /\ UpdatesOf(t)' = UpdatesOf(t)
      /\ Has(t, "TXN_COMMIT")' <=> Has(t, "TXN_COMMIT")
      /\ CommitWritten(t) => CommitWritten(t)'
  BY <1>1, SameLog
<1>4. LogFailed(t)' <=> LogFailed(t)
  BY <1>1, <1>2 DEF LogFailed
<1>5. fn[t] \in {"TXN_COMMIT", "TXN_ABORT"} /\ applied[t] = <<>>
  BY <1>2 DEF Accounted, Course, AppliedRight, Applying
<1>6. /\ Has(t, "TXN_COMMIT") => fn[t] = "TXN_COMMIT"
      /\ fn[t] = "TXN_COMMIT" => LogFailed(t) \/ Has(t, "TXN_COMMIT")
  BY <1>2, <1>5 DEF Accounted, CommitRight
<1>7. Course(t)'
  BY <1>1, <1>2, <1>5 DEF Accounted, Course, Calls, Applying, Applies
<1>8. CommitRight(t)'
  BY <1>1, <1>2, <1>3, <1>4, <1>5, <1>6 DEF CommitRight, Applying, Applies
<1>9. AppliedRight(t)'
  <2>1. Has(t, "TXN_COMMIT") => CommitWritten(t)'
    <3>1. \A o \in HeadsOf(t) : o < Len(log)
      BY <1>1 DEF HeadsOf, Offsets
    <3>2. HeadsOf(t)' = HeadsOf(t)
      BY <1>1, SameLog
    <3> QED BY <1>1, <3>1, <3>2 DEF Has, CommitWritten
  <2>2. pc'[t] \in Applying => LogFailed(t) \/ Has(t, "TXN_COMMIT")
    BY <1>2, <1>6 DEF Applying, Applies
  <2>3. Len(applied'[t]) = 0
    BY <1>1, <1>5
  <2>4. \A i \in 1..Len(applied'[t]) : FALSE
    BY <2>3
  <2> QED BY <1>1, <1>4, <1>5, <2>1, <2>2, <2>4 DEF AppliedRight
<1>10. NotedRight(t)'
  <2>1. CASE Applies(t)
    BY <1>1, <1>2, <1>3, <2>1 DEF Accounted, NotedRight
  <2>2. CASE ~Applies(t)
    <3>1. Len(writes_at'[t]) = 0
      BY <1>2, <2>2
    <3>2. \A i \in 1..Len(writes_at'[t]) : FALSE
      BY <3>1
    <3> QED BY <3>2 DEF NotedRight
  <2> QED BY <2>1, <2>2
<1>11. NewestRight(t)'
  BY <1>2 DEF NewestRight, Unnoted
<1>12. Counted(t)'
  <2>1. Unnoted(t) = 0 /\ Unnoted(t)' = 0 /\ ~MayCommit(t)'
    BY <1>2 DEF Unnoted, MayCommit, Calls
  <2>2. Has(t, "TXN_COMMIT") => writes_at'[t] = writes_at[t]
    BY <1>2, <1>6 DEF Applies
  <2> QED BY <1>1, <1>3, <1>4, <2>1, <2>2 DEF Accounted, Counted
<1> QED BY <1>7, <1>8, <1>9, <1>10, <1>11, <1>12 DEF Accounted

\* The first update of a release that applies is there to be read: its record is
\* in the log, whole, and behind its number.
LEMMA NextUpdate ==
    ASSUME TypeOK, UpdatesLeft, Records, DiskRight, NEW t \in Txns, Accounted(t),
           pc[t] \in Applying
    PROVE  \E o \in UpdatesOf(t) :
             /\ o = Head(writes_at[t]).lrn /\ o = writes_at[t][1].lrn
             /\ o \in Nat /\ o + 1 < Len(disk) /\ o + 1 < Len(log)
             /\ log[o + 2] = BodyCell(o, t)
<1>1. log \in Seq(Cells) /\ Len(log) \in Nat /\ Len(disk) \in Nat
  <2>1. log \in Seq(Cells) /\ disk \in Seq(Cells)
    BY DEF TypeOK
  <2> QED BY <2>1
<1>2. PICK w \in Seq([lrn : Int, type : UpdateTypes]) : w = writes_at[t] /\ w # <<>>
  BY DEF TypeOK, UpdatesLeft, Applying
<1>3. 1 \in 1..Len(w) /\ Head(w) = w[1]
  BY <1>2
<1>4. PICK o : o = w[1].lrn
  OBVIOUS
<1>5. o \in UpdatesOf(t) /\ o + 1 < Len(log) /\ o + 1 < Len(disk)
  BY <1>2, <1>3, <1>4 DEF Accounted, NotedRight, Applying
<1>6. o \in Offsets /\ log[o + 1].kind = "head" /\ log[o + 1].txn = t /\ o \in Nat
  BY <1>5 DEF UpdatesOf, HeadsOf, Offsets
<1>7. o + 1 \in Offsets
  BY <1>1, <1>5, <1>6 DEF Offsets
<1>8. o % 2 = 0
  BY <1>6 DEF Records, RecordsWhole
<1>9. (o + 1) % 2 # 0 /\ (o + 1) + 1 = o + 2 /\ (o + 1) - 1 = o
  BY <1>6, <1>8
<1>10. log[o + 2].kind = "body" /\ log[o + 2].lrn = o /\ log[o + 2].txn = t
  BY <1>6, <1>7, <1>9 DEF Records, RecordsWhole
<1>11. log[o + 2] \in Cells
  <2>1. o + 2 \in 1..Len(log)
    BY <1>1, <1>5, <1>6
  <2> QED BY <1>1, <2>1
<1>12. log[o + 2] \in [kind : {"body"}, lrn : Int, txn : Txns]
  BY <1>10, <1>11 DEF Cells, Junk
<1>13. log[o + 2] = BodyCell(o, t)
  BY <1>10, <1>12 DEF BodyCell
<1> QED BY <1>2, <1>3, <1>4, <1>5, <1>6, <1>13

\* The seek of a delayed_* function goes to the body of the next update.
LEMMA SeekAccounted ==
    ASSUME TypeOK, TypeOK', UpdatesLeft, Records, DiskRight, NEW t \in Txns, Accounted(t),
           delayed_seek(t)
    PROVE  Accounted(t)'
<1>1. /\ log' = log /\ disk' = disk /\ log_mutex' = log_mutex
      /\ fn'[t] = fn[t] /\ applied'[t] = applied[t] /\ writes_at'[t] = writes_at[t]
      /\ Len(disk) \in Nat
  <2>1. disk \in Seq(Cells)
    BY DEF TypeOK
  <2>2. Len(disk) \in Nat
    BY <2>1
  <2> QED BY <2>2 DEF delayed_seek
<1>2. pc[t] = "delayed_seek" /\ pc'[t] = "delayed_read"
  BY DEF delayed_seek, TypeOK
<1>3. /\ UpdatesOf(t)' = UpdatesOf(t)
      /\ Has(t, "TXN_COMMIT")' <=> Has(t, "TXN_COMMIT")
      /\ CommitWritten(t) => CommitWritten(t)'
  BY <1>1, SameLog
<1>4. LogFailed(t)' <=> LogFailed(t)
  BY <1>1, <1>2 DEF LogFailed
<1>5. pos' = At(Head(writes_at[t]).lrn + 1, "start")
  <2>1. Head(writes_at[t]).lrn >= 0
    <3>1. pc[t] \in Applying
      BY <1>2 DEF Applying
    <3>2. PICK o \in Nat : o = Head(writes_at[t]).lrn
      BY <3>1, NextUpdate
    <3> QED BY <3>2
  <2> QED BY <2>1 DEF delayed_seek, fseek
<1>6. Course(t)'
  BY <1>1, <1>2, <1>5 DEF Accounted, Course, Calls, Applying
<1>7. CommitRight(t)'
  BY <1>1, <1>2, <1>3, <1>4 DEF Accounted, CommitRight, Applying
<1>8. AppliedRight(t)'
  BY <1>1, <1>2, <1>3, <1>4 DEF Accounted, AppliedRight, Applying
<1>9. NotedRight(t)'
  BY <1>1, <1>2, <1>3, <1>4 DEF Accounted, NotedRight, Applying
<1>10. NewestRight(t)'
  BY <1>2 DEF NewestRight, Unnoted
<1>11. Counted(t)'
  <2>1. Unnoted(t) = 0 /\ Unnoted(t)' = 0 /\ ~MayCommit(t)'
    BY <1>2 DEF Unnoted, MayCommit, Calls
  <2> QED BY <1>1, <1>3, <1>4, <2>1 DEF Accounted, Counted
<1> QED BY <1>6, <1>7, <1>8, <1>9, <1>10, <1>11 DEF Accounted

\* The last update leaves none.
LEMMA TailOfOne == ASSUME NEW S, NEW w \in Seq(S), Len(w) = 1 PROVE Tail(w) = <<>>
OBVIOUS

\* What is read is the body of the first update noted, which is noted no more.
LEMMA ReadAccounted ==
    ASSUME TypeOK, TypeOK', UpdatesLeft, Records, DiskRight, NEW t \in Txns, Accounted(t),
           delayed_read(t)
    PROVE  Accounted(t)'
<1>1. /\ log' = log /\ disk' = disk /\ log_mutex' = log_mutex /\ fn'[t] = fn[t]
      /\ Len(disk) \in Nat
  <2>1. disk \in Seq(Cells)
    BY DEF TypeOK
  <2>2. Len(disk) \in Nat
    BY <2>1
  <2> QED BY <2>2 DEF delayed_read
<1>2. PICK w \in Seq([lrn : Int, type : UpdateTypes]), a \in Seq(Cells) :
         w = writes_at[t] /\ w # <<>> /\ a = applied[t]
  BY DEF TypeOK, UpdatesLeft, delayed_read
<1>3. PICK o \in UpdatesOf(t) :
         /\ o = Head(w).lrn /\ o = w[1].lrn /\ o \in Nat
         /\ o + 1 < Len(disk) /\ o + 1 < Len(log) /\ log[o + 2] = BodyCell(o, t)
  <2>1. pc[t] \in Applying
    BY DEF delayed_read, Applying
  <2> QED BY <1>2, <2>1, NextUpdate
<1>4. pc[t] = "delayed_read" /\ pc'[t] = IF Len(w) = 1 THEN "finish" ELSE "delayed_seek"
  BY <1>2 DEF delayed_read, TypeOK
<1>5. CellRead = BodyCell(o, t) /\ BodyCell(o, t) \in Cells
  <2>1. pos = At(o + 1, "start")
    BY <1>2, <1>3, <1>4 DEF Accounted, Course
  <2>2. pos.at = o + 1 /\ pos.place = "start"
    BY <2>1 DEF At
  <2>3. (o + 1) + 1 = o + 2
    BY <1>3
  <2> QED BY <1>3, <2>2, <2>3 DEF CellRead, BodyCell, Cells
<1>6. PICK b \in Cells : b = BodyCell(o, t) /\ b.lrn = o
  BY <1>5 DEF BodyCell
<1>7. applied'[t] = Append(a, b) /\ writes_at'[t] = Tail(w)
  BY <1>2, <1>5, <1>6 DEF delayed_read, TypeOK
<1>8. /\ Len(a) \in Nat /\ Len(w) \in Nat /\ Len(w) >= 1 /\ Len(Append(a, b)) = Len(a) + 1
      /\ Len(Tail(w)) = Len(w) - 1 /\ Append(a, b)[Len(a) + 1] = b
      /\ \A i \in 1..Len(a) : Append(a, b)[i] = a[i]
      /\ \A i \in 1..Len(Tail(w)) : i + 1 \in 1..Len(w) /\ 1 < i + 1 /\ Tail(w)[i] = w[i + 1]
  BY <1>2, <1>6
<1>9. PICK a2, w2 : a2 = Append(a, b) /\ w2 = Tail(w)
  OBVIOUS
<1>10. PICK n \in Nat, m \in Nat :
         /\ n = Len(a) /\ m = Len(w) /\ m >= 1 /\ Len(a2) = n + 1 /\ a2[n + 1] = b
         /\ \A i \in 1..n : a2[i] = a[i]
         /\ Len(w2) = m - 1
         /\ \A i \in 1..m - 1 : i + 1 \in 1..m /\ 1 < i + 1 /\ w2[i] = w[i + 1]
  BY <1>8, <1>9
<1>11. /\ UpdatesOf(t)' = UpdatesOf(t)
       /\ Has(t, "TXN_COMMIT")' <=> Has(t, "TXN_COMMIT")
       /\ CommitWritten(t) => CommitWritten(t)'
  BY <1>1, SameLog
<1>12. LogFailed(t)' <=> LogFailed(t)
  BY <1>1, <1>4 DEF LogFailed
<1>13. fn[t] = "TXN_COMMIT"
  BY <1>4 DEF Accounted, Course, Applying
<1>14. Course(t)'
  <2>1. pc'[t] = "finish" => Tail(w) = <<>>
    <3>1. pc'[t] = "finish" => Len(w) = 1
      BY <1>4, Zenon
    <3>2. Len(w) = 1 => Tail(w) = <<>>
      BY <1>2, TailOfOne, Zenon
    <3> QED BY <3>1, <3>2
  <2>2. t # Backup
    BY <1>2 DEF Accounted, Course
  <2>3. pc'[t] \in {"finish", "delayed_seek"}
    BY <1>4
  <2>4. writes_at'[t] = Tail(w)
    BY <1>7
  <2> QED BY <1>1, <1>13, <2>1, <2>2, <2>3, <2>4 DEF Course, Calls, Applying
<1>15. CommitRight(t)'
  BY <1>1, <1>4, <1>11, <1>12, <1>13 DEF Accounted, CommitRight, Applying
<1>16. /\ \A i, j \in 1..n : i < j => a[i].lrn < a[j].lrn
       /\ \A i \in 1..n : \E p \in UpdatesOf(t) : a[i] = BodyCell(p, t) /\ p + 1 < Len(disk)
       /\ LogFailed(t) \/ CommitWritten(t)
  BY <1>2, <1>4, <1>10 DEF Accounted, AppliedRight, Applying
<1>17. /\ \A i \in 1..m : /\ w[i].lrn \in UpdatesOf(t)
                          /\ w[i].lrn + 1 < Len(log) /\ w[i].lrn + 1 < Len(disk)
       /\ \A i, j \in 1..m : i < j => w[i].lrn < w[j].lrn
       /\ \A i \in 1..n, j \in 1..m : a[i].lrn < w[j].lrn
  BY <1>2, <1>4, <1>10 DEF Accounted, NotedRight, Applying
<1>18. \A i \in 1..n + 1 : i = n + 1 \/ i \in 1..n
  OBVIOUS
<1>19. 1 \in 1..m /\ a2[n + 1].lrn = w[1].lrn
  BY <1>3, <1>6, <1>10
<1>20. applied'[t] = a2 /\ writes_at'[t] = w2
  BY <1>7, <1>9
<1>21. AppliedRight(t)'
  <2>1. ASSUME NEW i \in 1..n + 1, NEW j \in 1..n + 1, i < j
        PROVE  a2[i].lrn < a2[j].lrn
    <3>1. i \in 1..n
      BY <2>1
    <3>2. CASE j = n + 1
      BY <1>10, <1>17, <1>19, <3>1, <3>2
    <3>3. CASE j \in 1..n
      BY <1>10, <1>16, <2>1, <3>1, <3>3
    <3> QED BY <1>18, <3>2, <3>3
  <2>2. ASSUME NEW i \in 1..n + 1
        PROVE  \E p \in UpdatesOf(t) : a2[i] = BodyCell(p, t) /\ p + 1 < Len(disk)
    <3>1. CASE i = n + 1
      BY <1>3, <1>6, <1>10, <3>1
    <3>2. CASE i \in 1..n
      BY <1>10, <1>16, <3>2
    <3> QED BY <1>18, <3>1, <3>2
  <2>3. pc'[t] \in {"finish"} \cup Applying
    BY <1>4 DEF Applying
  <2> QED BY <1>1, <1>10, <1>11, <1>12, <1>13, <1>16, <1>20, <2>1, <2>2, <2>3
          DEF AppliedRight
<1>22. NotedRight(t)'
  <2>1. \A i \in 1..m - 1 : /\ w2[i].lrn \in UpdatesOf(t)
                            /\ w2[i].lrn + 1 < Len(log) /\ w2[i].lrn + 1 < Len(disk)
    BY <1>10, <1>17
  <2>2. ASSUME NEW i \in 1..m - 1, NEW j \in 1..m - 1, i < j
        PROVE  w2[i].lrn < w2[j].lrn
    <3>1. i + 1 \in 1..m /\ j + 1 \in 1..m /\ i + 1 < j + 1
      BY <1>10, <2>2
    <3>2. w2[i] = w[i + 1] /\ w2[j] = w[j + 1]
      BY <1>10
    <3> QED BY <1>17, <3>1, <3>2
  <2>3. ASSUME NEW i \in 1..n + 1, NEW j \in 1..m - 1
        PROVE  a2[i].lrn < w2[j].lrn
    <3>1. j + 1 \in 1..m /\ 1 < j + 1 /\ w2[j] = w[j + 1]
      BY <1>10
    <3>2. CASE i = n + 1
      BY <1>17, <1>19, <3>1, <3>2
    <3>3. CASE i \in 1..n
      BY <1>10, <1>17, <3>1, <3>3
    <3> QED BY <1>18, <3>2, <3>3
  <2> QED BY <1>1, <1>10, <1>11, <1>20, <2>1, <2>2, <2>3 DEF NotedRight
<1>23. NewestRight(t)'
  BY <1>4 DEF NewestRight, Unnoted
<1>24. Counted(t)'
  <2>1. Unnoted(t) = 0 /\ Unnoted(t)' = 0 /\ ~MayCommit(t)'
    BY <1>4 DEF Unnoted, MayCommit, Calls
  <2>2. Len(applied[t]) + Len(writes_at[t]) + Unnoted(t) = n + m
    BY <1>2, <1>10, <2>1
  <2>3. Len(applied'[t]) + Len(writes_at'[t]) + Unnoted(t)' = n + m
    <3>1. (n + 1) + (m - 1) + 0 = n + m
      OBVIOUS
    <3> QED BY <1>10, <1>20, <2>1, <3>1
  <2>4. ~LogFailed(t) /\ Has(t, "TXN_COMMIT") => Cardinality(UpdatesOf(t)) = n + m
    BY <2>2, Zenon DEF Accounted, Counted
  <2>5. ~LogFailed(t)' /\ (MayCommit(t)' \/ Has(t, "TXN_COMMIT")') =>
           Cardinality(UpdatesOf(t)') = Len(applied'[t]) + Len(writes_at'[t]) + Unnoted(t)'
    BY <1>11, <1>12, <2>1, <2>3, <2>4, Zenon
  <2> QED BY <2>5, Zenon DEF Counted
<1> QED BY <1>14, <1>15, <1>21, <1>22, <1>23, <1>24 DEF Accounted

\* The account is inductive with the records, which it needs for what it reads.
UInv == Sound => DiskRight /\ \A t \in Txns : Accounted(t)

\* At mount the log is empty and nobody has logged.
LEMMA AccountBegins == ASSUME Init PROVE DiskRight /\ \A t \in Txns : Accounted(t)
<1>1. DiskRight
  <2>1. Len(disk) = 0 /\ Len(log) = 0
    BY DEF Init
  <2> QED BY <2>1 DEF DiskRight
<1>2. ASSUME NEW t \in Txns PROVE Accounted(t)
  <2>1. /\ pc[t] = "idle" /\ fn[t] = "TXN_BEG" /\ writes_at[t] = <<>> /\ applied[t] = <<>>
    BY <1>2 DEF Init
  <2>2. HeadsOf(t) = {}
    <3>1. Len(log) = 0
      BY DEF Init
    <3> QED BY <3>1 DEF HeadsOf, Offsets
  <2>3. ~Has(t, "TXN_COMMIT") /\ UpdatesOf(t) = {}
    BY <2>2 DEF Has, UpdatesOf
  <2>4. Len(applied[t]) = 0 /\ Len(writes_at[t]) = 0
    BY <2>1
  <2>5. \A i \in 1..0 : FALSE
    OBVIOUS
  <2>6. Course(t)
    BY <2>1 DEF Course, Calls, Applying
  <2>7. CommitRight(t)
    BY <2>1, <2>3 DEF CommitRight
  <2>8. AppliedRight(t)
    BY <2>1, <2>4, <2>5 DEF AppliedRight, Applying
  <2>9. NotedRight(t)
    BY <2>4, <2>5 DEF NotedRight
  <2>10. Unnoted(t) = 0
    BY <2>1 DEF Unnoted
  <2>11. NewestRight(t)
    BY <2>10 DEF NewestRight
  <2>12. Counted(t)
    <3>1. Cardinality(UpdatesOf(t)) = 0
      BY <2>3, FS_EmptySet
    <3> QED BY <2>4, <2>10, <3>1 DEF Counted
  <2> QED BY <2>6, <2>7, <2>8, <2>9, <2>11, <2>12 DEF Accounted
<1> QED BY <1>1, <1>2

\* Nobody is forgotten by a step that leaves everything, and what one thread
\* does is accounted for on both sides.
LEMMA UpdatesInvariant == Spec => []UInv
<1>1. Init => UInv
  BY AccountBegins DEF UInv
<1>2. /\ TypeOK /\ UpdatesLeft /\ TypeOK' /\ Inv /\ UInv
      /\ [Next]_vars
      => UInv'
  <2> SUFFICES ASSUME TypeOK, UpdatesLeft, TypeOK', Inv, UInv, [Next]_vars, Sound'
               PROVE  DiskRight' /\ \A u \in Txns : Accounted(u)'
    BY DEF UInv
  <2>1. CASE UNCHANGED vars
    <3>1. DiskRight /\ \A u \in Txns : Accounted(u)
      BY <2>1 DEF vars, Sound, UInv
    <3>2. DiskRight'
      BY <2>1, <3>1 DEF vars, DiskRight
    <3>3. ASSUME NEW u \in Txns PROVE Accounted(u)'
      <4>1. /\ UNCHANGED <<log, pos, disk, log_mutex, pc, fn, log_LRN, writes_at, applied>>
            /\ Accounted(u)
        BY <2>1, <3>1 DEF vars
      <4>2. HeadsOf(u)' = HeadsOf(u) /\ LogFailed(u)' = LogFailed(u)
        BY <4>1 DEF HeadsOf, Offsets, LogFailed
      <4>3. /\ UpdatesOf(u)' = UpdatesOf(u) /\ Has(u, "TXN_COMMIT")' = Has(u, "TXN_COMMIT")
            /\ CommitWritten(u)' = CommitWritten(u) /\ Unnoted(u)' = Unnoted(u)
            /\ MayCommit(u)' = MayCommit(u)
        BY <4>1, <4>2 DEF UpdatesOf, Has, CommitWritten, Unnoted, MayCommit
      <4>4. Course(u)' /\ CommitRight(u)'
        BY <4>1, <4>2, <4>3 DEF Accounted, Course, CommitRight
      <4>5. AppliedRight(u)'
        BY <4>1, <4>2, <4>3 DEF Accounted, AppliedRight
      <4>6. NotedRight(u)' /\ NewestRight(u)'
        BY <4>1, <4>2, <4>3 DEF Accounted, NotedRight, NewestRight
      <4>7. Counted(u)'
        BY <4>1, <4>2, <4>3 DEF Accounted, Counted
      <4> QED BY <4>4, <4>5, <4>6, <4>7 DEF Accounted
    <3> QED BY <3>2, <3>3
  <2>2. CASE BackupOver
    <3>1. /\ Backup \in Txns /\ log' = log /\ disk' = disk /\ pos' = pos /\ raced' = raced
          /\ log_mutex' = log_mutex
          /\ UNCHANGED <<fn, log_LRN, writes_at, applied>>
          /\ \A u \in Txns : u # Backup => pc'[u] = pc[u]
      BY <2>2 DEF BackupOver, logVars, Txns, TypeOK
    <3>2. DiskRight /\ (\A u \in Txns : Accounted(u)) /\ ~raced'
      BY <3>1 DEF Sound, UInv
    <3>3. DiskRight'
      BY <3>1, <3>2 DEF DiskRight
    <3>4. Accounted(Backup)'
      BY <2>2, <3>1, <3>2, OverAccounted
    <3>5. LeavesOthers(Backup)
      <4>1. Len(log) \in Nat /\ Len(disk) \in Nat
        <5>1. log \in Seq(Cells) /\ disk \in Seq(Cells)
          BY DEF TypeOK
        <5> QED BY <5>1
      <4>2. \A u \in Txns : u # Backup => (LogFailed(u)' <=> LogFailed(u))
        BY <3>1 DEF LogFailed
      <4>3. \A u \in Txns : HeadsOf(u)' = HeadsOf(u)
        BY <3>1 DEF HeadsOf, Offsets
      <4> QED BY <3>1, <4>1, <4>2, <4>3 DEF LeavesOthers
    <3>6. \A u \in Txns : u # Backup => Accounted(u)'
      BY <3>1, <3>2, <3>5, OthersAccounted
    <3> QED BY <3>3, <3>4, <3>6
  <2>3. ASSUME NEW t \in Txns, on_txn_beg(t) \/ Client(t) \/ LogCall(t) \/ Release(t)
        PROVE  DiskRight' /\ \A u \in Txns : Accounted(u)'
    <3>1. (raced => raced') /\ Len(log') >= Len(log) /\ Len(log) \in Nat /\ Len(log') \in Nat
      <4>1. log \in Seq(Cells) /\ log' \in Seq(Cells)
        BY DEF TypeOK
      <4> QED BY <2>3, <4>1, Monotone
    <3>2. Sound /\ ~raced'
      BY <3>1, LogAssumption DEF Sound, LogAssumption
    <3>3. Locked /\ Records /\ DiskRight /\ \A u \in Txns : Accounted(u)
      BY <3>2 DEF Inv, UInv
    <3>4. LeavesOthers(t) /\ DiskRight'
      BY <2>3, <3>3, LogAssumption, StepLeavesOthers
    <3>5. \A u \in Txns : u # t => Accounted(u)'
      BY <3>2, <3>3, <3>4, OthersAccounted
    <3>6. Accounted(t)'
      <4>1. CASE on_txn_beg(t) \/ Client(t)
        BY <3>3, <4>1, LogAssumption, CallAccounted
      <4>2. CASE LogLock(t) \/ extract_record_no(t) \/ SeekPrev(t) \/ LinkPrev(t) \/ SeekEnd(t)
        BY <3>3, <4>2, LogAssumption, MoveAccounted
      <4>3. CASE WriteHead(t)
        BY <3>3, <4>3, HeadAccounted
      <4>4. CASE WriteBody(t)
        BY <3>3, <4>4, BodyAccounted
      <4>5. CASE FlushAndReturn(t)
        BY <3>3, <4>5, FlushAccounted
      <4>6. CASE LinkFails(t)
        BY <3>3, <4>6, FailAccounted
      <4>7. CASE release_locks(t)
        BY <3>3, <4>7, ReleaseAccounted
      <4>8. CASE delayed_seek(t)
        BY <3>3, <4>8, SeekAccounted
      <4>9. CASE delayed_read(t)
        BY <3>3, <4>9, ReadAccounted
      <4>10. CASE txn_delete(t)
        BY <3>3, <4>10, OverAccounted
      <4> QED BY <2>3, <4>1, <4>2, <4>3, <4>4, <4>5, <4>6, <4>7, <4>8, <4>9, <4>10
              DEF LogCall, Release
    <3> QED BY <3>4, <3>5, <3>6
  <2> QED BY <2>1, <2>2, <2>3 DEF Next, Finished
<1> QED BY <1>1, <1>2, LogTypes, RecordsInvariant, PTL DEF Spec

\* An update is applied from the file's copy of its record, and not before the
\* file has the commit record, as long as log_txn_commit did not fail and no
\* delayed read was disturbed.
THEOREM UpdatesAreDurable == Spec => [](Len(log) <= IntMax + 1 => WriteAhead)
<1>1. TypeOK /\ Inv /\ UInv => (Len(log) <= IntMax + 1 => WriteAhead)
  <2> SUFFICES ASSUME TypeOK, Inv, UInv, Len(log) <= IntMax + 1, ~raced, NEW t \in Txns
               PROVE  /\ \A i \in 1..Len(applied[t]) : applied[t][i] \in Durable
                      /\ applied[t] # <<>> => CommitDurable(t) \/ LogFailed(t)
    BY DEF WriteAhead
  <2>1. DiskRight /\ Accounted(t) /\ RecordsWhole
    BY DEF Sound, Inv, UInv, Records
  <2>2. Len(log) \in Nat /\ Len(disk) \in Nat /\ Len(disk) <= Len(log)
    <3>1. log \in Seq(Cells) /\ disk \in Seq(Cells)
      BY DEF TypeOK
    <3> QED BY <2>1, <3>1 DEF DiskRight
  <2>3. ASSUME NEW o \in HeadsOf(t)
        PROVE  /\ o \in Nat /\ o \in Offsets /\ o + 1 \in Nat
               /\ log[o + 1].kind = "head" /\ log[o + 1].txn = t
    BY <2>2 DEF HeadsOf, Offsets
  <2>4. ASSUME NEW i \in 1..Len(applied[t]) PROVE applied[t][i] \in Durable
    <3>1. PICK o \in UpdatesOf(t) : applied[t][i] = BodyCell(o, t) /\ o + 1 < Len(disk)
      BY <2>1 DEF Accounted, AppliedRight
    <3>2. o \in HeadsOf(t) /\ o \in Nat
      BY <2>3, <3>1 DEF UpdatesOf
    <3>3. o + 2 \in 1..Len(disk) /\ o + 2 \in 1..Len(log) /\ o + 1 \in Offsets
      BY <2>2, <3>1, <3>2 DEF Offsets
    <3>4. o % 2 = 0
      BY <2>1, <2>3, <3>2 DEF RecordsWhole
    <3>5. (o + 1) % 2 # 0 /\ (o + 1) + 1 = o + 2 /\ (o + 1) - 1 = o
      BY <3>2, <3>4
    <3>6. log[o + 2].kind = "body" /\ log[o + 2].lrn = o /\ log[o + 2].txn = t
      <4>1. log[o + 1].txn = t
        BY <2>3, <3>2
      <4>2. /\ log[(o + 1) + 1].kind = "body" /\ log[(o + 1) + 1].lrn = (o + 1) - 1
            /\ log[(o + 1) + 1].txn = log[o + 1].txn
        BY <2>1, <3>3, <3>5 DEF RecordsWhole
      <4> QED BY <3>5, <4>1, <4>2
    <3>7. log[o + 2] \in [kind : {"body"}, lrn : Int, txn : Txns]
      <4>1. log[o + 2] \in Cells
        BY <3>3 DEF TypeOK
      <4> QED BY <3>6, <4>1 DEF Cells, Junk
    <3>8. log[o + 2] = BodyCell(o, t)
      BY <3>6, <3>7 DEF BodyCell
    <3>9. disk[o + 2] = log[o + 2]
      BY <2>1, <3>3, <3>6 DEF DiskRight
    <3> QED BY <3>1, <3>3, <3>8, <3>9 DEF Durable
  <2>5. ASSUME applied[t] # <<>>, ~LogFailed(t) PROVE CommitDurable(t)
    <3>1. PICK o \in HeadsOf(t) : log[o + 1].type = "TXN_COMMIT" /\ o < Len(disk)
      BY <2>1, <2>5 DEF Accounted, AppliedRight, CommitWritten
    <3>2. o + 1 \in 1..Len(disk) /\ log[o + 1].kind = "head" /\ log[o + 1].txn = t
      BY <2>2, <2>3, <3>1
    <3>3. disk[o + 1].kind = "head" /\ disk[o + 1].txn = t /\ disk[o + 1].type = "TXN_COMMIT"
      BY <2>1, <3>1, <3>2 DEF DiskRight
    <3> QED BY <3>2, <3>3 DEF CommitDurable, Durable
  <2> QED BY <2>4, <2>5
<1> QED BY <1>1, LogTypes, RecordsInvariant, UpdatesInvariant, PTL

\* A transaction that has logged its end applied all it had logged, in the
\* order of the log, when its commit record was written, and otherwise nothing.
THEOREM UpdatesAppliedOrNone == Spec => [](Len(log) <= IntMax + 1 => AllOrNothing)
<1>1. TypeOK /\ UInv => (Len(log) <= IntMax + 1 => AllOrNothing)
  <2> SUFFICES ASSUME TypeOK, UInv, Len(log) <= IntMax + 1, ~raced, NEW t \in Txns
               PROVE  /\ \A i, j \in 1..Len(applied[t]) : i < j => applied[t][i].lrn < applied[t][j].lrn
                      /\ {applied[t][i] : i \in 1..Len(applied[t])}
                           \subseteq {BodyCell(o, t) : o \in UpdatesOf(t)}
                      /\ pc[t] = "done" => Len(applied[t]) =
                            IF Has(t, "TXN_COMMIT") THEN Cardinality(UpdatesOf(t)) ELSE 0
    BY DEF AllOrNothing
  <2>1. Accounted(t)
    BY DEF Sound, UInv
  <2>2. \A i, j \in 1..Len(applied[t]) : i < j => applied[t][i].lrn < applied[t][j].lrn
    BY <2>1 DEF Accounted, AppliedRight
  <2>3. {applied[t][i] : i \in 1..Len(applied[t])} \subseteq {BodyCell(o, t) : o \in UpdatesOf(t)}
    BY <2>1 DEF Accounted, AppliedRight
  <2>4. ASSUME pc[t] = "done"
        PROVE  Len(applied[t]) = IF Has(t, "TXN_COMMIT") THEN Cardinality(UpdatesOf(t)) ELSE 0
    <3>1. ~LogFailed(t) /\ Unnoted(t) = 0 /\ fn[t] = "TXN_END" /\ writes_at[t] = <<>>
      BY <2>1, <2>4 DEF Accounted, Course, LogFailed, Unnoted
    <3>2. PICK a \in Seq(Cells) : a = applied[t] /\ Len(a) \in Nat /\ Len(writes_at[t]) = 0
      <4>1. applied[t] \in Seq(Cells)
        BY DEF TypeOK
      <4> QED BY <3>1, <4>1
    <3>3. CASE Has(t, "TXN_COMMIT")
      <4>1. Cardinality(UpdatesOf(t)) = Len(applied[t]) + Len(writes_at[t]) + Unnoted(t)
        BY <2>1, <3>1, <3>3, Zenon DEF Accounted, Counted
      <4>2. Len(applied[t]) + Len(writes_at[t]) + Unnoted(t) = Len(a)
        BY <3>1, <3>2
      <4> QED BY <3>2, <3>3, <4>1, <4>2, Zenon
    <3>4. CASE ~Has(t, "TXN_COMMIT")
      <4>1. ~CommitWritten(t)
        BY <3>4 DEF CommitWritten, Has
      <4>2. a = <<>>
        BY <2>1, <3>1, <3>2, <4>1 DEF Accounted, AppliedRight
      <4> QED BY <3>2, <3>4, <4>2
    <3> QED BY <3>3, <3>4
  <2> QED BY <2>2, <2>3, <2>4
<1> QED BY <1>1, LogTypes, UpdatesInvariant, PTL
=============================================================================
