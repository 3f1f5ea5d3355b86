-------------------------- MODULE DeadlockDetector --------------------------
(***************************************************************************)
(* The deadlock detector (deadlock.c) and its handshake with the waiting   *)
(* threads (Wait_list_manager.c).                                          *)
(*                                                                         *)
(* Every other second the detector notes the waiting transactions one by   *)
(* one under txn_mutex, draws an edge to each holder that waits as well    *)
(* under file_mutex, searches the graph depth first, and marks the wait    *)
(* node of the first transaction of the first cycle with its number.  The  *)
(* waiters of that node wake up: the victim aborts when all of them have   *)
(* been counted, the others go back to sleep.                              *)
(*                                                                         *)
(* A thread says in its transaction's node that it waits, and for what,    *)
(* without txn_mutex: the detector may note half of it, or miss it.        *)
(*                                                                         *)
(* Of the lock manager this module keeps who holds which file, in the      *)
(* order of the chain of sharers; LockManager has the rest.  The server    *)
(* has the call that starts the thread commented out, and the detector     *)
(* ends after thirty rounds: the model is of the time between.             *)
(***************************************************************************)
EXTENDS Integers, Sequences, SequencesExt, FiniteSets

CONSTANTS Txns,        \* transaction numbers; the list of them is in this order
          Files,
          NoFile,
          Wide,        \* files whose number does not fit an int; what is left of it
                       \* when it is cut is the number of no file that is waited for
          DeadlockSlots, \* entries of in_deadlock, and of in_cycle
          Modes,       \* of a transaction's requests: 0 shared, 1 exclusive
          MaxRequests  \* bound on the number of them

ASSUME TxnsAssumption == Txns \subseteq Nat \ {0} /\ IsFiniteSet(Txns)
ASSUME FilesAssumption == NoFile \notin Files /\ Wide \subseteq Files
ASSUME SlotsAssumption == DeadlockSlots \in Nat \ {0}
ASSUME ModesAssumption == \A t \in Txns : Modes[t] \subseteq {0, 1}

VARIABLES holders,     \* the transactions that hold a file, the first of the chain first
          lockMode,    \* of a locked file
          txn,         \* a transaction's node, what its thread does and asks for (file)
          wait,        \* the wait node of a file
          file_mutex, txn_mutex,
          detector,    \* its step, what it has noted and whom it has chosen
          crashed,     \* a null pointer was followed
          disturbed,   \* a wait node was joined or marked again during a handshake
          swallowed    \* a thread took the wake-up of a release for the detector's

vars == <<holders, lockMode, txn, wait, file_mutex, txn_mutex, detector,
          crashed, disturbed, swallowed>>

Detector == 0
NoMark == -1
NoNode == [in_wait |-> 0, txnid_abort |-> NoMark, woke_up |-> 0]
Resting == [pc |-> "sleep", at |-> NoMark, list |-> <<>>, inode |-> <<>>, victim |-> NoMark]

Init ==
    /\ holders = [f \in Files |-> <<>>]
    /\ lockMode = [f \in Files |-> 0]
    /\ txn = [t \in Txns |-> [pc |-> "running", file |-> NoFile, mode |-> 0,
                              cur_state |-> "RUNNING", waiting_for_inode |-> NoFile,
                              requests |-> 0, released |-> FALSE]]
    /\ wait = [f \in Files |-> NoNode]
    /\ file_mutex = NoMark
    /\ txn_mutex = NoMark
    /\ detector = Resting
    /\ crashed = FALSE
    /\ disturbed = FALSE
    /\ swallowed = FALSE

Holds(t, f) == t \in ToSet(holders[f])

-----------------------------------------------------------------------------
(* The wait-for graph.                                                      *)

\* The longest beginning of s that is in S.
Leading(s, S) ==
    SubSeq(s, 1, CHOOSE n \in 0 .. Len(s) : /\ \A i \in 1 .. n : s[i] \in S
                                            /\ n < Len(s) => s[n + 1] \notin S)

\* Mutant: the nodes before the waiting one are not searched.
EdgesToLater(t, list, inode) ==
    LET i == CHOOSE k \in DOMAIN list : list[k] = t
    IN  Leading(holders[inode], ToSet(SubSeq(list, i + 1, Len(list))))

\* construct_wait_for_graph: the nodes after the waiting one are searched for the
\* first sharer, then for the next one; the nodes before it for what is left.
EdgesOf(t, list, inode) ==
    LET i == CHOOSE k \in DOMAIN list : list[k] = t
        behind == Leading(holders[inode], ToSet(SubSeq(list, i + 1, Len(list))))
        rest == SubSeq(holders[inode], Len(behind) + 1, Len(holders[inode]))
    IN  behind \o Leading(rest, ToSet(SubSeq(list, 1, i - 1)))

Graph(list, inode) == [t \in ToSet(list) |-> EdgesOf(t, list, inode[t])]

\* dfs_visit paints a node grey (1) while it is on the way and black (2) after.
GreyOf(graph, visited, n) == SelectSeq(graph[n], LAMBDA m : visited[m] = 1)

\* cycle: from grey node to grey node until it is back where it began.  Where the
\* first grey edges lead into another cycle it goes on until it has left in_cycle
\* and in_deadlock; what it overwrites is not followed any further.
CycleFrom(graph, found, start) ==
    LET Along[path \in Seq(Txns)] ==
          LET next == GreyOf(graph, found.visited, Last(path))
          IN  IF \/ next = <<>> \/ (Head(next) # start /\ Head(next) \in ToSet(path))
                 \/ Len(path) >= DeadlockSlots
                 \/ Len(found.in_deadlock) + Len(path) > DeadlockSlots
              THEN [found EXCEPT !.overrun = TRUE]
              ELSE IF Head(next) = start THEN [found EXCEPT !.in_deadlock = @ \o path]
                   ELSE Along[Append(path, Head(next))]
    IN  Along[<<start>>]

\* dfs_visit: r has the colours and what has been found.
Visit(graph, found, root) ==
    LET Visited[r \in [visited : [DOMAIN graph -> 0 .. 2], in_deadlock : Seq(Txns),
                       overrun : BOOLEAN],
                n \in Txns] ==
          LET Edge(s, m) ==
                CASE s.overrun -> s
                  [] ~s.overrun /\ s.visited[m] = 1 -> CycleFrom(graph, s, m)
                  [] ~s.overrun /\ s.visited[m] = 0 -> Visited[s, m]
                  [] OTHER -> s
              done == FoldLeft(Edge, [r EXCEPT !.visited[n] = 1], graph[n])
          IN  [done EXCEPT !.visited[n] = 2]
    IN  Visited[found, root]

detect_cycles(graph, list) ==
    LET Root(r, n) == IF r.visited[n] = 0 /\ ~r.overrun THEN Visit(graph, r, n) ELSE r
    IN  FoldLeft(Root, [visited |-> [t \in ToSet(list) |-> 0], in_deadlock |-> <<>>,
                        overrun |-> FALSE], list)

-----------------------------------------------------------------------------
(* The threads of the transactions. *)

\* A broadcast on f_lock; release says that it is one of a release.
Broadcast(nodes, F, release) ==
    [t \in Txns |->
       IF nodes[t].file \in F /\ nodes[t].pc \in {"asleep", "woken"}
       THEN [nodes[t] EXCEPT !.pc = "woken", !.released = @ \/ release]
       ELSE nodes[t]]

\* Handlers lock file_mutex before they call insert_file_list.
Request(t, f, m) ==
    /\ txn[t].pc = "running" /\ txn[t].requests < MaxRequests[t]
    /\ ~Holds(t, f)
    /\ file_mutex = NoMark
    /\ file_mutex' = t
    /\ txn' = [txn EXCEPT ![t].pc = "insert", ![t].file = f, ![t].mode = m,
                         ![t].requests = @ + 1]
    /\ UNCHANGED <<holders, lockMode, wait, txn_mutex, detector, crashed, disturbed, swallowed>>

Grantable(f, m) ==
    \/ holders[f] = <<>>
    \/ lockMode[f] = 0 /\ m = 0 /\ wait[f].in_wait = 0

\* insert_file_list needs txn_mutex for a moment, to look for the transaction.
FindNode(t) ==
    /\ txn[t].pc = "insert" /\ txn_mutex = NoMark
    /\ txn' = [txn EXCEPT ![t].pc = "decide"]
    /\ UNCHANGED <<holders, lockMode, wait, file_mutex, txn_mutex, detector,
                   crashed, disturbed, swallowed>>

\* And again in insert_same_txn_list, once the file is granted.
Granted(t) ==
    LET f == txn[t].file
    IN  /\ txn[t].pc = "decide" /\ txn_mutex = NoMark
        /\ Grantable(f, txn[t].mode)
        /\ holders' = [holders EXCEPT ![f] = Append(@, t)]
        /\ lockMode' = [lockMode EXCEPT ![f] = txn[t].mode]
        /\ txn' = [txn EXCEPT ![t].pc = "running", ![t].file = NoFile]
        /\ file_mutex' = NoMark
        /\ UNCHANGED <<wait, txn_mutex, detector, crashed, disturbed, swallowed>>

\* Otherwise the transaction's node is set to WAITING, without txn_mutex ...
SetWaiting(t) ==
    /\ txn[t].pc = "decide"
    /\ ~Grantable(txn[t].file, txn[t].mode)
    /\ txn' = [txn EXCEPT ![t].pc = "waiting", ![t].cur_state = "WAITING"]
    /\ UNCHANGED <<holders, lockMode, wait, file_mutex, txn_mutex, detector,
                   crashed, disturbed, swallowed>>

\* ... then the file is written there, and the thread sleeps on the wait node.
Blocked(t) ==
    LET f == txn[t].file
    IN  /\ txn[t].pc = "waiting"
        /\ wait' = [wait EXCEPT ![f].in_wait = @ + 1]
        /\ disturbed' = (disturbed \/ wait[f].txnid_abort # NoMark)
        /\ txn' = [txn EXCEPT ![t].pc = "asleep", ![t].waiting_for_inode = f]
        /\ file_mutex' = NoMark
        /\ UNCHANGED <<holders, lockMode, txn_mutex, detector, crashed, swallowed>>

\* update_wait_list_on_wake: the last one frees the node.
Leave(node) == IF node.in_wait = 1 THEN NoNode ELSE [node EXCEPT !.in_wait = @ - 1]

\* Woken up without a mark: on to resume, still WAITING in the transaction's node.
WakeToResume(t) ==
    LET f == txn[t].file
    IN  /\ txn[t].pc = "woken" /\ file_mutex = NoMark
        /\ wait[f].txnid_abort = NoMark
        /\ wait' = [wait EXCEPT ![f] = Leave(@)]
        /\ txn' = [txn EXCEPT ![t].pc = "resume", ![t].released = FALSE]
        /\ UNCHANGED <<holders, lockMode, file_mutex, txn_mutex, detector, crashed, disturbed, swallowed>>

\* insert_file_list sets RUNNING and forgets the file, without a lock.
SetRunning(t) ==
    /\ txn[t].pc = "resume"
    /\ txn' = [txn EXCEPT ![t].pc = "ask again", ![t].cur_state = "RUNNING",
                         ![t].waiting_for_inode = NoFile]
    /\ UNCHANGED <<holders, lockMode, wait, file_mutex, txn_mutex, detector,
                   crashed, disturbed, swallowed>>

\* resume locks file_mutex and asks again.
Resume(t) ==
    /\ txn[t].pc = "ask again" /\ file_mutex = NoMark
    /\ file_mutex' = t
    /\ txn' = [txn EXCEPT ![t].pc = "insert"]
    /\ UNCHANGED <<holders, lockMode, wait, txn_mutex, detector, crashed, disturbed, swallowed>>

\* Mutant: the last one to wake up does not tell the victim.
SignalsNobody(nodes, f, node) == nodes

\* The last one to wake up signals wake_cond, where the victim waits.
SignalVictim(nodes, f, node) ==
    [v \in Txns |->
       IF node.woke_up = node.in_wait /\ nodes[v].pc = "on wake_cond"
          /\ nodes[v].file = f
       THEN [nodes[v] EXCEPT !.pc = "signalled"]
       ELSE nodes[v]]

\* Somebody else is the victim.
WakeAndSleepAgain(t) ==
    LET f == txn[t].file
        counted == [wait[f] EXCEPT !.woke_up = @ + 1]
    IN  /\ txn[t].pc = "woken" /\ file_mutex = NoMark
        /\ wait[f].txnid_abort \notin {NoMark, t}
        /\ wait' = [wait EXCEPT ![f] = counted]
        /\ txn' = SignalVictim([txn EXCEPT ![t].pc = "asleep", ![t].released = FALSE], f, counted)
        /\ swallowed' = (swallowed \/ txn[t].released)
        /\ UNCHANGED <<holders, lockMode, file_mutex, txn_mutex, detector, crashed, disturbed>>

\* Mutant: the victim is not taken off the count.
UnmarkOnly(node) == [node EXCEPT !.txnid_abort = NoMark]

\* The mark is taken off and the node left.
LeaveToAbort(node) == Leave([node EXCEPT !.txnid_abort = NoMark])

WakeAsVictim(t) ==
    LET f == txn[t].file
        counted == [wait[f] EXCEPT !.woke_up = @ + 1]
    IN  /\ txn[t].pc = "woken" /\ file_mutex = NoMark
        /\ wait[f].txnid_abort = t
        /\ IF counted.woke_up = counted.in_wait
           THEN /\ wait' = [wait EXCEPT ![f] = LeaveToAbort(counted)]
                /\ txn' = [txn EXCEPT ![t].pc = "abort"]
           ELSE /\ wait' = [wait EXCEPT ![f] = counted]
                /\ txn' = [txn EXCEPT ![t].pc = "counting"]
        /\ UNCHANGED <<holders, lockMode, file_mutex, txn_mutex, detector, crashed, disturbed, swallowed>>

\* Mutant: the victim goes to sleep without looking.
WaitsUncounted(t) == txn' = [txn EXCEPT ![t].pc = "on wake_cond"]

WaitsForOthers(t) ==
    LET node == wait[txn[t].file]
    IN  txn' = [txn EXCEPT ![t].pc = IF node.woke_up < node.in_wait THEN "on wake_cond"
                                     ELSE "signalled"]

\* Under wake_mutex, without file_mutex: the others may have been counted by now.
VictimCounts(t) ==
    /\ txn[t].pc = "counting"
    /\ WaitsForOthers(t)
    /\ UNCHANGED <<holders, lockMode, wait, file_mutex, txn_mutex, detector,
                   crashed, disturbed, swallowed>>

VictimGoesOn(t) ==
    /\ txn[t].pc = "signalled" /\ file_mutex = NoMark
    /\ wait' = [wait EXCEPT ![txn[t].file] = LeaveToAbort(@)]
    /\ txn' = [txn EXCEPT ![t].pc = "abort"]
    /\ UNCHANGED <<holders, lockMode, file_mutex, txn_mutex, detector, crashed, disturbed, swallowed>>

Without(s, t) ==
    IF t \in ToSet(s) THEN RemoveAt(s, CHOOSE i \in 1 .. Len(s) : s[i] = t) ELSE s

\* on_txn_commit, on_txn_abort: the locks go first, under file_mutex.
EndTxn(t) ==
    LET freed == {f \in Files : holders[f] = <<t>>}
    IN  /\ txn[t].pc \in {"running", "abort"} /\ file_mutex = NoMark
        /\ holders' = [f \in Files |-> Without(holders[f], t)]
        /\ txn' = [Broadcast(txn, freed, TRUE) EXCEPT ![t].pc = "delete"]
        /\ UNCHANGED <<lockMode, wait, file_mutex, txn_mutex, detector, crashed, disturbed, swallowed>>

txn_delete(t) ==
    /\ txn[t].pc = "delete" /\ txn_mutex = NoMark
    /\ txn' = [txn EXCEPT ![t].pc = "gone", ![t].file = NoFile]
    /\ UNCHANGED <<holders, lockMode, wait, file_mutex, txn_mutex, detector,
                   crashed, disturbed, swallowed>>

-----------------------------------------------------------------------------
(* The thread of the detector. *)

\* The list of transactions behind t, in its order.
After(t) == SetToSortSeq({u \in Txns : t < u /\ txn[u].pc # "gone"}, <)

\* With the step taken, the detector goes on to the next transaction or the edges.
GoOn(d, t) ==
    detector' = IF After(t) = <<>> THEN [d EXCEPT !.pc = "edges", !.at = NoMark]
                ELSE [d EXCEPT !.pc = "note", !.at = Head(After(t))]

\* A round begins: txn_mutex is locked, and kept until the edges are drawn.
BeginRound ==
    /\ detector.pc = "sleep" /\ txn_mutex = NoMark
    /\ txn_mutex' = Detector
    /\ GoOn(Resting, NoMark)
    /\ UNCHANGED <<holders, lockMode, txn, wait, file_mutex, crashed, disturbed, swallowed>>

\* The state of a transaction is read ...
NoteState ==
    /\ detector.pc = "note"
    /\ IF txn[detector.at].cur_state = "WAITING"
       THEN detector' = [detector EXCEPT !.pc = "inode"]
       ELSE GoOn(detector, detector.at)
    /\ UNCHANGED <<holders, lockMode, txn, wait, file_mutex, txn_mutex, crashed, disturbed, swallowed>>

\* ... and then the file it waits for, which may not be there yet or any more.
NoteInode ==
    LET t == detector.at
    IN  /\ detector.pc = "inode"
        /\ GoOn([detector EXCEPT !.list = Append(@, t),
                                 !.inode = @ @@ (t :> txn[t].waiting_for_inode)], t)
        /\ UNCHANGED <<holders, lockMode, txn, wait, file_mutex, txn_mutex,
                       crashed, disturbed, swallowed>>

Search == detect_cycles(Graph(detector.list, detector.inode), detector.list)

\* Mutant: the last one that was noted is chosen.
LastNoted(found) == Last(detector.list)

\* The first one of the first cycle is chosen.
Chosen(found) == Head(found.in_deadlock)

\* A file that is not locked any more, or no file at all, is looked for behind the
\* end of the list of locks.
NotLocked(f) == f = NoFile \/ holders[f] = <<>>

\* The edges, under file_mutex as well, and then, without a mutex, the search.
DrawEdges ==
    /\ detector.pc = "edges" /\ file_mutex = NoMark
    /\ txn_mutex' = NoMark
    /\ IF \E t \in ToSet(detector.list) : NotLocked(detector.inode[t])
       THEN /\ crashed' = TRUE
            /\ detector' = [detector EXCEPT !.pc = "dead"]
       ELSE /\ CASE Search.overrun -> detector' = [detector EXCEPT !.pc = "dead"]
                 [] ~Search.overrun /\ Search.in_deadlock = <<>> -> detector' = Resting
                 [] OTHER -> \E v \in Txns : /\ v = Chosen(Search)
                                             /\ detector' = [detector EXCEPT !.pc = "mark", !.victim = v]
            /\ UNCHANGED crashed
    /\ UNCHANGED <<holders, lockMode, txn, wait, file_mutex, disturbed, swallowed>>

Marked(node, v) == [node EXCEPT !.txnid_abort = v, !.woke_up = 0]

\* The handshake of an earlier mark is under way.
Counting(f) ==
    /\ wait[f].txnid_abort # NoMark
    /\ \E t \in Txns : txn[t].file = f
                      /\ txn[t].pc \in {"woken", "counting", "signalled"}

\* The wait node is looked for by the number of the file, cut to an int.
MarkVictim ==
    LET f == detector.inode[detector.victim]
    IN  /\ detector.pc = "mark" /\ file_mutex = NoMark
        /\ IF f \in Wide \/ wait[f].in_wait = 0
           THEN /\ crashed' = TRUE
                /\ detector' = [detector EXCEPT !.pc = "dead"]
                /\ UNCHANGED <<wait, txn>>
           ELSE /\ wait' = [wait EXCEPT ![f] = Marked(@, detector.victim)]
                /\ txn' = Broadcast(txn, {f}, FALSE)
                /\ detector' = Resting
                /\ UNCHANGED crashed
        /\ disturbed' = (disturbed \/ Counting(f))
        /\ UNCHANGED <<holders, lockMode, file_mutex, txn_mutex, swallowed>>

Thread(t) ==
    \/ \E f \in Files, m \in Modes[t] : Request(t, f, m)
    \/ FindNode(t) \/ Granted(t) \/ SetWaiting(t) \/ Blocked(t)
    \/ WakeToResume(t) \/ SetRunning(t) \/ Resume(t)
    \/ WakeAndSleepAgain(t) \/ WakeAsVictim(t) \/ VictimCounts(t) \/ VictimGoesOn(t)
    \/ EndTxn(t) \/ txn_delete(t)

deadlock_detection == BeginRound \/ NoteState \/ NoteInode \/ DrawEdges \/ MarkVictim

Next == (\E t \in Txns : Thread(t)) \/ deadlock_detection

Spec == Init /\ [][Next]_vars
FairSpec == Spec /\ (\A t \in Txns : WF_vars(Thread(t))) /\ WF_vars(deadlock_detection)

-----------------------------------------------------------------------------
(* Properties. *)

\* The types of the variables.
TypeOK ==
    /\ \A f \in Files : ToSet(holders[f]) \subseteq Txns /\ IsInjective(holders[f])
    /\ lockMode \in [Files -> {0, 1}]
    /\ \A t \in Txns :
         /\ txn[t].pc \in {"running", "insert", "decide", "waiting", "asleep", "woken",
                           "resume", "ask again", "counting", "on wake_cond", "signalled",
                           "abort", "delete", "gone"}
         /\ {txn[t].file, txn[t].waiting_for_inode} \subseteq Files \cup {NoFile}
         /\ txn[t].cur_state \in {"RUNNING", "WAITING"}
    /\ \A f \in Files : /\ wait[f].in_wait \in 0 .. Cardinality(Txns)
                        /\ wait[f].txnid_abort \in Txns \cup {NoMark}
    /\ file_mutex \in Txns \cup {NoMark}
    /\ txn_mutex \in {Detector, NoMark}
    /\ detector.pc \in {"sleep", "note", "inode", "edges", "mark", "dead"}
    /\ {crashed, disturbed, swallowed} \subseteq BOOLEAN

Sleeping(t) == txn[t].pc \in {"asleep", "woken", "counting", "on wake_cond", "signalled"}

\* Who keeps a blocked transaction from going on, as things are.
Blockers(t) == IF Sleeping(t) THEN ToSet(holders[txn[t].file]) \ {t} ELSE {}

\* Those in S, and who keeps them from going on, over n steps.
Behind(S, n) ==
    LET Within[k \in 0 .. n] ==
          IF k = 0 THEN S
          ELSE Within[k - 1] \cup UNION {Blockers(t) : t \in Within[k - 1]}
    IN  Within[n]

InDeadlock(t) == t \in Behind(Blockers(t), Cardinality(Txns))

\* The transactions the detector has noted have not moved since.
Unmoved == \A t \in ToSet(detector.list) : txn[t].pc = "asleep"

\* The victim is part of a deadlock, unless one of those it was chosen among had
\* been woken up by then (deadlock.c: the list is older than the edges, and a
\* transaction that was woken up still counts as WAITING).
VictimInDeadlock ==
    detector.pc = "mark" /\ Unmoved => InDeadlock(detector.victim)

\* The wait node counts its sleepers: nobody leaves it twice, at a resume, or as a
\* victim, counted by the others or by itself.
WaitersCounted ==
    TypeOK /\ \A f \in Files :
      wait[f].in_wait = Cardinality({t \in Txns : Sleeping(t) /\ txn[t].file = f})

\* A victim that waits for the others has somebody to wait for, who is still to
\* wake up and be counted.  (A thread that joins later is never counted, and when
\* the handshake takes longer than a round the next mark begins the count again
\* without the victim: it then waits for ever.)
VictimNotForgotten ==
    \A t \in Txns :
      txn[t].pc = "on wake_cond" /\ ~disturbed =>
        \E u \in Txns : txn[u].pc = "woken" /\ txn[u].file = txn[t].file

\* Whoever t waits for, directly or not, has been noted.
AllNoted(t) == Behind({t}, Cardinality(Txns)) \subseteq ToSet(detector.list)

\* A round that finds no cycle missed none of those whose members it had all noted,
\* where every file that is waited for has one holder.  (A member that fell asleep
\* behind the detector's back, between its turn in the list and the edges, is left
\* to the next round.  With more holders the search for them stops at the first one
\* that is not waiting itself, and a deadlock behind it is missed.)
CyclesFound ==
    [][DrawEdges /\ detector' = Resting /\ Unmoved
       /\ (\A t \in ToSet(detector.list) : Len(holders[detector.inode[t]]) = 1)
         => \A t \in ToSet(detector.list) : AllNoted(t) => ~InDeadlock(t)]_vars

\* insert_file_list holds file_mutex and needs txn_mutex, to look for its transaction
\* or to list a lock it has granted; the detector holds txn_mutex and needs file_mutex.
MutexCycle ==
    /\ detector.pc = "edges" /\ file_mutex # NoMark
    /\ LET t == txn[file_mutex]
       IN  t.pc = "insert" \/ (t.pc = "decide" /\ Grantable(t.file, t.mode))

\* What keeps the detector from its work.
Excused ==
    \/ MutexCycle \/ detector.pc = "dead" \/ disturbed \/ swallowed
    \/ \E t \in Txns : Sleeping(t) /\ Len(holders[txn[t].file]) > 1

\* A deadlock is resolved while the rounds go on, if the two mutexes are not taken
\* crosswise and none of the other departures comes in between (deadlock_detection).
\* Of the code's thirty rounds, and of a detector never started, this says nothing.
DeadlockResolved == (\E t \in Txns : InDeadlock(t)) ~> ((\A t \in Txns : ~InDeadlock(t)) \/ Excused)
=============================================================================
