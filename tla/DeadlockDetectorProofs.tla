----------------------- MODULE DeadlockDetectorProofs -----------------------
(***************************************************************************)
(* Proofs about the handshake of DeadlockDetector, for any number of       *)
(* transactions and files.  Nothing is used of the search for cycles but   *)
(* that it chooses a transaction: the handshake goes well whoever is       *)
(* marked, whenever.                                                       *)
(***************************************************************************)
EXTENDS DeadlockDetector, FiniteSetTheorems, TLAPS

SleepPcs == {"asleep", "woken", "counting", "on wake_cond", "signalled"}
VictimPcs == {"counting", "on wake_cond", "signalled"}
AskPcs == SleepPcs \cup {"insert", "decide", "waiting", "resume", "ask again"}
Pcs == AskPcs \cup {"running", "abort", "delete", "gone"}

Threads == [pc : Pcs, file : Files \cup {NoFile}, mode : {0, 1},
            cur_state : {"RUNNING", "WAITING"}, waiting_for_inode : Files \cup {NoFile},
            requests : Nat, released : BOOLEAN]
WaitNodes == [in_wait : Nat, txnid_abort : Txns \cup {NoMark}, woke_up : Nat]

(***************************************************************************)
(* The inductive invariant, in parts.                                      *)
(***************************************************************************)

Types ==
    /\ holders \in [Files -> Seq(Txns)] /\ \A f \in Files : IsInjective(holders[f])
    /\ lockMode \in [Files -> {0, 1}]
    /\ txn \in [Txns -> Threads]
    /\ wait \in [Files -> WaitNodes]
    /\ file_mutex \in Txns \cup {NoMark}
    /\ txn_mutex \in {Detector, NoMark}
    /\ detector.pc \in {"sleep", "note", "inode", "edges", "mark", "dead"}
    /\ "pc" \in DOMAIN detector /\ "victim" \in DOMAIN detector
    /\ detector.pc = "mark" => detector.victim \in Txns
    /\ crashed \in BOOLEAN /\ disturbed \in BOOLEAN /\ swallowed \in BOOLEAN

\* Who asks for a file does not hold it.
Asks == \A t \in Txns : txn[t].pc \in AskPcs => /\ txn[t].file \in Files
                                                /\ ~Holds(t, txn[t].file)

SleepersIn(nodes, f) == {t \in Txns : nodes[t].pc \in SleepPcs /\ nodes[t].file = f}
WokenIn(nodes, f) == {t \in Txns : nodes[t].pc = "woken" /\ nodes[t].file = f}

Counted == \A f \in Files : wait[f].in_wait = Cardinality(SleepersIn(txn, f))

\* The handshake at f: whoever is not counted yet is awake, only the victim waits,
\* and it waits only while somebody is not counted.
Shaken(nodes, node, f) ==
    /\ node.txnid_abort # NoMark => node.in_wait <= node.woke_up + Cardinality(WokenIn(nodes, f))
    /\ \A t \in Txns : nodes[t].pc \in VictimPcs /\ nodes[t].file = f =>
         /\ node.txnid_abort = t
         /\ nodes[t].pc = "on wake_cond" => node.woke_up < node.in_wait

Shook == ~disturbed => \A f \in Files : Shaken(txn, wait[f], f)

IInv == Types /\ Asks /\ Counted /\ Shook

(***************************************************************************)
(* Sleepers.                                                               *)
(***************************************************************************)

\* There are finitely many sleepers, some of them woken up.
LEMMA SleepersFinite ==
    ASSUME NEW nodes, NEW f
    PROVE  /\ IsFiniteSet(SleepersIn(nodes, f)) /\ Cardinality(SleepersIn(nodes, f)) \in Nat
           /\ Cardinality(SleepersIn(nodes, f)) <= Cardinality(Txns)
           /\ IsFiniteSet(WokenIn(nodes, f)) /\ Cardinality(WokenIn(nodes, f)) \in Nat
<1>1. IsFiniteSet(Txns) /\ Cardinality(Txns) \in Nat
  BY TxnsAssumption, FS_CardinalityType
<1>2. SleepersIn(nodes, f) \in SUBSET Txns /\ WokenIn(nodes, f) \in SUBSET Txns
  BY DEF SleepersIn, WokenIn
<1>3. IsFiniteSet(SleepersIn(nodes, f)) /\ Cardinality(SleepersIn(nodes, f)) <= Cardinality(Txns)
  BY <1>1, <1>2, FS_Subset
<1>4. IsFiniteSet(WokenIn(nodes, f))
  BY <1>1, <1>2, FS_Subset
<1> QED
  BY <1>3, <1>4, FS_CardinalityType

\* At g the same threads sleep, none that is awake falls asleep, no victim comes or moves.
SameAt(nodes, nodes2, g) ==
    \A t \in Txns :
      /\ (nodes2[t].pc \in SleepPcs /\ nodes2[t].file = g)
           <=> (nodes[t].pc \in SleepPcs /\ nodes[t].file = g)
      /\ nodes[t].pc = "woken" /\ nodes[t].file = g => nodes2[t].pc = "woken"
      /\ nodes2[t].pc \in VictimPcs /\ nodes2[t].file = g => nodes2[t].pc = nodes[t].pc

\* Then the handshake at g stays as it is.
LEMMA StaysAt ==
    ASSUME NEW nodes, NEW nodes2, NEW g, SameAt(nodes, nodes2, g)
    PROVE  /\ SleepersIn(nodes2, g) = SleepersIn(nodes, g)
           /\ \A node \in WaitNodes : Shaken(nodes, node, g) => Shaken(nodes2, node, g)
<1>1. SleepersIn(nodes2, g) = SleepersIn(nodes, g)
  BY DEF SameAt, SleepersIn
<1>2. WokenIn(nodes, g) \in SUBSET WokenIn(nodes2, g)
  BY DEF SameAt, WokenIn, SleepPcs
<1>3. PICK a, b \in Nat : a = Cardinality(WokenIn(nodes, g)) /\ b = Cardinality(WokenIn(nodes2, g))
  BY SleepersFinite
<1>4. a <= b
  BY <1>2, <1>3, SleepersFinite, FS_Subset
<1>5. ASSUME NEW node \in WaitNodes, Shaken(nodes, node, g) PROVE Shaken(nodes2, node, g)
  <2>1. node.in_wait \in Nat /\ node.woke_up \in Nat
    BY DEF WaitNodes
  <2>2. node.txnid_abort # NoMark => node.in_wait <= node.woke_up + a
    BY <1>3, <1>5 DEF Shaken
  <2>3. node.txnid_abort # NoMark => node.in_wait <= node.woke_up + b
    BY <1>3, <1>4, <2>1, <2>2
  <2>4. ASSUME NEW t \in Txns, nodes2[t].pc \in VictimPcs, nodes2[t].file = g
        PROVE  /\ node.txnid_abort = t
               /\ nodes2[t].pc = "on wake_cond" => node.woke_up < node.in_wait
    <3>1. nodes[t].pc = nodes2[t].pc /\ nodes[t].file = g
      BY <2>4 DEF SameAt, VictimPcs, SleepPcs
    <3> QED
      BY <1>5, <2>4, <3>1 DEF Shaken
  <2> QED
    BY <1>3, <2>3, <2>4 DEF Shaken
<1> QED
  BY <1>1, <1>5

\* A step that does not concern the handshakes.
LEMMA NowhereKeeps ==
    ASSUME IInv, wait' = wait, disturbed => disturbed', \A g \in Files : SameAt(txn, txn', g)
    PROVE  Counted' /\ Shook'
<1>1. PICK nodes, nodes2, node : nodes = txn /\ nodes2 = txn' /\ node = wait
  OBVIOUS
<1>2. \A g \in Files : node[g] \in WaitNodes
  BY <1>1 DEF IInv, Types
<1>3. ASSUME NEW g \in Files
      PROVE  /\ SleepersIn(nodes2, g) = SleepersIn(nodes, g)
             /\ Shaken(nodes, node[g], g) => Shaken(nodes2, node[g], g)
  <2>1. SameAt(nodes, nodes2, g)
    BY <1>1
  <2> QED
    BY <1>2, <2>1, StaysAt
<1>4. Counted'
  BY <1>1, <1>3 DEF IInv, Counted
<1>5. Shook'
  BY <1>1, <1>3 DEF IInv, Shook
<1> QED
  BY <1>4, <1>5

\* A step that concerns the handshake at f.
LEMMA ElsewhereKeeps ==
    ASSUME IInv, NEW f \in Files,
           \A g \in Files \ {f} : wait'[g] = wait[g] /\ SameAt(txn, txn', g),
           wait'[f].in_wait = Cardinality(SleepersIn(txn', f)),
           ~disturbed' => ~disturbed /\ Shaken(txn', wait'[f], f)
    PROVE  Counted' /\ Shook'
<1>1. PICK nodes, nodes2, node, node2 : /\ nodes = txn /\ nodes2 = txn'
                                        /\ node = wait /\ node2 = wait'
  OBVIOUS
<1>2. \A g \in Files : node[g] \in WaitNodes
  BY <1>1 DEF IInv, Types
<1>3. ASSUME NEW g \in Files \ {f}
      PROVE  /\ SleepersIn(nodes2, g) = SleepersIn(nodes, g) /\ node2[g] = node[g]
             /\ Shaken(nodes, node[g], g) => Shaken(nodes2, node[g], g)
  <2>1. SameAt(nodes, nodes2, g) /\ node2[g] = node[g]
    BY <1>1
  <2> QED
    BY <1>2, <2>1, StaysAt
<1>4. Counted'
  BY <1>1, <1>3 DEF IInv, Counted
<1>5. Shook'
  BY <1>1, <1>3 DEF IInv, Shook
<1> QED
  BY <1>4, <1>5

\* Whoever leaves a wait node is taken off the count (update_wait_list_on_wake).
LEMMA LeftNode ==
    ASSUME NEW node \in WaitNodes, NEW S, IsFiniteSet(S), NEW t \in S, node.in_wait = Cardinality(S)
    PROVE  /\ Leave(node) \in WaitNodes /\ Leave(node).in_wait = Cardinality(S \ {t})
           /\ node.txnid_abort = NoMark => Leave(node).txnid_abort = NoMark
<1>1. Cardinality(S \ {t}) = Cardinality(S) - 1 /\ IsFiniteSet(S \ {t})
  BY FS_RemoveElement
<1>2. Cardinality(S) \in Nat /\ Cardinality(S \ {t}) \in Nat
  BY <1>1, FS_CardinalityType
<1>3. CASE node.in_wait = 1
  BY <1>1, <1>2, <1>3 DEF Leave, NoNode, WaitNodes
<1>4. CASE node.in_wait # 1
  <2>1. Leave(node) = [node EXCEPT !.in_wait = @ - 1]
    BY <1>4 DEF Leave
  <2>2. node.in_wait - 1 \in Nat
    BY <1>1, <1>2
  <2> QED
    BY <1>1, <1>2, <2>1, <2>2 DEF WaitNodes
<1> QED
  BY <1>3, <1>4

(***************************************************************************)
(* The steps of a thread.                                                  *)
(***************************************************************************)

\* What a thread's step from p to q does to the threads.
Goes(t, p, q, f) ==
    /\ txn[t].pc = p /\ txn' \in [Txns -> Threads]
    /\ \A u \in Txns \ {t} : txn'[u] = txn[u]
    /\ txn'[t].pc = q /\ txn'[t].file = f

\* A thread that sleeps neither before nor after does not concern the handshakes.
LEMMA AwakeKeeps ==
    ASSUME IInv, NEW t \in Txns, NEW p, NEW q, NEW f, Goes(t, p, q, f),
           p \notin SleepPcs, q \notin SleepPcs, wait' = wait, disturbed' = disturbed
    PROVE  Counted' /\ Shook'
<1>1. \A g \in Files : SameAt(txn, txn', g)
  BY DEF SameAt, Goes, SleepPcs, VictimPcs
<1> QED
  BY <1>1, NowhereKeeps

\* Who asks for a file still does not hold it.
LEMMA AsksKept ==
    ASSUME IInv, NEW t \in Txns, NEW p, NEW q, NEW f, Goes(t, p, q, f), holders' = holders,
           q \in AskPcs => f \in Files /\ ~Holds(t, f)
    PROVE  Asks'
<1> SUFFICES ASSUME NEW u \in Txns, txn'[u].pc \in AskPcs
             PROVE  /\ txn'[u].file \in Files
                    /\ u \notin ToSet(holders'[txn'[u].file])
  BY DEF Asks, Holds
<1>1. CASE u = t
  BY <1>1 DEF Goes, Holds
<1>2. CASE u # t
  <2>1. txn'[u] = txn[u]
    BY <1>2 DEF Goes
  <2> QED
    BY <2>1 DEF IInv, Asks, Holds
<1> QED
  BY <1>1, <1>2

\* A file is asked for.
LEMMA RequestKeeps ==
    ASSUME IInv, NEW t \in Txns, NEW f \in Files, NEW m \in Modes[t], Request(t, f, m)
    PROVE  IInv'
<1>1. m \in {0, 1} /\ txn \in [Txns -> Threads] /\ txn[t] \in Threads
  BY ModesAssumption DEF IInv, Types
<1>2. txn' = [txn EXCEPT ![t].pc = "insert", ![t].file = f, ![t].mode = m,
                         ![t].requests = @ + 1]
  BY DEF Request
<1>3. PICK n : n = [txn[t] EXCEPT !.pc = "insert", !.file = f, !.mode = m,
                                  !.requests = @ + 1]
  OBVIOUS
<1>4. n \in Threads /\ n.pc = "insert" /\ n.file = f
  <2>1. PICK o \in Threads, k \in Nat, p \in Pcs : o = txn[t] /\ k = o.requests + 1 /\ p = "insert"
    <3>1. "insert" \in Pcs
      BY DEF Pcs, AskPcs
    <3>2. txn[t].requests + 1 \in Nat
      BY <1>1 DEF Threads
    <3> QED
      BY <1>1, <3>1, <3>2
  <2>2. n = [o EXCEPT !.pc = p, !.file = f, !.mode = m, !.requests = k]
    BY <1>3, <2>1
  <2> QED
    BY <1>1, <2>1, <2>2 DEF Threads
<1>5. txn' = [txn EXCEPT ![t] = n]
  BY <1>1, <1>2, <1>3
<1>6. Goes(t, "running", "insert", f)
  <2>1. txn' \in [Txns -> Threads] /\ txn'[t] = n /\ \A u \in Txns \ {t} : txn'[u] = txn[u]
    BY <1>1, <1>4, <1>5
  <2> QED
    BY <1>4, <2>1 DEF Goes, Request
<1>7. Asks'
  <2>1. holders' = holders /\ ~Holds(t, f)
    BY DEF Request
  <2> QED
    BY <1>6, <2>1, AsksKept
<1>8. Counted' /\ Shook'
  <2>1. wait' = wait /\ disturbed' = disturbed
    BY DEF Request
  <2>2. "running" \notin SleepPcs /\ "insert" \notin SleepPcs
    BY DEF SleepPcs
  <2> QED
    BY <1>6, <2>1, <2>2, AwakeKeeps
<1>9. Types'
  <2>1. /\ file_mutex' = t
        /\ UNCHANGED <<holders, lockMode, wait, txn_mutex, detector, crashed, disturbed, swallowed>>
    BY DEF Request
  <2> QED
    BY <1>6, <2>1 DEF Goes, IInv, Types
<1> QED
  BY <1>7, <1>8, <1>9 DEF IInv

\* Append keeps the chain of holders without repetition.
LEMMA HeldByOneMore ==
    ASSUME NEW s \in Seq(Txns), IsInjective(s), NEW t \in Txns, t \notin ToSet(s)
    PROVE  /\ Append(s, t) \in Seq(Txns) /\ IsInjective(Append(s, t))
           /\ ToSet(Append(s, t)) = ToSet(s) \cup {t}
<1>1. PICK n \in Nat : n = Len(s)
  OBVIOUS
<1>2. PICK c : c = Append(s, t)
  OBVIOUS
<1>3. c \in Seq(Txns) /\ Len(c) = n + 1 /\ c[n + 1] = t /\ \A i \in 1..n : c[i] = s[i]
  BY <1>1, <1>2
<1>4. DOMAIN s = 1..n /\ DOMAIN c = 1..(n + 1)
  BY <1>1, <1>3
<1>5. \A i \in 1..n : s[i] # t
  BY <1>4 DEF ToSet
<1>6. IsInjective(c)
  <2> SUFFICES ASSUME NEW i \in 1..(n + 1), NEW j \in 1..(n + 1), c[i] = c[j] PROVE i = j
    BY <1>4 DEF IsInjective
  <2>1. CASE i \in 1..n /\ j \in 1..n
    BY <1>3, <1>4, <2>1 DEF IsInjective
  <2>2. CASE i = n + 1 \/ j = n + 1
    BY <1>3, <1>5, <2>2
  <2> QED
    BY <2>1, <2>2
<1>7. ToSet(c) = ToSet(s) \cup {t}
  <2>1. ToSet(c) = {c[i] : i \in 1..(n + 1)} /\ ToSet(s) = {s[i] : i \in 1..n}
    BY <1>4 DEF ToSet
  <2> QED
    BY <1>3, <2>1
<1> QED
  BY <1>2, <1>3, <1>6, <1>7

\* The file is granted.
LEMMA GrantedKeeps ==
    ASSUME IInv, NEW t \in Txns, Granted(t)
    PROVE  IInv'
<1>1. txn \in [Txns -> Threads] /\ txn[t] \in Threads /\ holders \in [Files -> Seq(Txns)]
  BY DEF IInv, Types
<1>2. PICK f : f = txn[t].file
  OBVIOUS
<1>3. /\ txn[t].pc = "decide" /\ holders' = [holders EXCEPT ![f] = Append(@, t)]
      /\ lockMode' = [lockMode EXCEPT ![f] = txn[t].mode]
      /\ txn' = [txn EXCEPT ![t].pc = "running", ![t].file = NoFile]
      /\ file_mutex' = NoMark
      /\ UNCHANGED <<wait, txn_mutex, detector, crashed, disturbed, swallowed>>
  BY <1>2 DEF Granted
<1>4. f \in Files /\ t \notin ToSet(holders[f])
  BY <1>2, <1>3 DEF IInv, Asks, AskPcs, Holds
<1>5. PICK n : n = [txn[t] EXCEPT !.pc = "running", !.file = NoFile]
  OBVIOUS
<1>6. n \in Threads /\ n.pc = "running" /\ n.file = NoFile
  BY <1>1, <1>5 DEF Threads, Pcs
<1>7. txn' = [txn EXCEPT ![t] = n]
  BY <1>1, <1>3, <1>5
<1>8. Goes(t, "decide", "running", NoFile)
  BY <1>1, <1>3, <1>6, <1>7 DEF Goes
<1>9. /\ holders' \in [Files -> Seq(Txns)] /\ \A g \in Files : IsInjective(holders'[g])
      /\ ToSet(holders'[f]) = ToSet(holders[f]) \cup {t}
  <2>1. PICK c : c = Append(holders[f], t)
    OBVIOUS
  <2>2. holders[f] \in Seq(Txns) /\ IsInjective(holders[f])
    BY <1>4 DEF IInv, Types
  <2>3. c \in Seq(Txns) /\ IsInjective(c) /\ ToSet(c) = ToSet(holders[f]) \cup {t}
    BY <1>4, <2>1, <2>2, HeldByOneMore
  <2>4. holders' = [holders EXCEPT ![f] = c]
    BY <1>3, <2>1
  <2> QED
    BY <1>1, <1>4, <2>3, <2>4 DEF IInv, Types
<1>10. Asks'
  <2> SUFFICES ASSUME NEW u \in Txns, txn'[u].pc \in AskPcs
               PROVE  /\ txn'[u].file \in Files
                      /\ u \notin ToSet(holders'[txn'[u].file])
    BY DEF Asks, Holds
  <2>1. u # t /\ txn'[u] = txn[u]
    BY <1>8 DEF Goes, AskPcs, SleepPcs
  <2>2. txn[u].file \in Files /\ u \notin ToSet(holders[txn[u].file])
    BY <2>1 DEF IInv, Asks, Holds
  <2> QED
    BY <1>1, <1>3, <1>9, <2>1, <2>2
<1>11. Counted' /\ Shook'
  BY <1>3, <1>8, AwakeKeeps DEF SleepPcs
<1>12. lockMode' \in [Files -> {0, 1}]
  BY <1>1, <1>3 DEF IInv, Types, Threads
<1>13. Types'
  BY <1>3, <1>8, <1>9, <1>12 DEF Goes, IInv, Types
<1> QED
  BY <1>10, <1>11, <1>13 DEF IInv

\* A thread goes on asking for the same file, neither asleep before nor after.
LEMMA AsksOnKeeps ==
    ASSUME IInv, NEW t \in Txns, NEW p \in AskPcs \ SleepPcs, NEW q \in AskPcs \ SleepPcs,
           NEW n \in Threads, txn[t].pc = p, n.pc = q, n.file = txn[t].file,
           txn' = [txn EXCEPT ![t] = n], file_mutex' \in Txns \cup {NoMark},
           UNCHANGED <<holders, lockMode, wait, txn_mutex, detector, crashed, disturbed, swallowed>>
    PROVE  IInv'
<1>1. txn \in [Txns -> Threads]
  BY DEF IInv, Types
<1>2. PICK f : f = txn[t].file
  OBVIOUS
<1>3. f \in Files /\ ~Holds(t, f)
  BY <1>2 DEF IInv, Asks
<1>4. Goes(t, p, q, f)
  BY <1>1, <1>2 DEF Goes
<1>5. Asks'
  BY <1>3, <1>4, AsksKept
<1>6. Counted' /\ Shook'
  BY <1>4, AwakeKeeps
<1>7. Types'
  BY <1>4 DEF Goes, IInv, Types
<1> QED
  BY <1>5, <1>6, <1>7 DEF IInv

\* A thread has found its transaction.
LEMMA FindNodeKeeps ==
    ASSUME IInv, NEW t \in Txns, FindNode(t)
    PROVE  IInv'
<1>1. txn \in [Txns -> Threads] /\ txn[t] \in Threads /\ file_mutex \in Txns \cup {NoMark}
  BY DEF IInv, Types
<1>2. /\ txn[t].pc = "insert"
      /\ txn' = [txn EXCEPT ![t].pc = "decide"]
      /\ UNCHANGED <<holders, lockMode, wait, file_mutex, txn_mutex, detector,
                     crashed, disturbed, swallowed>>
  BY DEF FindNode
<1>3. PICK n : n = [txn[t] EXCEPT !.pc = "decide"]
  OBVIOUS
<1>4. n \in Threads /\ n.pc = "decide" /\ n.file = txn[t].file
  BY <1>1, <1>3 DEF Threads, Pcs, AskPcs
<1>5. txn' = [txn EXCEPT ![t] = n]
  BY <1>1, <1>2, <1>3
<1>6. PICK p \in AskPcs \ SleepPcs, q \in AskPcs \ SleepPcs : p = "insert" /\ q = "decide"
  BY DEF AskPcs, SleepPcs
<1>7. txn[t].pc = p /\ n.pc = q /\ file_mutex' \in Txns \cup {NoMark}
  BY <1>1, <1>2, <1>4, <1>6
<1>8. UNCHANGED <<holders, lockMode, wait, txn_mutex, detector, crashed, disturbed, swallowed>>
  BY <1>2
<1> QED
  BY <1>4, <1>5, <1>6, <1>7, <1>8, AsksOnKeeps

\* A file is refused: the transaction waits from now on.
LEMMA SetWaitingKeeps ==
    ASSUME IInv, NEW t \in Txns, SetWaiting(t)
    PROVE  IInv'
<1>1. txn \in [Txns -> Threads] /\ txn[t] \in Threads /\ file_mutex \in Txns \cup {NoMark}
  BY DEF IInv, Types
<1>2. /\ txn[t].pc = "decide"
      /\ txn' = [txn EXCEPT ![t].pc = "waiting", ![t].cur_state = "WAITING"]
      /\ UNCHANGED <<holders, lockMode, wait, file_mutex, txn_mutex, detector,
                     crashed, disturbed, swallowed>>
  BY DEF SetWaiting
<1>3. PICK n : n = [txn[t] EXCEPT !.pc = "waiting", !.cur_state = "WAITING"]
  OBVIOUS
<1>4. n \in Threads /\ n.pc = "waiting" /\ n.file = txn[t].file
  BY <1>1, <1>3 DEF Threads, Pcs, AskPcs
<1>5. txn' = [txn EXCEPT ![t] = n]
  BY <1>1, <1>2, <1>3
<1>6. PICK p \in AskPcs \ SleepPcs, q \in AskPcs \ SleepPcs : p = "decide" /\ q = "waiting"
  BY DEF AskPcs, SleepPcs
<1>7. txn[t].pc = p /\ n.pc = q /\ file_mutex' \in Txns \cup {NoMark}
  BY <1>1, <1>2, <1>4, <1>6
<1>8. UNCHANGED <<holders, lockMode, wait, txn_mutex, detector, crashed, disturbed, swallowed>>
  BY <1>2
<1> QED
  BY <1>4, <1>5, <1>6, <1>7, <1>8, AsksOnKeeps

\* A thread that was woken up says so.
LEMMA SetRunningKeeps ==
    ASSUME IInv, NEW t \in Txns, SetRunning(t)
    PROVE  IInv'
<1>1. txn \in [Txns -> Threads] /\ txn[t] \in Threads /\ file_mutex \in Txns \cup {NoMark}
  BY DEF IInv, Types
<1>2. /\ txn[t].pc = "resume"
      /\ txn' = [txn EXCEPT ![t].pc = "ask again", ![t].cur_state = "RUNNING", ![t].waiting_for_inode = NoFile]
      /\ UNCHANGED <<holders, lockMode, wait, file_mutex, txn_mutex, detector,
                     crashed, disturbed, swallowed>>
  BY DEF SetRunning
<1>3. PICK n : n = [txn[t] EXCEPT !.pc = "ask again", !.cur_state = "RUNNING", !.waiting_for_inode = NoFile]
  OBVIOUS
<1>4. n \in Threads /\ n.pc = "ask again" /\ n.file = txn[t].file
  BY <1>1, <1>3 DEF Threads, Pcs, AskPcs
<1>5. txn' = [txn EXCEPT ![t] = n]
  BY <1>1, <1>2, <1>3
<1>6. PICK p \in AskPcs \ SleepPcs, q \in AskPcs \ SleepPcs : p = "resume" /\ q = "ask again"
  BY DEF AskPcs, SleepPcs
<1>7. txn[t].pc = p /\ n.pc = q /\ file_mutex' \in Txns \cup {NoMark}
  BY <1>1, <1>2, <1>4, <1>6
<1>8. UNCHANGED <<holders, lockMode, wait, txn_mutex, detector, crashed, disturbed, swallowed>>
  BY <1>2
<1> QED
  BY <1>4, <1>5, <1>6, <1>7, <1>8, AsksOnKeeps

\* Then it asks again.
LEMMA ResumeKeeps ==
    ASSUME IInv, NEW t \in Txns, Resume(t)
    PROVE  IInv'
<1>1. txn \in [Txns -> Threads] /\ txn[t] \in Threads /\ file_mutex \in Txns \cup {NoMark}
  BY DEF IInv, Types
<1>2. /\ txn[t].pc = "ask again"
      /\ txn' = [txn EXCEPT ![t].pc = "insert"]
      /\ file_mutex' = t
      /\ UNCHANGED <<holders, lockMode, wait, txn_mutex, detector, crashed, disturbed, swallowed>>
  BY DEF Resume
<1>3. PICK n : n = [txn[t] EXCEPT !.pc = "insert"]
  OBVIOUS
<1>4. n \in Threads /\ n.pc = "insert" /\ n.file = txn[t].file
  BY <1>1, <1>3 DEF Threads, Pcs, AskPcs
<1>5. txn' = [txn EXCEPT ![t] = n]
  BY <1>1, <1>2, <1>3
<1>6. PICK p \in AskPcs \ SleepPcs, q \in AskPcs \ SleepPcs : p = "ask again" /\ q = "insert"
  BY DEF AskPcs, SleepPcs
<1>7. txn[t].pc = p /\ n.pc = q /\ file_mutex' \in Txns \cup {NoMark}
  BY <1>1, <1>2, <1>4, <1>6
<1>8. UNCHANGED <<holders, lockMode, wait, txn_mutex, detector, crashed, disturbed, swallowed>>
  BY <1>2
<1> QED
  BY <1>4, <1>5, <1>6, <1>7, <1>8, AsksOnKeeps

\* A transaction is deleted.
LEMMA DeleteKeeps ==
    ASSUME IInv, NEW t \in Txns, txn_delete(t)
    PROVE  IInv'
<1>1. txn \in [Txns -> Threads] /\ txn[t] \in Threads
  BY DEF IInv, Types
<1>2. /\ txn[t].pc = "delete"
      /\ txn' = [txn EXCEPT ![t].pc = "gone", ![t].file = NoFile]
      /\ UNCHANGED <<holders, lockMode, wait, file_mutex, txn_mutex, detector,
                     crashed, disturbed, swallowed>>
  BY DEF txn_delete
<1>3. PICK n : n = [txn[t] EXCEPT !.pc = "gone", !.file = NoFile]
  OBVIOUS
<1>4. n \in Threads /\ n.pc = "gone" /\ n.file = NoFile
  BY <1>1, <1>3 DEF Threads, Pcs
<1>5. txn' = [txn EXCEPT ![t] = n]
  BY <1>1, <1>2, <1>3
<1>6. Goes(t, "delete", "gone", NoFile)
  BY <1>1, <1>2, <1>4, <1>5 DEF Goes
<1>7. Asks'
  BY <1>2, <1>6, AsksKept DEF AskPcs, SleepPcs
<1>8. Counted' /\ Shook'
  BY <1>2, <1>6, AwakeKeeps DEF SleepPcs
<1>9. Types'
  BY <1>2, <1>6 DEF Goes, IInv, Types
<1> QED
  BY <1>7, <1>8, <1>9 DEF IInv

\* The thread of a transaction that was refused falls asleep: one more waits.
LEMMA BlockedKeeps ==
    ASSUME IInv, NEW t \in Txns, Blocked(t)
    PROVE  IInv'
<1>1. /\ txn \in [Txns -> Threads] /\ txn[t] \in Threads
      /\ wait \in [Files -> WaitNodes]
  BY DEF IInv, Types
<1>2. PICK f : f = txn[t].file
  OBVIOUS
<1>3. /\ txn[t].pc = "waiting"
      /\ txn' = [txn EXCEPT ![t].pc = "asleep", ![t].waiting_for_inode = f]
      /\ wait' = [wait EXCEPT ![f].in_wait = @ + 1]
      /\ disturbed' = (disturbed \/ wait[f].txnid_abort # NoMark)
      /\ file_mutex' = NoMark
      /\ UNCHANGED <<holders, lockMode, txn_mutex, detector, crashed, swallowed>>
  BY <1>2 DEF Blocked
<1>4. f \in Files /\ ~Holds(t, f)
  BY <1>2, <1>3 DEF IInv, Asks, AskPcs
<1>5. PICK n : n = [txn[t] EXCEPT !.pc = "asleep", !.waiting_for_inode = f]
  OBVIOUS
<1>6. n \in Threads /\ n.pc = "asleep" /\ n.file = f
  BY <1>1, <1>2, <1>4, <1>5 DEF Threads, Pcs, AskPcs, SleepPcs
<1>7. txn' = [txn EXCEPT ![t] = n]
  BY <1>1, <1>3, <1>5
<1>8. Goes(t, "waiting", "asleep", f)
  BY <1>1, <1>3, <1>6, <1>7 DEF Goes
<1>9. Asks'
  BY <1>3, <1>4, <1>8, AsksKept
<1>10. PICK node \in WaitNodes : node = wait[f]
  BY <1>1, <1>4
<1>11. PICK node2 : node2 = [node EXCEPT !.in_wait = @ + 1]
  OBVIOUS
<1>12. /\ node2 \in WaitNodes /\ node2.in_wait = node.in_wait + 1
       /\ node2.txnid_abort = node.txnid_abort
  BY <1>11 DEF WaitNodes
<1>13. wait' = [wait EXCEPT ![f] = node2]
  BY <1>1, <1>3, <1>10, <1>11
<1>14. node2.in_wait = Cardinality(SleepersIn(txn', f))
  <2>1. PICK S, S2 : S = SleepersIn(txn, f) /\ S2 = SleepersIn(txn', f)
    OBVIOUS
  <2>2. S2 = S \cup {t} /\ t \notin S
    BY <1>8, <2>1 DEF SleepersIn, Goes, SleepPcs
  <2>3. IsFiniteSet(S) /\ node.in_wait = Cardinality(S)
    <3>1. IsFiniteSet(SleepersIn(txn, f))
      BY SleepersFinite
    <3>2. wait[f].in_wait = Cardinality(SleepersIn(txn, f))
      BY <1>4 DEF IInv, Counted
    <3>3. IsFiniteSet(S)
      BY <2>1, <3>1
    <3>4. node.in_wait = Cardinality(S)
      BY <1>10, <2>1, <3>2
    <3> QED
      BY <3>3, <3>4
  <2> QED
    <3>1. Cardinality(S \cup {t}) = Cardinality(S) + 1
      BY <2>2, <2>3, FS_AddElement
    <3> QED
      BY <1>12, <2>1, <2>2, <2>3, <3>1
<1>15. ASSUME ~disturbed' PROVE ~disturbed /\ Shaken(txn', node2, f)
  <2>1. ~disturbed /\ node.txnid_abort = NoMark
    BY <1>3, <1>10, <1>15
  <2>2. \A u \in Txns : u # NoMark
    BY TxnsAssumption DEF NoMark
  <2>3. Shaken(txn, node, f)
    BY <1>4, <1>10, <2>1 DEF IInv, Shook
  <2>4. \A u \in Txns : txn[u].pc \in VictimPcs => txn[u].file # f
    BY <2>1, <2>2, <2>3 DEF Shaken
  <2>5. \A u \in Txns : txn'[u].pc \in VictimPcs => txn'[u].file # f
    BY <1>8, <2>4 DEF Goes, VictimPcs
  <2> QED
    BY <1>12, <2>1, <2>5 DEF Shaken
<1>16. \A g \in Files \ {f} : wait'[g] = wait[g] /\ SameAt(txn, txn', g)
  BY <1>1, <1>8, <1>13, <1>3, <1>2 DEF SameAt, Goes, VictimPcs, SleepPcs
<1>17. Counted' /\ Shook'
  <2>1. wait'[f] = node2
    BY <1>1, <1>4, <1>13
  <2> QED
    BY <1>4, <1>14, <1>15, <1>16, <2>1, ElsewhereKeeps
<1>18. Types'
  <2>1. wait' \in [Files -> WaitNodes] /\ disturbed' \in BOOLEAN
    BY <1>1, <1>3, <1>12, <1>13 DEF IInv, Types
  <2> QED
    BY <1>3, <1>8, <2>1 DEF Goes, IInv, Types
<1> QED
  BY <1>9, <1>17, <1>18 DEF IInv

\* A thread leaves a wait node that is not marked, or the victim leaves it.
LEMMA LeavesNode ==
    ASSUME IInv, NEW t \in Txns, NEW f \in Files, NEW p \in SleepPcs, NEW q, q \notin SleepPcs,
           Goes(t, p, q, f), txn[t].file = f,
           ~disturbed => wait[f].txnid_abort \in {NoMark, t},
           NEW node \in WaitNodes, node.in_wait = wait[f].in_wait, node.txnid_abort = NoMark,
           wait' = [wait EXCEPT ![f] = Leave(node)], disturbed' = disturbed
    PROVE  Counted' /\ Shook' /\ wait' \in [Files -> WaitNodes]
<1>1. wait \in [Files -> WaitNodes]
  BY DEF IInv, Types
<1>2. PICK S, S2 : S = SleepersIn(txn, f) /\ S2 = SleepersIn(txn', f)
  OBVIOUS
<1>3. S2 = S \ {t} /\ t \in S
  BY <1>2 DEF SleepersIn, Goes
<1>4. IsFiniteSet(S)
  BY <1>2, SleepersFinite
<1>5. node.in_wait = Cardinality(S)
  <2>1. wait[f].in_wait = Cardinality(SleepersIn(txn, f))
    BY DEF IInv, Counted
  <2> QED
    BY <1>2, <2>1
<1>6. PICK node2 : node2 = Leave(node)
  OBVIOUS
<1>7. node2 \in WaitNodes /\ node2.in_wait = Cardinality(S2) /\ node2.txnid_abort = NoMark
  BY <1>3, <1>4, <1>5, <1>6, LeftNode
<1>8. wait'[f] = node2 /\ wait' \in [Files -> WaitNodes]
  BY <1>1, <1>6, <1>7
<1>9. \A g \in Files \ {f} : wait'[g] = wait[g] /\ SameAt(txn, txn', g)
  <2>1. \A g \in Files \ {f} : wait'[g] = wait[g]
    BY <1>1
  <2> QED
    BY <2>1 DEF SameAt, Goes
<1>10. ASSUME ~disturbed' PROVE ~disturbed /\ Shaken(txn', node2, f)
  <2>1. \A u \in Txns : u # NoMark
    BY TxnsAssumption DEF NoMark
  <2>2. Shaken(txn, wait[f], f)
    BY <1>10 DEF IInv, Shook
  <2>3. \A u \in Txns : txn[u].pc \in VictimPcs /\ txn[u].file = f => u = t
    BY <1>10, <2>1, <2>2 DEF Shaken
  <2>4. \A u \in Txns : ~(txn'[u].pc \in VictimPcs /\ txn'[u].file = f)
    BY <2>3 DEF Goes, VictimPcs, SleepPcs
  <2> QED
    BY <1>7, <1>10, <2>4 DEF Shaken
<1>11. wait'[f].in_wait = Cardinality(SleepersIn(txn', f))
  BY <1>2, <1>7, <1>8
<1>12. Counted' /\ Shook'
  BY <1>8, <1>9, <1>10, <1>11, ElsewhereKeeps
<1> QED
  BY <1>8, <1>12

\* A thread is woken up where no one is marked.
LEMMA WakeToResumeKeeps ==
    ASSUME IInv, NEW t \in Txns, WakeToResume(t)
    PROVE  IInv'
<1>1. /\ txn \in [Txns -> Threads] /\ txn[t] \in Threads
      /\ wait \in [Files -> WaitNodes]
  BY DEF IInv, Types
<1>2. PICK f : f = txn[t].file
  OBVIOUS
<1>3. /\ txn[t].pc = "woken" /\ txn' = [txn EXCEPT ![t].pc = "resume", ![t].released = FALSE]
      /\ wait[f].txnid_abort = NoMark /\ wait' = [wait EXCEPT ![f] = Leave(@)]
      /\ UNCHANGED <<holders, lockMode, file_mutex, txn_mutex, detector,
                     crashed, disturbed, swallowed>>
  BY <1>2 DEF WakeToResume
<1>4. f \in Files /\ ~Holds(t, f)
  BY <1>2, <1>3 DEF IInv, Asks, AskPcs, SleepPcs
<1>5. PICK n : n = [txn[t] EXCEPT !.pc = "resume", !.released = FALSE]
  OBVIOUS
<1>6. n \in Threads /\ n.pc = "resume" /\ n.file = f
  BY <1>1, <1>2, <1>5 DEF Threads, Pcs, AskPcs
<1>7. txn' = [txn EXCEPT ![t] = n]
  BY <1>1, <1>3, <1>5
<1>8. Goes(t, "woken", "resume", f)
  BY <1>1, <1>3, <1>6, <1>7 DEF Goes
<1>9. Asks'
  BY <1>3, <1>4, <1>8, AsksKept
<1>10. PICK node \in WaitNodes : node = wait[f]
  BY <1>1, <1>4
<1>11. wait' = [wait EXCEPT ![f] = Leave(node)]
  BY <1>1, <1>3, <1>4, <1>10
<1>12. Counted' /\ Shook' /\ wait' \in [Files -> WaitNodes]
  <2>1. "woken" \in SleepPcs /\ "resume" \notin SleepPcs
    BY DEF SleepPcs
  <2>2. node.txnid_abort = NoMark /\ wait[f].txnid_abort \in {NoMark, t} /\ node.in_wait = wait[f].in_wait
    BY <1>3, <1>10
  <2>3. txn[t].file = f /\ disturbed' = disturbed
    BY <1>2, <1>3
  <2> QED
    BY <1>4, <1>8, <1>10, <1>11, <2>1, <2>2, <2>3, LeavesNode
<1>13. Types'
  BY <1>3, <1>8, <1>12 DEF Goes, IInv, Types
<1> QED
  BY <1>9, <1>12, <1>13 DEF IInv

\* The victim goes on, to abort.
LEMMA VictimGoesOnKeeps ==
    ASSUME IInv, NEW t \in Txns, VictimGoesOn(t)
    PROVE  IInv'
<1>1. /\ txn \in [Txns -> Threads] /\ txn[t] \in Threads
      /\ wait \in [Files -> WaitNodes]
  BY DEF IInv, Types
<1>2. PICK f : f = txn[t].file
  OBVIOUS
<1>3. /\ txn[t].pc = "signalled" /\ txn' = [txn EXCEPT ![t].pc = "abort"]
      /\ wait' = [wait EXCEPT ![f] = LeaveToAbort(@)]
      /\ UNCHANGED <<holders, lockMode, file_mutex, txn_mutex, detector,
                     crashed, disturbed, swallowed>>
  BY <1>2 DEF VictimGoesOn
<1>4. f \in Files
  BY <1>2, <1>3 DEF IInv, Asks, AskPcs, SleepPcs
<1>5. PICK n : n = [txn[t] EXCEPT !.pc = "abort"]
  OBVIOUS
<1>6. n \in Threads /\ n.pc = "abort" /\ n.file = f
  BY <1>1, <1>2, <1>5 DEF Threads, Pcs
<1>7. txn' = [txn EXCEPT ![t] = n]
  BY <1>1, <1>3, <1>5
<1>8. Goes(t, "signalled", "abort", f)
  BY <1>1, <1>3, <1>6, <1>7 DEF Goes
<1>9. Asks'
  BY <1>3, <1>8, AsksKept DEF AskPcs, SleepPcs
<1>10. PICK node \in WaitNodes : node = [wait[f] EXCEPT !.txnid_abort = NoMark]
  BY <1>1, <1>4 DEF WaitNodes
<1>11. wait' = [wait EXCEPT ![f] = Leave(node)]
  BY <1>1, <1>3, <1>4, <1>10 DEF LeaveToAbort
<1>12. Counted' /\ Shook' /\ wait' \in [Files -> WaitNodes]
  <2>1. "signalled" \in SleepPcs /\ "abort" \notin SleepPcs
    BY DEF SleepPcs
  <2>2. node.txnid_abort = NoMark /\ node.in_wait = wait[f].in_wait
    BY <1>1, <1>4, <1>10 DEF WaitNodes
  <2>3. ~disturbed => wait[f].txnid_abort \in {NoMark, t}
    BY <1>2, <1>3, <1>4 DEF IInv, Shook, Shaken, VictimPcs
  <2>4. txn[t].file = f /\ disturbed' = disturbed
    BY <1>2, <1>3
  <2> QED
    BY <1>4, <1>8, <1>10, <1>11, <2>1, <2>2, <2>3, <2>4, LeavesNode
<1>13. Types'
  BY <1>3, <1>8, <1>12 DEF Goes, IInv, Types
<1> QED
  BY <1>9, <1>12, <1>13 DEF IInv

\* The victim wakes up last, and goes on at once.
LEMMA VictimLastKeeps ==
    ASSUME IInv, NEW t \in Txns, WakeAsVictim(t), txn'[t].pc = "abort"
    PROVE  IInv'
<1>1. /\ txn \in [Txns -> Threads] /\ txn[t] \in Threads
      /\ wait \in [Files -> WaitNodes]
  BY DEF IInv, Types
<1>2. PICK f : f = txn[t].file
  OBVIOUS
<1>3. PICK counted : counted = [wait[f] EXCEPT !.woke_up = @ + 1]
  OBVIOUS
<1>4. /\ txn[t].pc = "woken" /\ wait[f].txnid_abort = t
      /\ \/ txn' = [txn EXCEPT ![t].pc = "abort"] /\ wait' = [wait EXCEPT ![f] = LeaveToAbort(counted)]
         \/ txn' = [txn EXCEPT ![t].pc = "counting"]
      /\ UNCHANGED <<holders, lockMode, file_mutex, txn_mutex, detector,
                     crashed, disturbed, swallowed>>
  BY <1>2, <1>3 DEF WakeAsVictim
<1>5. /\ txn' = [txn EXCEPT ![t].pc = "abort"]
      /\ wait' = [wait EXCEPT ![f] = LeaveToAbort(counted)]
  BY <1>1, <1>4 DEF Threads
<1>6. f \in Files
  BY <1>2, <1>4 DEF IInv, Asks, AskPcs, SleepPcs
<1>7. PICK n : n = [txn[t] EXCEPT !.pc = "abort"]
  OBVIOUS
<1>8. n \in Threads /\ n.pc = "abort" /\ n.file = f
  BY <1>1, <1>2, <1>7 DEF Threads, Pcs
<1>9. txn' = [txn EXCEPT ![t] = n]
  BY <1>1, <1>5, <1>7
<1>10. Goes(t, "woken", "abort", f)
  BY <1>1, <1>4, <1>8, <1>9 DEF Goes
<1>11. Asks'
  BY <1>4, <1>10, AsksKept DEF AskPcs, SleepPcs
<1>12. counted \in WaitNodes /\ counted.in_wait = wait[f].in_wait
  BY <1>1, <1>3, <1>6 DEF WaitNodes
<1>13. PICK node \in WaitNodes : node = [counted EXCEPT !.txnid_abort = NoMark]
  BY <1>12 DEF WaitNodes
<1>14. wait' = [wait EXCEPT ![f] = Leave(node)]
  BY <1>5, <1>13 DEF LeaveToAbort
<1>15. Counted' /\ Shook' /\ wait' \in [Files -> WaitNodes]
  <2>1. "woken" \in SleepPcs /\ "abort" \notin SleepPcs
    BY DEF SleepPcs
  <2>2. node.txnid_abort = NoMark /\ node.in_wait = wait[f].in_wait
    BY <1>12, <1>13 DEF WaitNodes
  <2>3. txn[t].file = f /\ wait[f].txnid_abort \in {NoMark, t} /\ disturbed' = disturbed
    BY <1>2, <1>4
  <2> QED
    BY <1>6, <1>10, <1>13, <1>14, <2>1, <2>2, <2>3, LeavesNode
<1>16. Types'
  BY <1>4, <1>10, <1>15 DEF Goes, IInv, Types
<1> QED
  BY <1>11, <1>15, <1>16 DEF IInv

\* Nobody else asks, and nobody else holds.
LEMMA AsksStill ==
    ASSUME IInv,
           \A u \in Txns : txn'[u].pc \in AskPcs =>
             txn[u].pc \in AskPcs /\ txn'[u].file = txn[u].file,
           \A f \in Files : ToSet(holders'[f]) \subseteq ToSet(holders[f])
    PROVE  Asks'
BY DEF IInv, Asks, Holds

\* Whoever has been counted is no longer to be counted.
LEMMA OneLessWoken ==
    ASSUME NEW nodes, NEW nodes2, NEW f, NEW t \in WokenIn(nodes, f),
           WokenIn(nodes2, f) = WokenIn(nodes, f) \ {t}
    PROVE  Cardinality(WokenIn(nodes, f)) = Cardinality(WokenIn(nodes2, f)) + 1
<1>1. /\ Cardinality(WokenIn(nodes, f) \ {t}) = Cardinality(WokenIn(nodes, f)) - 1
      /\ Cardinality(WokenIn(nodes, f)) \in Nat
  BY SleepersFinite, FS_RemoveElement
<1> QED
  BY <1>1

\* The victim counts itself and is to wait for the others.
LEMMA VictimWaitsKeeps ==
    ASSUME IInv, NEW t \in Txns, WakeAsVictim(t), txn'[t].pc # "abort"
    PROVE  IInv'
<1>1. /\ txn \in [Txns -> Threads] /\ txn[t] \in Threads
      /\ wait \in [Files -> WaitNodes]
  BY DEF IInv, Types
<1>2. PICK f : f = txn[t].file
  OBVIOUS
<1>3. PICK counted : counted = [wait[f] EXCEPT !.woke_up = @ + 1]
  OBVIOUS
<1>4. /\ txn[t].pc = "woken" /\ wait[f].txnid_abort = t
      /\ \/ txn' = [txn EXCEPT ![t].pc = "abort"]
         \/ txn' = [txn EXCEPT ![t].pc = "counting"] /\ wait' = [wait EXCEPT ![f] = counted]
      /\ UNCHANGED <<holders, lockMode, file_mutex, txn_mutex, detector,
                     crashed, disturbed, swallowed>>
  BY <1>2, <1>3 DEF WakeAsVictim
<1>5. txn' = [txn EXCEPT ![t].pc = "counting"] /\ wait' = [wait EXCEPT ![f] = counted]
  BY <1>1, <1>4 DEF Threads
<1>6. f \in Files /\ ~Holds(t, f)
  BY <1>2, <1>4 DEF IInv, Asks, AskPcs, SleepPcs
<1>7. PICK n : n = [txn[t] EXCEPT !.pc = "counting"]
  OBVIOUS
<1>8. n \in Threads /\ n.pc = "counting" /\ n.file = f
  BY <1>1, <1>2, <1>7 DEF Threads, Pcs, AskPcs, SleepPcs
<1>9. txn' = [txn EXCEPT ![t] = n]
  BY <1>1, <1>5, <1>7
<1>10. Goes(t, "woken", "counting", f)
  BY <1>1, <1>4, <1>8, <1>9 DEF Goes
<1>11. Asks'
  BY <1>4, <1>6, <1>10, AsksKept
<1>12. PICK node \in WaitNodes : node = wait[f]
  BY <1>1, <1>6
<1>13. /\ counted \in WaitNodes /\ counted.in_wait = node.in_wait
       /\ counted.txnid_abort = node.txnid_abort /\ counted.woke_up = node.woke_up + 1
  BY <1>3, <1>12 DEF WaitNodes
<1>14. ASSUME ~disturbed' PROVE ~disturbed /\ Shaken(txn', counted, f)
  <2>1. ~disturbed /\ Shaken(txn, node, f)
    BY <1>4, <1>6, <1>12, <1>14 DEF IInv, Shook
  <2>2. PICK a, b \in Nat : a = Cardinality(WokenIn(txn, f)) /\ b = Cardinality(WokenIn(txn', f))
    BY SleepersFinite
  <2>3. t \in WokenIn(txn, f) /\ WokenIn(txn', f) = WokenIn(txn, f) \ {t}
    BY <1>2, <1>4, <1>10 DEF WokenIn, Goes
  <2>4. a = b + 1
    BY <2>2, <2>3, OneLessWoken
  <2>5. node.txnid_abort # NoMark => node.in_wait <= node.woke_up + a
    BY <2>1, <2>2 DEF Shaken
  <2>6. counted.txnid_abort # NoMark => counted.in_wait <= counted.woke_up + b
    BY <1>12, <1>13, <2>4, <2>5 DEF WaitNodes
  <2>7. ASSUME NEW u \in Txns, txn'[u].pc \in VictimPcs, txn'[u].file = f
        PROVE  u = t
    BY <1>4, <1>10, <1>12, <2>1, <2>7 DEF Shaken, Goes
  <2> QED
    BY <1>4, <1>10, <1>12, <1>13, <2>1, <2>2, <2>6, <2>7 DEF Shaken, Goes
<1>15. \A g \in Files \ {f} : wait'[g] = wait[g] /\ SameAt(txn, txn', g)
  <2>1. \A g \in Files \ {f} : wait'[g] = wait[g]
    BY <1>1, <1>5
  <2> QED
    BY <1>2, <1>10, <2>1 DEF SameAt, Goes
<1>16. Counted' /\ Shook'
  <2>1. wait'[f] = counted
    BY <1>1, <1>5, <1>6
  <2>2. SleepersIn(txn', f) = SleepersIn(txn, f)
    BY <1>2, <1>10 DEF SleepersIn, Goes, SleepPcs
  <2>3. counted.in_wait = Cardinality(SleepersIn(txn', f))
    BY <1>6, <1>12, <1>13, <2>2 DEF IInv, Counted
  <2> QED
    BY <1>6, <1>14, <1>15, <2>1, <2>3, ElsewhereKeeps
<1>17. Types'
  <2>1. wait' \in [Files -> WaitNodes]
    BY <1>1, <1>5, <1>13
  <2> QED
    BY <1>4, <1>10, <2>1 DEF Goes, IInv, Types
<1> QED
  BY <1>11, <1>16, <1>17 DEF IInv

\* The victim looks whether there is anyone to wait for.
LEMMA VictimCountsKeeps ==
    ASSUME IInv, NEW t \in Txns, VictimCounts(t)
    PROVE  IInv'
<1>1. /\ txn \in [Txns -> Threads] /\ txn[t] \in Threads
      /\ wait \in [Files -> WaitNodes]
  BY DEF IInv, Types
<1>2. PICK f : f = txn[t].file
  OBVIOUS
<1>3. PICK q : q = IF wait[f].woke_up < wait[f].in_wait THEN "on wake_cond" ELSE "signalled"
  OBVIOUS
<1>4. /\ txn[t].pc = "counting" /\ txn' = [txn EXCEPT ![t].pc = q]
      /\ UNCHANGED <<holders, lockMode, wait, file_mutex, txn_mutex, detector,
                     crashed, disturbed, swallowed>>
  BY <1>2, <1>3 DEF VictimCounts, WaitsForOthers
<1>5. /\ q \in {"on wake_cond", "signalled"}
      /\ q = "on wake_cond" => wait[f].woke_up < wait[f].in_wait
  BY <1>3
<1>6. f \in Files /\ ~Holds(t, f)
  BY <1>2, <1>4 DEF IInv, Asks, AskPcs, SleepPcs
<1>7. PICK n : n = [txn[t] EXCEPT !.pc = q]
  OBVIOUS
<1>8. n \in Threads /\ n.pc = q /\ n.file = f
  BY <1>1, <1>2, <1>5, <1>7 DEF Threads, Pcs, AskPcs, SleepPcs
<1>9. txn' = [txn EXCEPT ![t] = n]
  BY <1>1, <1>4, <1>7
<1>10. Goes(t, "counting", q, f)
  BY <1>1, <1>4, <1>8, <1>9 DEF Goes
<1>11. Asks'
  BY <1>4, <1>6, <1>10, AsksKept
<1>12. ASSUME ~disturbed' PROVE ~disturbed /\ Shaken(txn', wait[f], f)
  <2>1. ~disturbed /\ Shaken(txn, wait[f], f)
    BY <1>4, <1>6, <1>12 DEF IInv, Shook
  <2>2. WokenIn(txn', f) = WokenIn(txn, f)
    BY <1>4, <1>5, <1>10 DEF WokenIn, Goes
  <2>3. wait[f].txnid_abort = t
    BY <1>2, <1>4, <2>1 DEF Shaken, VictimPcs
  <2>4. ASSUME NEW u \in Txns, txn'[u].pc \in VictimPcs, txn'[u].file = f
        PROVE  /\ wait[f].txnid_abort = u
               /\ txn'[u].pc = "on wake_cond" => wait[f].woke_up < wait[f].in_wait
    <3>1. CASE u = t
      BY <1>5, <1>10, <2>3, <3>1 DEF Goes
    <3>2. CASE u # t
      BY <1>10, <2>1, <2>4, <3>2 DEF Goes, Shaken
    <3> QED
      BY <3>1, <3>2
  <2> QED
    BY <2>1, <2>2, <2>4 DEF Shaken
<1>13. \A g \in Files \ {f} : wait'[g] = wait[g] /\ SameAt(txn, txn', g)
  BY <1>2, <1>4, <1>10 DEF SameAt, Goes
<1>14. Counted' /\ Shook'
  <2>1. SleepersIn(txn', f) = SleepersIn(txn, f)
    BY <1>2, <1>4, <1>5, <1>10 DEF SleepersIn, Goes, SleepPcs
  <2>2. wait'[f].in_wait = Cardinality(SleepersIn(txn', f))
    BY <1>4, <1>6, <2>1 DEF IInv, Counted
  <2> QED
    BY <1>4, <1>6, <1>12, <1>13, <2>2, ElsewhereKeeps
<1>15. Types'
  BY <1>4, <1>10 DEF Goes, IInv, Types
<1> QED
  BY <1>11, <1>14, <1>15 DEF IInv

\* Somebody else is the victim: counted, and back to sleep.
LEMMA SleepAgainKeeps ==
    ASSUME IInv, NEW t \in Txns, WakeAndSleepAgain(t)
    PROVE  IInv'
<1>1. /\ txn \in [Txns -> Threads] /\ txn[t] \in Threads
      /\ wait \in [Files -> WaitNodes]
  BY DEF IInv, Types
<1>2. PICK f : f = txn[t].file
  OBVIOUS
<1>3. PICK counted : counted = [wait[f] EXCEPT !.woke_up = @ + 1]
  OBVIOUS
<1>4. /\ txn[t].pc = "woken" /\ wait[f].txnid_abort # NoMark
      /\ wait' = [wait EXCEPT ![f] = counted]
      /\ txn' = SignalVictim([txn EXCEPT ![t].pc = "asleep", ![t].released = FALSE], f, counted)
      /\ swallowed' = (swallowed \/ txn[t].released)
      /\ UNCHANGED <<holders, lockMode, file_mutex, txn_mutex, detector, crashed, disturbed>>
  BY <1>2, <1>3 DEF WakeAndSleepAgain
<1>5. f \in Files
  BY <1>2, <1>4 DEF IInv, Asks, AskPcs, SleepPcs
<1>6. PICK n : n = [txn[t] EXCEPT !.pc = "asleep", !.released = FALSE]
  OBVIOUS
<1>7. n \in Threads /\ n.pc = "asleep" /\ n.file = f
  BY <1>1, <1>2, <1>6 DEF Threads, Pcs, AskPcs, SleepPcs
<1>8. PICK mid : mid = [txn EXCEPT ![t] = n]
  OBVIOUS
<1>9. /\ mid \in [Txns -> Threads] /\ mid[t] = n /\ \A u \in Txns \ {t} : mid[u] = txn[u]
      /\ mid = [txn EXCEPT ![t].pc = "asleep", ![t].released = FALSE]
  BY <1>1, <1>6, <1>7, <1>8
<1>10. txn' = SignalVictim(mid, f, counted)
  BY <1>4, <1>9
<1>11. PICK node \in WaitNodes : node = wait[f]
  BY <1>1, <1>5
<1>12. /\ counted \in WaitNodes /\ counted.in_wait = node.in_wait
       /\ counted.txnid_abort = node.txnid_abort /\ counted.woke_up = node.woke_up + 1
  BY <1>3, <1>11 DEF WaitNodes
<1>13. \A u \in Txns :
         \/ txn'[u] = mid[u] /\ ~(/\ counted.woke_up = counted.in_wait /\ mid[u].pc = "on wake_cond"
                                  /\ mid[u].file = f)
         \/ txn'[u] = [mid[u] EXCEPT !.pc = "signalled"] /\ mid[u].pc = "on wake_cond"
  BY <1>10 DEF SignalVictim
<1>14. /\ txn' \in [Txns -> Threads]
       /\ \A u \in Txns : /\ txn'[u].file = mid[u].file
                          /\ \/ txn'[u].pc = mid[u].pc
                             \/ txn'[u].pc = "signalled" /\ mid[u].pc = "on wake_cond"
  <2>1. DOMAIN txn' = Txns /\ txn' = [u \in Txns |-> txn'[u]]
    BY <1>10 DEF SignalVictim
  <2>2. ASSUME NEW u \in Txns
        PROVE  /\ txn'[u] \in Threads /\ txn'[u].file = mid[u].file
               /\ \/ txn'[u].pc = mid[u].pc
                  \/ txn'[u].pc = "signalled" /\ mid[u].pc = "on wake_cond"
    <3>1. mid[u] \in Threads
      BY <1>9
    <3>2. PICK o \in Threads : o = mid[u]
      BY <3>1
    <3>3. PICK o2 : o2 = [o EXCEPT !.pc = "signalled"]
      OBVIOUS
    <3>4. o2 \in Threads /\ o2.pc = "signalled" /\ o2.file = o.file
      BY <3>3 DEF Threads, Pcs, AskPcs, SleepPcs
    <3>5. CASE txn'[u] = mid[u]
      BY <3>1, <3>5
    <3>6. CASE txn'[u] = [mid[u] EXCEPT !.pc = "signalled"] /\ mid[u].pc = "on wake_cond"
      <4>1. txn'[u] = o2
        BY <3>2, <3>3, <3>6
      <4> QED
        BY <3>2, <3>4, <3>6, <4>1
    <3> QED
      BY <1>13, <3>5, <3>6
  <2> QED
    BY <2>1, <2>2
<1>15. /\ txn'[t].pc = "asleep" /\ txn'[t].file = f
       /\ \A u \in Txns \ {t} :
            /\ txn'[u].file = txn[u].file
            /\ \/ txn'[u].pc = txn[u].pc
               \/ txn'[u].pc = "signalled" /\ txn[u].pc = "on wake_cond"
  BY <1>7, <1>9, <1>14
<1>16. Asks'
  <2>1. \A u \in Txns : txn'[u].pc \in AskPcs =>
          txn[u].pc \in AskPcs /\ txn'[u].file = txn[u].file
    <3>1. "woken" \in AskPcs /\ "on wake_cond" \in AskPcs
      BY DEF AskPcs, SleepPcs
    <3>2. ASSUME NEW u \in Txns \ {t}, txn'[u].pc \in AskPcs
          PROVE  txn[u].pc \in AskPcs /\ txn'[u].file = txn[u].file
      BY <1>15, <3>1, <3>2
    <3> QED
      BY <1>2, <1>4, <1>15, <3>1, <3>2
  <2>2. \A g \in Files : ToSet(holders'[g]) \subseteq ToSet(holders[g])
    BY <1>4
  <2> QED
    BY <2>1, <2>2, AsksStill
<1>17. SleepersIn(txn', f) = SleepersIn(txn, f)
  <2>1. \A u \in Txns : (txn'[u].pc \in SleepPcs /\ txn'[u].file = f)
                           <=> (txn[u].pc \in SleepPcs /\ txn[u].file = f)
    BY <1>2, <1>4, <1>15 DEF SleepPcs
  <2> QED
    BY <2>1 DEF SleepersIn
<1>18. ASSUME ~disturbed' PROVE ~disturbed /\ Shaken(txn', counted, f)
  <2>1. ~disturbed /\ Shaken(txn, node, f)
    BY <1>4, <1>5, <1>11, <1>18 DEF IInv, Shook
  <2>2. PICK a, b \in Nat : a = Cardinality(WokenIn(txn, f)) /\ b = Cardinality(WokenIn(txn', f))
    BY SleepersFinite
  <2>3. t \in WokenIn(txn, f) /\ WokenIn(txn', f) = WokenIn(txn, f) \ {t}
    <3>1. \A u \in Txns : (txn'[u].pc = "woken" /\ txn'[u].file = f)
                             <=> (txn[u].pc = "woken" /\ txn[u].file = f /\ u # t)
      BY <1>2, <1>4, <1>15
    <3> QED
      BY <1>2, <1>4, <3>1 DEF WokenIn
  <2>4. a = b + 1
    BY <2>2, <2>3, OneLessWoken
  <2>5. node.txnid_abort # NoMark => node.in_wait <= node.woke_up + a
    BY <2>1, <2>2 DEF Shaken
  <2>6. counted.txnid_abort # NoMark => counted.in_wait <= counted.woke_up + b
    BY <1>12, <2>4, <2>5 DEF WaitNodes
  <2>7. ASSUME NEW u \in Txns, txn'[u].pc \in VictimPcs, txn'[u].file = f
        PROVE  /\ counted.txnid_abort = u
               /\ txn'[u].pc = "on wake_cond" => counted.woke_up < counted.in_wait
    <3>1. mid[u].pc \in VictimPcs /\ mid[u].file = f
      BY <1>14, <2>7 DEF VictimPcs
    <3>2. u # t /\ mid[u] = txn[u]
      BY <1>7, <1>9, <3>1 DEF VictimPcs
    <3>3. /\ node.txnid_abort = u
          /\ mid[u].pc = "on wake_cond" => node.woke_up < node.in_wait
      BY <2>1, <3>1, <3>2 DEF Shaken
    <3>4. ASSUME txn'[u].pc = "on wake_cond" PROVE counted.woke_up < counted.in_wait
      <4>1. mid[u].pc = "on wake_cond"
        BY <1>14, <3>4
      <4>2. counted.woke_up # counted.in_wait
        <5>1. CASE txn'[u] = mid[u] /\ ~(/\ counted.woke_up = counted.in_wait
                                         /\ mid[u].pc = "on wake_cond" /\ mid[u].file = f)
          BY <3>1, <4>1, <5>1
        <5>2. CASE txn'[u] = [mid[u] EXCEPT !.pc = "signalled"]
          <6>1. mid[u] \in Threads
            BY <1>9
          <6>2. txn'[u].pc = "signalled"
            BY <5>2, <6>1 DEF Threads
          <6> QED
            BY <3>4, <6>2
        <5> QED
          BY <1>13, <5>1, <5>2
      <4> QED
        <5>1. node.woke_up \in Nat /\ node.in_wait \in Nat /\ node.woke_up < node.in_wait
          BY <3>3, <4>1 DEF WaitNodes
        <5> QED
          BY <1>12, <4>2, <5>1
    <3> QED
      BY <1>12, <3>3, <3>4
  <2> QED
    BY <2>1, <2>2, <2>6, <2>7 DEF Shaken
<1>19. \A g \in Files \ {f} : wait'[g] = wait[g] /\ SameAt(txn, txn', g)
  <2>1. \A g \in Files \ {f} : wait'[g] = wait[g]
    BY <1>1, <1>4
  <2>2. ASSUME NEW u \in Txns, txn[u].pc = "on wake_cond", txn[u].file # f
        PROVE  txn'[u] = txn[u]
    <3>1. u # t /\ mid[u] = txn[u]
      BY <1>4, <1>9, <2>2
    <3>2. ~(/\ counted.woke_up = counted.in_wait /\ mid[u].pc = "on wake_cond"
            /\ mid[u].file = f)
      BY <2>2, <3>1
    <3>3. txn'[u] = mid[u]
      BY <1>10, <3>2 DEF SignalVictim
    <3> QED
      BY <3>1, <3>3
  <2>3. ASSUME NEW u \in Txns, txn[u].file # f
        PROVE  txn'[u].pc = txn[u].pc /\ txn'[u].file = txn[u].file
    <3>1. u # t /\ mid[u] = txn[u]
      BY <1>2, <1>9, <2>3
    <3> QED
      BY <1>14, <2>2, <2>3, <3>1
  <2>4. ASSUME NEW u \in Txns, txn[u].file = f
        PROVE  txn'[u].file = f
    BY <1>7, <1>9, <1>14, <2>4
  <2> QED
    BY <2>1, <2>3, <2>4 DEF SameAt
<1>20. Counted' /\ Shook'
  <2>1. wait'[f] = counted
    BY <1>1, <1>4, <1>5
  <2>2. counted.in_wait = Cardinality(SleepersIn(txn', f))
    BY <1>5, <1>11, <1>12, <1>17 DEF IInv, Counted
  <2> QED
    BY <1>5, <1>18, <1>19, <2>1, <2>2, ElsewhereKeeps
<1>21. Types'
  <2>1. wait' \in [Files -> WaitNodes]
    BY <1>1, <1>4, <1>12
  <2>2. swallowed' \in BOOLEAN
    BY <1>1, <1>4 DEF IInv, Types, Threads
  <2> QED
    BY <1>4, <1>14, <2>1, <2>2 DEF IInv, Types
<1> QED
  BY <1>16, <1>20, <1>21 DEF IInv


(***************************************************************************)
(* The ends of the transactions.                                           *)
(***************************************************************************)

\* RemoveAt takes out one element and moves up what follows.
LEMMA OneRemoved ==
    ASSUME NEW S, NEW s \in Seq(S), NEW k \in 1..Len(s), NEW t, t = RemoveAt(s, k)
    PROVE  /\ t \in Seq(S) /\ Len(t) = Len(s) - 1
           /\ \A j \in 1..Len(t) : t[j] = IF j < k THEN s[j] ELSE s[j + 1]
<1>1. PICK n \in Nat : n = Len(s)
  OBVIOUS
<1>2. t = SubSeq(s, 1, k - 1) \o SubSeq(s, k + 1, n)
  BY <1>1 DEF RemoveAt
<1> DEFINE a == SubSeq(s, 1, k - 1)
           b == SubSeq(s, k + 1, n)
<1>3. a \in Seq(S) /\ Len(a) = k - 1 /\ \A j \in 1..(k - 1) : a[j] = s[j]
  BY <1>1
<1>4. b \in Seq(S) /\ Len(b) = n - k /\ \A j \in 1..(n - k) : b[j] = s[j + k]
  BY <1>1
<1> HIDE DEF a, b
<1>5. t = a \o b
  BY <1>2 DEF a, b
<1>6. t \in Seq(S) /\ Len(t) = n - 1
  <2>1. \A x, y \in Seq(S) : x \o y \in Seq(S) /\ Len(x \o y) = Len(x) + Len(y)
    OBVIOUS
  <2>2. t \in Seq(S) /\ Len(t) = (k - 1) + (n - k)
    BY <1>3, <1>4, <1>5, <2>1
  <2> QED
    BY <1>1, <2>2
<1>7. ASSUME NEW j \in 1..(n - 1) PROVE t[j] = IF j < k THEN s[j] ELSE s[j + 1]
  <2>1. CASE j < k
    BY <1>3, <1>4, <1>5, <2>1
  <2>2. CASE j >= k
    <3>1. t[j] = b[j - (k - 1)] /\ j - (k - 1) \in 1..(n - k)
      BY <1>1, <1>3, <1>4, <1>5, <2>2
    <3>2. b[j - (k - 1)] = s[j - (k - 1) + k]
      BY <1>4, <3>1
    <3>3. j - (k - 1) + k = j + 1
      OBVIOUS
    <3> QED
      BY <2>2, <3>1, <3>2, <3>3
  <2> QED
    BY <2>1, <2>2
<1> QED
  BY <1>1, <1>6, <1>7

\* The one that ends is taken out of the chain of holders.
LEMMA HeldByOneLess ==
    ASSUME NEW s \in Seq(Txns), IsInjective(s), NEW t
    PROVE  /\ Without(s, t) \in Seq(Txns) /\ IsInjective(Without(s, t))
           /\ ToSet(Without(s, t)) \subseteq ToSet(s)
<1>1. CASE t \notin ToSet(s)
  BY <1>1 DEF Without
<1>2. CASE t \in ToSet(s)
  <2>1. PICK n \in Nat : n = Len(s)
    OBVIOUS
  <2>2. \E k \in 1..n : s[k] = t
    BY <1>2, <2>1 DEF ToSet
  <2>3. PICK k \in 1..n : k = CHOOSE i \in 1..Len(s) : s[i] = t
    BY <2>1, <2>2
  <2>4. PICK w : w = RemoveAt(s, k)
    OBVIOUS
  <2>5. Without(s, t) = w
    BY <1>2, <2>3, <2>4 DEF Without
  <2>6. /\ w \in Seq(Txns) /\ Len(w) = n - 1
        /\ \A j \in 1..Len(w) : w[j] = IF j < k THEN s[j] ELSE s[j + 1]
    BY <2>1, <2>4, OneRemoved
  <2>7. DOMAIN s = 1..n /\ DOMAIN w = 1..(n - 1)
    BY <2>1, <2>6
  <2>8. \A i, j \in 1..n : s[i] = s[j] => i = j
    BY <2>7 DEF IsInjective
  <2>9. IsInjective(w)
    <3> SUFFICES ASSUME NEW i \in 1..(n - 1), NEW j \in 1..(n - 1), w[i] = w[j] PROVE i = j
      BY <2>7 DEF IsInjective
    <3>1. PICK a \in 1..n : w[i] = s[a] /\ a = IF i < k THEN i ELSE i + 1
      BY <2>6
    <3>2. PICK b \in 1..n : w[j] = s[b] /\ b = IF j < k THEN j ELSE j + 1
      BY <2>6
    <3>3. a = b
      BY <2>8, <3>1, <3>2
    <3> QED
      BY <3>1, <3>2, <3>3
  <2>10. ToSet(w) \subseteq ToSet(s)
    <3>1. \A i \in 1..(n - 1) : \E a \in 1..n : w[i] = s[a]
      BY <2>6
    <3> QED
      BY <2>7, <3>1 DEF ToSet
  <2> QED
    BY <2>5, <2>6, <2>9, <2>10
<1> QED
  BY <1>1, <1>2

\* A broadcast only wakes up.
LEMMA BroadcastWakes ==
    ASSUME NEW nodes \in [Txns -> Threads], NEW F, NEW release, release \in BOOLEAN
    PROVE  /\ Broadcast(nodes, F, release) \in [Txns -> Threads]
           /\ \A u \in Txns :
                /\ Broadcast(nodes, F, release)[u].file = nodes[u].file
                /\ Broadcast(nodes, F, release)[u].pc =
                     IF nodes[u].file \in F /\ nodes[u].pc \in {"asleep", "woken"}
                     THEN "woken" ELSE nodes[u].pc
<1>1. PICK nodes2 : nodes2 = Broadcast(nodes, F, release)
  OBVIOUS
<1>2. DOMAIN nodes2 = Txns /\ nodes2 = [u \in Txns |-> nodes2[u]]
  BY <1>1 DEF Broadcast
<1>3. ASSUME NEW u \in Txns
      PROVE  /\ nodes2[u] \in Threads /\ nodes2[u].file = nodes[u].file
             /\ nodes2[u].pc =
                  IF nodes[u].file \in F /\ nodes[u].pc \in {"asleep", "woken"}
                  THEN "woken" ELSE nodes[u].pc
  <2>1. PICK o \in Threads : o = nodes[u]
    OBVIOUS
  <2>2. CASE o.file \in F /\ o.pc \in {"asleep", "woken"}
    <3>1. PICK r \in BOOLEAN : r = (o.released \/ release)
      OBVIOUS
    <3>2. nodes2[u] = [o EXCEPT !.pc = "woken", !.released = r]
      BY <1>1, <2>1, <2>2, <3>1 DEF Broadcast
    <3>3. nodes2[u] \in Threads /\ nodes2[u].file = o.file
          /\ nodes2[u].pc = "woken"
      BY <3>2 DEF Threads, Pcs, AskPcs, SleepPcs
    <3> QED
      BY <2>1, <2>2, <3>3
  <2>3. CASE ~(o.file \in F /\ o.pc \in {"asleep", "woken"})
    <3>1. nodes2[u] = o
      BY <1>1, <2>1, <2>3 DEF Broadcast
    <3> QED
      BY <2>1, <2>3, <3>1
  <2> QED
    BY <2>2, <2>3
<1> QED
  BY <1>1, <1>2, <1>3

\* A transaction ends: its locks are released, those that wait for them are woken up.
LEMMA EndTxnKeeps ==
    ASSUME IInv, NEW t \in Txns, EndTxn(t)
    PROVE  IInv'
<1>1. txn \in [Txns -> Threads] /\ holders \in [Files -> Seq(Txns)]
  BY DEF IInv, Types
<1>2. PICK freed : freed = {f \in Files : holders[f] = <<t>>}
  OBVIOUS
<1>3. PICK mid : mid = Broadcast(txn, freed, TRUE)
  OBVIOUS
<1>4. /\ txn[t].pc \in {"running", "abort"} /\ txn' = [mid EXCEPT ![t].pc = "delete"]
      /\ holders' = [f \in Files |-> Without(holders[f], t)]
      /\ UNCHANGED <<lockMode, wait, file_mutex, txn_mutex, detector,
                     crashed, disturbed, swallowed>>
  BY <1>2, <1>3 DEF EndTxn
<1>5. /\ mid \in [Txns -> Threads]
      /\ \A u \in Txns : /\ mid[u].file = txn[u].file
                         /\ mid[u].pc = IF /\ txn[u].file \in freed
                                           /\ txn[u].pc \in {"asleep", "woken"}
                                        THEN "woken" ELSE txn[u].pc
  <2>1. PICK nodes : nodes = txn
    OBVIOUS
  <2>2. nodes \in [Txns -> Threads] /\ mid = Broadcast(nodes, freed, TRUE) /\ TRUE \in BOOLEAN
    BY <1>1, <1>3, <2>1
  <2>3. /\ mid \in [Txns -> Threads]
        /\ \A u \in Txns : /\ mid[u].file = nodes[u].file
                           /\ mid[u].pc = IF /\ nodes[u].file \in freed
                                             /\ nodes[u].pc \in {"asleep", "woken"}
                                          THEN "woken" ELSE nodes[u].pc
    <3>1. TRUE \in BOOLEAN =>
            /\ Broadcast(nodes, freed, TRUE) \in [Txns -> Threads]
            /\ \A u \in Txns :
                 /\ Broadcast(nodes, freed, TRUE)[u].file = nodes[u].file
                 /\ Broadcast(nodes, freed, TRUE)[u].pc =
                      IF nodes[u].file \in freed /\ nodes[u].pc \in {"asleep", "woken"}
                      THEN "woken" ELSE nodes[u].pc
      BY <2>2, BroadcastWakes
    <3> QED
      BY <2>2, <3>1
  <2> QED
    BY <2>1, <2>3
<1>6. PICK n : n = [mid[t] EXCEPT !.pc = "delete"]
  OBVIOUS
<1>7. n \in Threads /\ n.pc = "delete"
  BY <1>5, <1>6 DEF Threads, Pcs
<1>8. txn' = [mid EXCEPT ![t] = n]
  BY <1>4, <1>5, <1>6
<1>9. /\ txn' \in [Txns -> Threads] /\ txn'[t].pc = "delete"
      /\ \A u \in Txns \ {t} : txn'[u] = mid[u]
  BY <1>5, <1>7, <1>8
<1>10. ASSUME NEW u \in Txns \ {t}
       PROVE  /\ txn'[u].file = txn[u].file
              /\ \/ txn'[u].pc = txn[u].pc
                 \/ txn'[u].pc = "woken" /\ txn[u].pc \in {"asleep", "woken"}
  BY <1>5, <1>9
<1>11. /\ holders' \in [Files -> Seq(Txns)] /\ \A f \in Files : IsInjective(holders'[f])
       /\ \A f \in Files : ToSet(holders'[f]) \subseteq ToSet(holders[f])
  <2>1. ASSUME NEW f \in Files
        PROVE  /\ holders'[f] \in Seq(Txns) /\ IsInjective(holders'[f])
               /\ ToSet(holders'[f]) \subseteq ToSet(holders[f])
    <3>1. holders[f] \in Seq(Txns) /\ IsInjective(holders[f])
      BY DEF IInv, Types
    <3>2. holders'[f] = Without(holders[f], t)
      BY <1>4
    <3> QED
      BY <3>1, <3>2, HeldByOneLess
  <2>2. holders' = [f \in Files |-> holders'[f]]
    BY <1>4
  <2> QED
    BY <2>1, <2>2
<1>12. Asks'
  <2>1. \A u \in Txns : txn'[u].pc \in AskPcs =>
          txn[u].pc \in AskPcs /\ txn'[u].file = txn[u].file
    BY <1>9, <1>10 DEF AskPcs, SleepPcs
  <2> QED
    BY <1>11, <2>1, AsksStill
<1>13. \A g \in Files : SameAt(txn, txn', g)
  <2>1. ASSUME NEW g, NEW u \in Txns
        PROVE  /\ (txn'[u].pc \in SleepPcs /\ txn'[u].file = g)
                    <=> (txn[u].pc \in SleepPcs /\ txn[u].file = g)
               /\ txn[u].pc = "woken" => txn'[u].pc = "woken"
               /\ txn'[u].pc \in VictimPcs => txn'[u].pc = txn[u].pc
    <3>1. CASE u = t
      BY <1>4, <1>9, <3>1 DEF SleepPcs, VictimPcs
    <3>2. CASE u # t
      BY <1>10, <3>2 DEF SleepPcs, VictimPcs
    <3> QED
      BY <3>1, <3>2
  <2> QED
    BY <2>1 DEF SameAt
<1>14. Counted' /\ Shook'
  BY <1>4, <1>13, NowhereKeeps
<1>15. Types'
  BY <1>4, <1>9, <1>11 DEF IInv, Types
<1> QED
  BY <1>12, <1>14, <1>15 DEF IInv

(***************************************************************************)
(* The steps of the detector.                                              *)
(***************************************************************************)

\* A step that leaves the threads and the wait nodes alone.
LEMMA AsideKeeps ==
    ASSUME IInv, UNCHANGED <<holders, txn, wait>>, disturbed => disturbed'
    PROVE  Asks' /\ Counted' /\ Shook'
<1>1. Asks' /\ Counted'
  BY DEF IInv, Asks, Counted, Holds, SleepersIn
<1>2. ASSUME ~disturbed', NEW f \in Files PROVE Shaken(txn', wait'[f], f)
  BY <1>2 DEF IInv, Shook
<1>3. Shook'
  BY <1>2 DEF Shook
<1> QED
  BY <1>1, <1>3

\* The detector goes on to the next transaction, or to the edges.
LEMMA GoesOn ==
    ASSUME NEW d, NEW t, "pc" \in DOMAIN d, "victim" \in DOMAIN d, GoOn(d, t)
    PROVE  /\ detector'.pc \in {"note", "edges"}
           /\ "pc" \in DOMAIN detector' /\ "victim" \in DOMAIN detector'
BY DEF GoOn

\* The transactions are noted, one by one.
LEMMA NotingKeeps ==
    ASSUME IInv, BeginRound \/ NoteState \/ NoteInode
    PROVE  IInv'
<1>1. /\ txn_mutex' \in {Detector, NoMark}
      /\ UNCHANGED <<holders, lockMode, txn, wait, file_mutex, crashed, disturbed, swallowed>>
  BY DEF BeginRound, NoteState, NoteInode, IInv, Types
<1>2. Asks' /\ Counted' /\ Shook'
  BY <1>1, AsideKeeps
<1>3. "pc" \in DOMAIN detector /\ "victim" \in DOMAIN detector
  BY DEF IInv, Types
<1>4. /\ detector'.pc \in {"note", "inode", "edges"}
      /\ "pc" \in DOMAIN detector' /\ "victim" \in DOMAIN detector'
  <2>1. CASE BeginRound
    <3>1. "pc" \in DOMAIN Resting /\ "victim" \in DOMAIN Resting
      BY DEF Resting
    <3> QED
      BY <2>1, <3>1, GoesOn DEF BeginRound
  <2>2. CASE NoteState
    <3>1. CASE detector' = [detector EXCEPT !.pc = "inode"]
      BY <1>3, <3>1
    <3>2. CASE GoOn(detector, detector.at)
      BY <1>3, <3>2, GoesOn
    <3> QED
      BY <2>2, <3>1, <3>2 DEF NoteState
  <2>3. CASE NoteInode
    <3>1. PICK t, d : /\ t = detector.at
                      /\ d = [detector EXCEPT !.list = Append(@, t),
                                 !.inode = @ @@ (t :> txn[t].waiting_for_inode)]
      OBVIOUS
    <3>2. "pc" \in DOMAIN d /\ "victim" \in DOMAIN d
      BY <1>3, <3>1
    <3>3. GoOn(d, t)
      BY <2>3, <3>1 DEF NoteInode
    <3> QED
      BY <3>2, <3>3, GoesOn
  <2> QED
    BY <2>1, <2>2, <2>3
<1>5. Types'
  BY <1>1, <1>4 DEF IInv, Types
<1> QED
  BY <1>2, <1>5 DEF IInv

\* The edges are drawn and searched, whatever comes of it.
LEMMA DrawEdgesKeeps ==
    ASSUME IInv, DrawEdges
    PROVE  IInv'
<1>1. /\ txn_mutex' = NoMark /\ crashed' \in BOOLEAN
      /\ UNCHANGED <<holders, lockMode, txn, wait, file_mutex, disturbed, swallowed>>
  BY DEF DrawEdges, IInv, Types
<1>2. Asks' /\ Counted' /\ Shook'
  BY <1>1, AsideKeeps
<1>3. \/ detector' = [detector EXCEPT !.pc = "dead"]
      \/ detector' = Resting
      \/ \E v \in Txns : detector' = [detector EXCEPT !.pc = "mark", !.victim = v]
  BY DEF DrawEdges
<1>4. "pc" \in DOMAIN detector /\ "victim" \in DOMAIN detector
  BY DEF IInv, Types
<1>5. /\ detector'.pc \in {"sleep", "mark", "dead"}
      /\ "pc" \in DOMAIN detector' /\ "victim" \in DOMAIN detector'
      /\ detector'.pc = "mark" => detector'.victim \in Txns
  <2>1. CASE detector' = [detector EXCEPT !.pc = "dead"]
    BY <1>4, <2>1
  <2>2. CASE detector' = Resting
    BY <2>2 DEF Resting
  <2>3. CASE \E v \in Txns : detector' = [detector EXCEPT !.pc = "mark", !.victim = v]
    BY <1>4, <2>3
  <2> QED
    BY <1>3, <2>1, <2>2, <2>3
<1>6. Types'
  BY <1>1, <1>5 DEF IInv, Types
<1> QED
  BY <1>2, <1>6 DEF IInv

\* A victim is marked: all that sleep there are woken up, to be counted.
LEMMA MarkVictimKeeps ==
    ASSUME IInv, MarkVictim
    PROVE  IInv'
<1>1. /\ txn \in [Txns -> Threads] /\ wait \in [Files -> WaitNodes]
      /\ "pc" \in DOMAIN detector /\ "victim" \in DOMAIN detector
      /\ detector.pc = "mark" => detector.victim \in Txns
  BY DEF IInv, Types
<1>2. PICK f, v : v = detector.victim /\ f = detector.inode[detector.victim]
  OBVIOUS
<1>3. /\ detector.pc = "mark"
      /\ \/ crashed' = TRUE /\ detector' = [detector EXCEPT !.pc = "dead"] /\ UNCHANGED <<wait, txn>>
         \/ /\ wait' = [wait EXCEPT ![f] = Marked(@, v)] /\ txn' = Broadcast(txn, {f}, FALSE)
            /\ detector' = Resting /\ crashed' = crashed
      /\ disturbed' = (disturbed \/ Counting(f))
      /\ UNCHANGED <<holders, lockMode, file_mutex, txn_mutex, swallowed>>
  BY <1>2 DEF MarkVictim
<1>4. v \in Txns
  BY <1>1, <1>2, <1>3
<1>5. /\ detector'.pc \in {"sleep", "dead"} /\ crashed' \in BOOLEAN /\ disturbed' \in BOOLEAN
      /\ "pc" \in DOMAIN detector' /\ "victim" \in DOMAIN detector'
  <2>1. crashed' \in BOOLEAN /\ disturbed' \in BOOLEAN
    BY <1>3 DEF IInv, Types, Counting
  <2>2. CASE detector' = [detector EXCEPT !.pc = "dead"]
    BY <1>1, <2>1, <2>2
  <2>3. CASE detector' = Resting
    BY <2>1, <2>3 DEF Resting
  <2> QED
    BY <1>3, <2>2, <2>3
<1>6. CASE UNCHANGED <<wait, txn>>
  <2>1. Asks' /\ Counted' /\ Shook'
    BY <1>3, <1>6, AsideKeeps
  <2>2. Types'
    BY <1>3, <1>5, <1>6 DEF IInv, Types
  <2> QED
    BY <2>1, <2>2 DEF IInv
<1>7. CASE wait' = [wait EXCEPT ![f] = Marked(@, v)] /\ txn' = Broadcast(txn, {f}, FALSE)
  <2>1. PICK nodes, nodes2, F : nodes = txn /\ F = {f} /\ nodes2 = Broadcast(nodes, F, FALSE)
    OBVIOUS
  <2>2. /\ nodes2 \in [Txns -> Threads]
        /\ \A u \in Txns :
             /\ nodes2[u].file = nodes[u].file
             /\ nodes2[u].pc =
                  IF nodes[u].file \in F /\ nodes[u].pc \in {"asleep", "woken"}
                  THEN "woken" ELSE nodes[u].pc
    <3>1. FALSE \in BOOLEAN =>
            /\ Broadcast(nodes, F, FALSE) \in [Txns -> Threads]
            /\ \A u \in Txns :
                 /\ Broadcast(nodes, F, FALSE)[u].file = nodes[u].file
                 /\ Broadcast(nodes, F, FALSE)[u].pc =
                      IF nodes[u].file \in F /\ nodes[u].pc \in {"asleep", "woken"}
                      THEN "woken" ELSE nodes[u].pc
      <4>1. nodes \in [Txns -> Threads]
        BY <1>1, <2>1
      <4> QED
        BY <4>1, BroadcastWakes
    <3> QED
      BY <2>1, <3>1
  <2>3. /\ txn' \in [Txns -> Threads]
        /\ \A u \in Txns :
             /\ txn'[u].file = txn[u].file
             /\ \/ txn'[u].pc = txn[u].pc /\ ~(txn[u].file = f /\ txn[u].pc = "asleep")
                \/ txn'[u].pc = "woken" /\ txn[u].pc \in {"asleep", "woken"}
    BY <1>7, <2>1, <2>2
  <2>4. Asks'
    <3>1. \A u \in Txns : txn'[u].pc \in AskPcs =>
            txn[u].pc \in AskPcs /\ txn'[u].file = txn[u].file
      BY <2>3 DEF AskPcs, SleepPcs
    <3>2. \A g \in Files : ToSet(holders'[g]) \subseteq ToSet(holders[g])
      BY <1>3
    <3> QED
      BY <3>1, <3>2, AsksStill
  <2>5. \A g : SameAt(txn, txn', g)
    BY <2>3 DEF SameAt, SleepPcs, VictimPcs
  <2>6. Counted' /\ Shook' /\ wait' \in [Files -> WaitNodes]
    <3>1. CASE f \notin Files
      <4>1. wait' = wait
        BY <1>1, <1>7, <3>1
      <4> QED
        BY <1>1, <1>3, <2>5, <4>1, NowhereKeeps
    <3>2. CASE f \in Files
      <4>1. PICK node \in WaitNodes : node = wait[f]
        BY <1>1, <3>2
      <4>2. PICK node2 : node2 = Marked(node, v)
        OBVIOUS
      <4>3. /\ node2 \in WaitNodes /\ node2.in_wait = node.in_wait
            /\ node2.woke_up = 0 /\ node2.txnid_abort = v
        BY <1>4, <4>2 DEF Marked, WaitNodes
      <4>4. wait' = [wait EXCEPT ![f] = node2]
        BY <1>1, <1>7, <3>2, <4>1, <4>2
      <4>5. wait'[f] = node2 /\ wait' \in [Files -> WaitNodes]
        BY <1>1, <3>2, <4>3, <4>4
      <4>6. \A g \in Files \ {f} : wait'[g] = wait[g] /\ SameAt(txn, txn', g)
        BY <1>1, <2>5, <4>4
      <4>7. SleepersIn(txn', f) = SleepersIn(txn, f)
        BY <2>5, StaysAt
      <4>8. node2.in_wait = Cardinality(SleepersIn(txn', f))
        BY <3>2, <4>1, <4>3, <4>7 DEF IInv, Counted
      <4>9. ASSUME ~disturbed' PROVE ~disturbed /\ Shaken(txn', node2, f)
        <5>1. ~disturbed /\ ~Counting(f) /\ Shaken(txn, node, f)
          BY <1>3, <3>2, <4>1, <4>9 DEF IInv, Shook
        <5>2. ASSUME NEW u \in Txns, txn[u].pc \in VictimPcs, txn[u].file = f
              PROVE  FALSE
          <6>1. /\ node.txnid_abort = u /\ u # NoMark
                /\ txn[u].pc = "on wake_cond" => node.woke_up < node.in_wait
            <7>1. u # NoMark
              BY TxnsAssumption DEF NoMark
            <7> QED
              BY <5>1, <5>2, <7>1 DEF Shaken
          <6>2. \A w \in Txns : ~(/\ txn[w].file = f
                                 /\ txn[w].pc \in {"woken", "counting", "signalled"})
            BY <4>1, <5>1, <6>1 DEF Counting
          <6>3. node.woke_up < node.in_wait
            BY <5>2, <6>1, <6>2 DEF VictimPcs
          <6>4. WokenIn(txn, f) = {}
            BY <6>2 DEF WokenIn
          <6>5. Cardinality(WokenIn(txn, f)) = 0
            BY <6>4, FS_EmptySet
          <6>6. node.in_wait <= node.woke_up + Cardinality(WokenIn(txn, f))
            BY <5>1, <6>1 DEF Shaken
          <6> QED
            BY <6>3, <6>5, <6>6 DEF WaitNodes
        <5>3. SleepersIn(txn', f) = WokenIn(txn', f)
          <6>1. \A u \in Txns : txn'[u].file = f =>
                  (txn'[u].pc \in SleepPcs <=> txn'[u].pc = "woken")
            BY <2>3, <5>2 DEF SleepPcs, VictimPcs
          <6> QED
            BY <6>1 DEF SleepersIn, WokenIn
        <5>4. PICK a \in Nat : a = Cardinality(WokenIn(txn', f))
          BY SleepersFinite
        <5>5. node2.in_wait <= node2.woke_up + a
          BY <4>3, <4>8, <5>3, <5>4
        <5>6. ASSUME NEW u \in Txns, txn'[u].pc \in VictimPcs, txn'[u].file = f
              PROVE  FALSE
          BY <2>3, <5>2, <5>6 DEF VictimPcs
        <5> QED
          BY <5>1, <5>4, <5>5, <5>6 DEF Shaken
      <4> QED
        BY <3>2, <4>5, <4>6, <4>8, <4>9, ElsewhereKeeps
    <3> QED
      BY <3>1, <3>2
  <2>7. Types'
    BY <1>3, <1>5, <2>3, <2>6 DEF IInv, Types
  <2> QED
    BY <2>4, <2>6, <2>7 DEF IInv
<1> QED
  BY <1>3, <1>6, <1>7

(***************************************************************************)
(* The theorems.                                                           *)
(***************************************************************************)

\* No one waits at the start.
LEMMA InitInv == Init => IInv
<1> SUFFICES ASSUME Init PROVE IInv
  OBVIOUS
<1>1. \A t \in Txns : txn[t].pc = "running" /\ txn[t] \in Threads
  BY DEF Init, Threads, Pcs
<1>2. \A t \in Txns : txn[t].pc \notin AskPcs /\ txn[t].pc \notin SleepPcs /\ txn[t].pc \notin VictimPcs
  BY <1>1 DEF AskPcs, SleepPcs, VictimPcs
<1>3. NoNode \in WaitNodes /\ NoNode.in_wait = 0 /\ NoNode.txnid_abort = NoMark
  BY DEF NoNode, WaitNodes
<1>4. Types
  <2>1. txn \in [Txns -> Threads] /\ wait \in [Files -> WaitNodes]
    BY <1>1, <1>3 DEF Init
  <2>2. /\ holders \in [Files -> Seq(Txns)] /\ lockMode \in [Files -> {0, 1}]
        /\ \A f \in Files : IsInjective(holders[f])
    BY DEF Init, IsInjective
  <2>3. detector.pc = "sleep" /\ "pc" \in DOMAIN detector /\ "victim" \in DOMAIN detector
    BY DEF Init, Resting
  <2>4. /\ file_mutex = NoMark /\ txn_mutex = NoMark
        /\ crashed = FALSE /\ disturbed = FALSE /\ swallowed = FALSE
    BY DEF Init
  <2> QED
    BY <2>1, <2>2, <2>3, <2>4 DEF Types
<1>5. Asks
  BY <1>2 DEF Asks
<1>6. Counted
  <2> SUFFICES ASSUME NEW f \in Files PROVE wait[f].in_wait = Cardinality(SleepersIn(txn, f))
    BY DEF Counted
  <2>1. SleepersIn(txn, f) = {}
    BY <1>2 DEF SleepersIn
  <2>2. Cardinality(SleepersIn(txn, f)) = 0
    BY <2>1, FS_EmptySet
  <2> QED
    BY <1>3, <2>2 DEF Init
<1>7. Shook
  BY <1>2, <1>3 DEF Init, Shook, Shaken
<1> QED
  BY <1>4, <1>5, <1>6, <1>7 DEF IInv

\* Every step of a thread or of the detector, and a step of neither.
LEMMA NextInv == IInv /\ [Next]_vars => IInv'
<1> SUFFICES ASSUME IInv, [Next]_vars PROVE IInv'
  OBVIOUS
<1>1. CASE UNCHANGED vars
  <2>1. /\ UNCHANGED <<holders, lockMode, txn, wait, file_mutex, txn_mutex, detector>>
        /\ UNCHANGED <<crashed, disturbed, swallowed>>
    BY <1>1 DEF vars
  <2>2. Asks' /\ Counted' /\ Shook'
    BY <2>1, AsideKeeps
  <2>3. Types'
    BY <2>1 DEF IInv, Types
  <2> QED
    BY <2>2, <2>3 DEF IInv
<1>2. ASSUME NEW t \in Txns, Thread(t) PROVE IInv'
  <2>1. CASE \E f \in Files, m \in Modes[t] : Request(t, f, m)
    BY <2>1, RequestKeeps
  <2>2. CASE Granted(t)
    BY <2>2, GrantedKeeps
  <2>3. CASE Blocked(t)
    BY <2>3, BlockedKeeps
  <2>4. CASE WakeToResume(t)
    BY <2>4, WakeToResumeKeeps
  <2>5. CASE Resume(t)
    BY <2>5, ResumeKeeps
  <2>6. CASE WakeAndSleepAgain(t)
    BY <2>6, SleepAgainKeeps
  <2>7. CASE WakeAsVictim(t)
    BY <2>7, VictimLastKeeps, VictimWaitsKeeps
  <2>8. CASE VictimCounts(t)
    BY <2>8, VictimCountsKeeps
  <2>9. CASE VictimGoesOn(t)
    BY <2>9, VictimGoesOnKeeps
  <2>10. CASE EndTxn(t)
    BY <2>10, EndTxnKeeps
  <2>11. CASE txn_delete(t)
    BY <2>11, DeleteKeeps
  <2>12. CASE FindNode(t)
    BY <2>12, FindNodeKeeps
  <2>13. CASE SetWaiting(t)
    BY <2>13, SetWaitingKeeps
  <2>14. CASE SetRunning(t)
    BY <2>14, SetRunningKeeps
  <2> QED
    BY <1>2, <2>1, <2>2, <2>3, <2>4, <2>5, <2>6, <2>7, <2>8, <2>9, <2>10, <2>11, <2>12, <2>13,
       <2>14 DEF Thread
<1>3. CASE deadlock_detection
  BY <1>3, NotingKeeps, DrawEdgesKeeps, MarkVictimKeeps DEF deadlock_detection
<1> QED
  BY <1>1, <1>2, <1>3 DEF Next

\* The chains of holders, the wait nodes and the handshake stay in order.
THEOREM Invariance == Spec => []IInv
BY InitInv, NextInv, PTL DEF Spec

\* What the invariant says of the count of a wait node (Wait_list_manager.c).
LEMMA CountedWaiters == IInv => WaitersCounted
<1> SUFFICES ASSUME IInv PROVE WaitersCounted
  OBVIOUS
<1>1. \A f \in Files : wait[f].in_wait = Cardinality(SleepersIn(txn, f))
  BY DEF IInv, Counted
<1>2. TypeOK
  <2>1. \A f \in Files : ToSet(holders[f]) \subseteq Txns /\ IsInjective(holders[f])
    BY DEF IInv, Types, ToSet
  <2>2. ASSUME NEW t \in Txns
        PROVE  /\ txn[t].pc \in {"running", "insert", "decide", "waiting", "asleep", "woken",
                                 "resume", "ask again", "counting", "on wake_cond", "signalled",
                                 "abort", "delete", "gone"}
               /\ {txn[t].file, txn[t].waiting_for_inode} \subseteq Files \cup {NoFile}
               /\ txn[t].cur_state \in {"RUNNING", "WAITING"}
    <3>1. txn[t] \in Threads
      BY DEF IInv, Types
    <3> QED
      BY <3>1 DEF Threads, Pcs, AskPcs, SleepPcs
  <2>3. ASSUME NEW f \in Files
        PROVE  /\ wait[f].in_wait \in 0 .. Cardinality(Txns)
               /\ wait[f].txnid_abort \in Txns \cup {NoMark}
    <3>1. wait[f] \in WaitNodes
      BY DEF IInv, Types
    <3>2. PICK c \in Nat : c = Cardinality(Txns)
      BY TxnsAssumption, FS_CardinalityType
    <3>3. PICK d \in Nat : d = Cardinality(SleepersIn(txn, f)) /\ d <= c
      BY <3>2, SleepersFinite
    <3> QED
      BY <1>1, <3>1, <3>2, <3>3 DEF WaitNodes
  <2>4. /\ lockMode \in [Files -> {0, 1}]
        /\ file_mutex \in Txns \cup {NoMark}
        /\ txn_mutex \in {Detector, NoMark}
        /\ detector.pc \in {"sleep", "note", "inode", "edges", "mark", "dead"}
        /\ {crashed, disturbed, swallowed} \subseteq BOOLEAN
    BY DEF IInv, Types
  <2> QED
    BY <2>1, <2>2, <2>3, <2>4 DEF TypeOK
<1>3. ASSUME NEW f \in Files
      PROVE  SleepersIn(txn, f) = {t \in Txns : Sleeping(t) /\ txn[t].file = f}
  BY DEF SleepersIn, Sleeping, SleepPcs
<1> QED
  BY <1>1, <1>2, <1>3 DEF WaitersCounted

\* What it says of a victim that waits for the others to be counted.
LEMMA NotForgotten == IInv => VictimNotForgotten
<1> SUFFICES ASSUME IInv PROVE VictimNotForgotten
  OBVIOUS
<1>1. ASSUME NEW t \in Txns, txn[t].pc = "on wake_cond", \A f \in Files : Shaken(txn, wait[f], f)
      PROVE  \E u \in Txns : /\ txn[u].pc = "woken"
                              /\ txn[u].file = txn[t].file
  <2>1. PICK f \in Files : f = txn[t].file
    BY <1>1 DEF IInv, Asks, AskPcs, SleepPcs
  <2>2. PICK node \in WaitNodes : node = wait[f]
    BY DEF IInv, Types
  <2>3. /\ node.txnid_abort = t /\ node.woke_up < node.in_wait
        /\ node.txnid_abort # NoMark => node.in_wait <= node.woke_up + Cardinality(WokenIn(txn, f))
    BY <1>1, <2>1, <2>2 DEF Shaken, VictimPcs
  <2>4. t # NoMark
    BY TxnsAssumption DEF NoMark
  <2>5. PICK a \in Nat : a = Cardinality(WokenIn(txn, f))
    BY SleepersFinite
  <2>6. a # 0
    BY <2>3, <2>4, <2>5 DEF WaitNodes
  <2>7. WokenIn(txn, f) # {}
    BY <2>5, <2>6, FS_EmptySet
  <2> QED
    BY <2>1, <2>7 DEF WokenIn
<1>2. ~disturbed => \A f \in Files : Shaken(txn, wait[f], f)
  BY DEF IInv, Shook
<1> QED
  BY <1>1, <1>2 DEF VictimNotForgotten

\* The wait nodes count their sleepers, for any number of transactions and files:
\* nobody leaves one twice, at a resume, or as a victim (update_wait_list_on_wake).
THEOREM WaitNodesCountTheirSleepers == Spec => []WaitersCounted
BY Invariance, CountedWaiters, PTL

\* Undisturbed, a victim on wake_cond always has a woken thread still to be counted,
\* the last of which signals it (wait_list_sleep).
THEOREM VictimsAreRemembered == Spec => []VictimNotForgotten
BY Invariance, NotForgotten, PTL
=============================================================================
