------------------------ MODULE DelayedUpdatesProofs ------------------------
(***************************************************************************)
(* Proofs about DelayedUpdates, for every set of directories and any       *)
(* number of updates.                                                      *)
(***************************************************************************)
EXTENDS DelayedUpdates, WellFoundedInduction, TLAPS

(***************************************************************************)
(* The inductive invariant, in parts.                                      *)
(***************************************************************************)

\* The records of a node tell what they are: a rename between two directories
\* has one in each of them, all others have one.
Right ==
    \A d \in Dirs : \A k \in 1..Len(writes_at[d]) :
      LET r == writes_at[d][k]
          update == logged[r.LRN] IN
      /\ d \in update.dirs /\ \E e \in Dirs : update.dirs = {d, e}
      /\ r.write_length \in {Creat, Unlink, SamePath} => update.dirs = {d}
      /\ r.write_length = Creat <=> update.type = "CREAT"

\* They are in the order of the log; only a rename that named one directory by
\* two strings is twice in its list.
Sorted ==
    \A d \in Dirs : \A j, k \in 1..Len(writes_at[d]) : j < k =>
      \/ writes_at[d][j].LRN < writes_at[d][k].LRN
      \/ /\ writes_at[d][j].LRN = writes_at[d][k].LRN
         /\ logged[writes_at[d][j].LRN].dirs = {d}
         /\ writes_at[d][j].write_length \in {OldPath, NewPath}

In(i, d) == \E k \in 1..Len(writes_at[d]) : writes_at[d][k].LRN = i

\* What waits to be applied does so in all of its directories, till an abort.
Whole == pc # "done" => \A d, e \in Dirs, i \in LRNs : In(i, d) /\ e \in logged[i].dirs => In(i, e)

\* Where there is a record, the release still comes or the node has no flags.
Queued ==
    \A d \in Dirs : writes_at[d] # <<>> =>
      \E p \in 1..Len(files) : files[p] = d /\ (pc = "release" => at <= p \/ d \in unflagged)

\* Nothing is lost and nothing is done before the commit.
Progress ==
    /\ pc = "run" => at = 1 /\ ~committed
    /\ pc = "release" => committed
    /\ ~committed => applied = <<>>
    /\ \A i \in LRNs :
         /\ Applied(i) => ~NeverApplied(i)
         /\ Sound /\ Applied(i) => ~Pending(i)
         /\ pc = "run" => Pending(i)
         /\ pc = "release" /\ ~NeverApplied(i) => Applied(i) \/ Pending(i)
         /\ pc = "done" /\ committed /\ ~NeverApplied(i) => Applied(i)

Before(a, b) ==
    \/ Place(a) < Place(b)
    \/ Place(a) = Place(b) /\ a < b

\* What is applied lies before what the release is at.
Ordered ==
    /\ Sound => \A a, b \in 1..Len(applied) : a < b => Before(applied[a], applied[b])
    /\ pc = "release" => \A a \in 1..Len(applied) :
         /\ Place(applied[a]) \in Nat /\ Place(applied[a]) <= at
         /\ Place(applied[a]) = at =>
              \A k \in 1..Len(writes_at[files[at]]) : applied[a] < writes_at[files[at]][k].LRN

IInv == TypeOK /\ Right /\ Sorted /\ Whole /\ Queued /\ Progress /\ Ordered

Records(n) == [write_length : Unlink..OldPath, LRN : 1..n]

(***************************************************************************)
(* Sequences.                                                              *)
(***************************************************************************)

\* RemoveAt takes out one element and moves up what follows.
LEMMA OneRemoved ==
    ASSUME NEW S, NEW s \in Seq(S), NEW k \in 1..Len(s), NEW t, t = RemoveAt(s, k)
    PROVE  /\ t \in Seq(S) /\ Len(t) = Len(s) - 1
           /\ \A j \in 1..Len(t) : t[j] = IF j < k THEN s[j] ELSE s[j + 1]
<1>1. PICK n \in Nat : n = Len(s)
  OBVIOUS
<1>2. t = SubSeq(s, 1, k - 1) \o SubSeq(s, k + 1, n)
  BY <1>1 DEF RemoveAt
<1> DEFINE a == SubSeq(s, 1, k - 1)
           b == SubSeq(s, k + 1, n)
<1>3. a \in Seq(S) /\ Len(a) = k - 1 /\ \A j \in 1..(k - 1) : a[j] = s[j]
  BY <1>1
<1>4. b \in Seq(S) /\ Len(b) = n - k /\ \A j \in 1..(n - k) : b[j] = s[j + k]
  BY <1>1
<1> HIDE DEF a, b
<1>5. t = a \o b
  BY <1>2 DEF a, b
<1>6. t \in Seq(S) /\ Len(t) = n - 1
  <2>1. \A x, y \in Seq(S) : x \o y \in Seq(S) /\ Len(x \o y) = Len(x) + Len(y)
    OBVIOUS
  <2>2. t \in Seq(S) /\ Len(t) = (k - 1) + (n - k)
    BY <1>3, <1>4, <1>5, <2>1
  <2> QED
    BY <1>1, <2>2
<1>7. ASSUME NEW j \in 1..(n - 1) PROVE t[j] = IF j < k THEN s[j] ELSE s[j + 1]
  <2>1. CASE j < k
    BY <1>3, <1>4, <1>5, <2>1
  <2>2. CASE j >= k
    <3>1. t[j] = b[j - (k - 1)] /\ j - (k - 1) \in 1..(n - k)
      BY <1>1, <1>3, <1>4, <1>5, <2>2
    <3>2. b[j - (k - 1)] = s[j - (k - 1) + k]
      BY <1>4, <3>1
    <3>3. j - (k - 1) + k = j + 1
      OBVIOUS
    <3> QED
      BY <2>2, <3>1, <3>2, <3>3
  <2> QED
    BY <2>1, <2>2
<1> QED
  BY <1>1, <1>6, <1>7

\* What is left of a list when the records of one update are taken off.
Shrinks(s, t, i) ==
    /\ \A j \in 1..Len(t) : t[j].LRN # i /\ \E k \in 1..Len(s) : t[j] = s[k]
    /\ \A j, k \in 1..Len(t) : j < k => \E l, m \in 1..Len(s) : l < m /\ t[j] = s[l] /\ t[k] = s[m]
    /\ \A k \in 1..Len(s) : s[k].LRN # i => \E j \in 1..Len(t) : t[j] = s[k]

\* A list without such a record shrinks to itself.
LEMMA ShrinksNot ==
    ASSUME NEW S, NEW s \in Seq(S), NEW i, \A k \in 1..Len(s) : s[k].LRN # i
    PROVE  Shrinks(s, s, i)
BY DEF Shrinks

\* One with a single such record loses that.
LEMMA ShrinksOne ==
    ASSUME NEW S, NEW s \in Seq(S), NEW i, NEW n \in 1..Len(s), NEW t, t = RemoveAt(s, n),
           \A k \in 1..Len(s) : s[k].LRN = i <=> k = n
    PROVE  Shrinks(s, t, i) /\ t \in Seq(S)
<1>1. PICK len \in Nat : len = Len(s)
  OBVIOUS
<1>2. /\ t \in Seq(S) /\ Len(t) = len - 1
      /\ \A j \in 1..(len - 1) : t[j] = IF j < n THEN s[j] ELSE s[j + 1]
  <2>1. /\ t \in Seq(S) /\ Len(t) = Len(s) - 1
        /\ \A j \in 1..Len(t) : t[j] = IF j < n THEN s[j] ELSE s[j + 1]
    BY OneRemoved, Zenon
  <2> QED
    BY <1>1, <2>1
<1>3. \A j \in 1..(len - 1) : t[j].LRN # i /\ \E k \in 1..len : t[j] = s[k]
  BY <1>1, <1>2
<1>4. ASSUME NEW j \in 1..(len - 1), NEW k \in 1..(len - 1), j < k
      PROVE  \E l, m \in 1..len : l < m /\ t[j] = s[l] /\ t[k] = s[m]
  <2>1. CASE k < n
    BY <1>1, <1>2, <1>4, <2>1
  <2>2. CASE j < n /\ k >= n
    <3>1. j < k + 1 /\ k + 1 \in 1..len /\ j \in 1..len
      BY <1>4
    <3> QED
      BY <1>2, <2>2, <3>1
  <2>3. CASE j >= n
    <3>1. j + 1 < k + 1 /\ k + 1 \in 1..len /\ j + 1 \in 1..len /\ k >= n
      BY <1>4, <2>3
    <3> QED
      BY <1>2, <2>3, <3>1
  <2> QED
    BY <1>4, <2>1, <2>2, <2>3
<1>5. ASSUME NEW k \in 1..len, k # n PROVE \E j \in 1..(len - 1) : t[j] = s[k]
  <2>1. CASE k < n
    BY <1>1, <1>2, <2>1
  <2>2. CASE k > n
    <3>1. PICK j \in 1..(len - 1) : j >= n /\ j + 1 = k
      BY <1>1, <2>2
    <3>2. t[j] = s[j + 1]
      BY <1>2, <3>1
    <3> QED
      BY <3>1, <3>2
  <2> QED
    BY <1>5, <2>1, <2>2
<1>6. Len(t) = len - 1 /\ \A k \in 1..len : s[k].LRN # i => k # n
  BY <1>1, <1>2
<1> QED
  BY <1>1, <1>2, <1>3, <1>4, <1>5, <1>6 DEF Shrinks

(***************************************************************************)
(* The calls note an update.                                               *)
(***************************************************************************)

\* insert_file_list keeps the nodes and adds one that is not there.
Listed(old, new) ==
    /\ new \in Seq(Dirs)
    /\ \A i, j \in 1..Len(new) : new[i] = new[j] => i = j
    /\ \A p \in 1..Len(old) : \E q \in 1..Len(new) : new[q] = old[p]
Has(list, d) == \E q \in 1..Len(list) : list[q] = d

\* A node is found or goes to the tail (insert_file_list).
LEMMA LockedLists ==
    ASSUME NEW list \in Seq(Dirs), \A i, j \in 1..Len(list) : list[i] = list[j] => i = j,
           NEW d \in Dirs
    PROVE  Listed(list, Locked(list, d)) /\ Has(Locked(list, d), d)
<1>1. CASE \E i \in 1..Len(list) : list[i] = d
  BY <1>1 DEF Listed, Has, Locked
<1>2. CASE ~\E i \in 1..Len(list) : list[i] = d
  <2> DEFINE new == Append(list, d)
  <2>1. PICK n \in Nat : n = Len(list)
    OBVIOUS
  <2>2. new \in Seq(Dirs) /\ Len(new) = n + 1 /\ new[n + 1] = d /\ \A i \in 1..n : new[i] = list[i]
    BY <2>1
  <2>3. Locked(list, d) = new
    BY <1>2 DEF Locked
  <2> HIDE DEF new
  <2>4. \A i \in 1..(n + 1) : i \in 1..n \/ i = n + 1
    OBVIOUS
  <2>5. \A i, j \in 1..(n + 1) : new[i] = new[j] => i = j
    BY <1>2, <2>1, <2>2, <2>4
  <2>6. n + 1 \in 1..(n + 1)
    OBVIOUS
  <2>7. \A p \in 1..n : p \in 1..(n + 1) /\ new[p] = list[p]
    BY <2>2
  <2> QED
    BY <2>1, <2>2, <2>3, <2>5, <2>6, <2>7 DEF Listed, Has
<1> QED
  BY <1>1, <1>2

\* One after the other.
LEMMA ListedTwice ==
    ASSUME NEW a, NEW b, NEW c, Listed(a, b), Listed(b, c)
    PROVE  Listed(a, c) /\ \A d : Has(b, d) => Has(c, d)
BY DEF Listed, Has

\* The nodes without flags stay on the list.
LEMMA UnflaggedListed ==
    ASSUME NEW old, NEW new, Listed(old, new), NEW S, S \subseteq ToSet(old), old \in Seq(Dirs)
    PROVE  S \subseteq ToSet(new)
<1> SUFFICES ASSUME NEW d \in S PROVE d \in ToSet(new)
  OBVIOUS
<1>1. PICK p \in 1..Len(old) : old[p] = d
  BY DEF ToSet
<1>2. PICK q \in 1..Len(new) : new[q] = d
  BY <1>1 DEF Listed
<1> QED
  BY <1>2 DEF Listed, ToSet

\* What a call adds to the list of a directory: the records of the update with the
\* number n, one, or two when both paths of a rename lead to it.
Adds(s, t, d, update, n) ==
    /\ t \in Seq(Records(n)) /\ Len(s) <= Len(t)
    /\ \A k \in 1..Len(s) : t[k] = s[k]
    /\ \A k \in Len(s) + 1..Len(t) :
         /\ t[k].LRN = n /\ d \in update.dirs
         /\ t[k].write_length \in {Creat, Unlink, SamePath} => update.dirs = {d}
         /\ t[k].write_length = Creat <=> update.type = "CREAT"
    /\ \A j, k \in Len(s) + 1..Len(t) : j < k =>
         update.dirs = {d} /\ t[j].write_length \in {OldPath, NewPath}
    /\ d \in update.dirs => Len(s) < Len(t)

\* What was typed for a shorter log is for a longer one.
LEMMA MoreRecords ==
    ASSUME NEW n \in Nat, NEW m \in Nat, m <= n, NEW s \in Seq(Records(m))
    PROVE  s \in Seq(Records(n))
<1>1. Records(m) \subseteq Records(n)
  <2>1. 1..m \subseteq 1..n
    OBVIOUS
  <2> QED
    BY <2>1 DEF Records
<1> QED
  BY <1>1

\* Other directories get no record.
LEMMA AddsNone ==
    ASSUME NEW n \in Nat, NEW s \in Seq(Records(n)), NEW d, NEW update, d \notin update.dirs
    PROVE  Adds(s, s, d, update, n + 1)
<1>1. s \in Seq(Records(n + 1))
  BY MoreRecords
<1>2. Len(s) + 1..Len(s) = {}
  OBVIOUS
<1> QED
  BY <1>1, <1>2 DEF Adds

\* One record.
LEMMA AddsOne ==
    ASSUME NEW n \in Nat, NEW s \in Seq(Records(n)), NEW d, NEW update, NEW code \in Unlink..OldPath,
           d \in update.dirs, code \in {Creat, Unlink, SamePath} => update.dirs = {d},
           code = Creat <=> update.type = "CREAT"
    PROVE  Adds(s, Append(s, [write_length |-> code, LRN |-> n + 1]), d, update, n + 1)
<1> DEFINE r == [write_length |-> code, LRN |-> n + 1]
           t == Append(s, r)
<1>1. PICK len \in Nat : len = Len(s)
  OBVIOUS
<1>2. r \in Records(n + 1) /\ s \in Seq(Records(n + 1)) /\ r.LRN = n + 1 /\ r.write_length = code
  <2>1. s \in Seq(Records(n + 1))
    BY MoreRecords
  <2> QED
    BY <2>1 DEF Records
<1> HIDE DEF r
<1>3. t \in Seq(Records(n + 1)) /\ Len(t) = len + 1 /\ t[len + 1] = r /\ \A k \in 1..len : t[k] = s[k]
  BY <1>1, <1>2
<1>4. \A k \in len + 1..len + 1 : k = len + 1
  OBVIOUS
<1> HIDE DEF t
<1>5. Adds(s, t, d, update, n + 1)
  BY <1>1, <1>2, <1>3, <1>4 DEF Adds
<1> QED
  BY <1>5 DEF r, t

\* Two records, of a rename that names the directory by two strings.
LEMMA AddsTwo ==
    ASSUME NEW n \in Nat, NEW s \in Seq(Records(n)), NEW d, NEW update,
           update.dirs = {d}, update.type = "RENAME"
    PROVE  Adds(s, Append(Append(s, [write_length |-> OldPath, LRN |-> n + 1]),
                          [write_length |-> NewPath, LRN |-> n + 1]), d, update, n + 1)
<1> DEFINE a == [write_length |-> OldPath, LRN |-> n + 1]
           b == [write_length |-> NewPath, LRN |-> n + 1]
           u == Append(s, a)
           t == Append(u, b)
<1>1. PICK len \in Nat : len = Len(s)
  OBVIOUS
<1>2. /\ a \in Records(n + 1) /\ b \in Records(n + 1) /\ s \in Seq(Records(n + 1))
      /\ a.LRN = n + 1 /\ b.LRN = n + 1 /\ a.write_length = OldPath /\ b.write_length = NewPath
  <2>1. s \in Seq(Records(n + 1))
    BY MoreRecords
  <2> QED
    BY <2>1 DEF Records, OldPath, NewPath, Unlink
<1> HIDE DEF a, b
<1>3. u \in Seq(Records(n + 1)) /\ Len(u) = len + 1 /\ u[len + 1] = a /\ \A k \in 1..len : u[k] = s[k]
  BY <1>1, <1>2
<1>4. /\ t \in Seq(Records(n + 1)) /\ Len(t) = len + 2 /\ t[len + 2] = b /\ t[len + 1] = a
      /\ \A k \in 1..len : t[k] = s[k]
  BY <1>1, <1>2, <1>3
<1> HIDE DEF t
<1>5. \A k \in len + 1..len + 2 : k = len + 1 \/ k = len + 2
  OBVIOUS
<1>6. \A j, k \in len + 1..len + 2 : j < k => j = len + 1
  OBVIOUS
<1>7. OldPath \notin {Creat, Unlink, SamePath} /\ NewPath \notin {Creat, Unlink, SamePath}
  BY DEF OldPath, NewPath, Creat, Unlink, SamePath
<1>8. Adds(s, t, d, update, n + 1)
  BY <1>1, <1>2, <1>4, <1>5, <1>6, <1>7 DEF Adds
<1> QED
  BY <1>8 DEF a, b, u, t

\* The log grows at its end.
LEMMA LogGrows ==
    ASSUME NEW n \in Nat, NEW update \in Updates, logged \in Seq(Updates), n = Len(logged),
           logged' = Append(logged, update)
    PROVE  /\ logged' \in Seq(Updates) /\ Len(logged') = n + 1 /\ logged'[n + 1] = update
           /\ \A i \in 1..n : logged'[i] = logged[i]
BY DEF Updates

\* A call that notes an update in all of its directories keeps the invariant.
LEMMA Noted ==
    ASSUME IInv, pc = "run", UNCHANGED <<pc, committed, unflagged, at, applied>>,
           NEW update \in Updates, logged' = Append(logged, update),
           \A i \in created' : i \in created \/ (i = Len(logged) + 1 /\ update.type = "CREAT"),
           \E d, e \in Dirs : update.dirs = {d, e},
           Listed(files, files'), \A d \in update.dirs : Has(files', d),
           writes_at' = [d \in Dirs |-> writes_at'[d]],
           \A d \in Dirs : Adds(writes_at[d], writes_at'[d], d, update, Len(logged) + 1)
    PROVE  IInv'
<1>1. PICK n \in Nat : n = Len(logged) /\ LRNs = 1..n
  <2>1. logged \in Seq(Updates)
    BY DEF IInv, TypeOK
  <2>2. Len(logged) \in Nat
    BY <2>1
  <2> QED
    BY <2>2 DEF LRNs
<1>2. /\ logged' \in Seq(Updates) /\ Len(logged') = n + 1 /\ LRNs' = 1..(n + 1)
      /\ logged'[n + 1] = update /\ \A i \in 1..n : logged'[i] = logged[i]
  BY <1>1, LogGrows DEF IInv, TypeOK, LRNs
<1>3. ASSUME NEW d \in Dirs
      PROVE  /\ writes_at[d] \in Seq(Records(n)) /\ Len(writes_at[d]) \in Nat
             /\ \A k \in 1..Len(writes_at[d]) : writes_at[d][k].LRN \in 1..n
             /\ writes_at'[d] \in Seq(Records(n + 1)) /\ Len(writes_at'[d]) \in Nat
             /\ Adds(writes_at[d], writes_at'[d], d, update, n + 1)
  <2>1. writes_at[d] \in Seq(Records(n))
    BY <1>1 DEF IInv, TypeOK, Records
  <2> DEFINE s == writes_at[d]
  <2>2. Adds(writes_at[d], writes_at'[d], d, update, n + 1)
    BY <1>1
  <2>3. writes_at'[d] \in Seq(Records(n + 1))
    BY <2>2 DEF Adds
  <2>4. \A k \in 1..Len(s) : s[k].LRN \in 1..n
    <3>1. s \in Seq(Records(n))
      BY <2>1
    <3> HIDE DEF s
    <3>2. \A k \in 1..Len(s) : s[k] \in Records(n)
      BY <3>1
    <3> QED
      BY <3>2 DEF Records
  <2> QED
    BY <2>1, <2>2, <2>3, <2>4
<1>4. applied = <<>> /\ at = 1 /\ ~committed
  BY DEF IInv, Progress
<1>5. TypeOK'
  <2>1. files' \in Seq(Dirs) /\ \A i, j \in 1..Len(files') : files'[i] = files'[j] => i = j
    BY DEF Listed
  <2>2. writes_at' \in [Dirs -> Seq(Records(n + 1))]
    <3> DEFINE w == writes_at'
    <3>1. w = [d \in Dirs |-> w[d]] /\ \A d \in Dirs : w[d] \in Seq(Records(n + 1))
      BY <1>3
    <3> HIDE DEF w
    <3>2. w \in [Dirs -> Seq(Records(n + 1))]
      BY <3>1
    <3> QED
      BY <3>2 DEF w
  <2>3. at \in 1..Len(files') + 1
    BY <1>4, <2>1
  <2>4. applied' \in Seq(LRNs')
    BY <1>4
  <2>5. unflagged' \subseteq ToSet(files')
    BY UnflaggedListed DEF IInv, TypeOK
  <2>6. created' \subseteq {i \in LRNs' : logged'[i].type = "CREAT"}
    <3> SUFFICES ASSUME NEW i \in created' PROVE i \in 1..(n + 1) /\ logged'[i].type = "CREAT"
      BY <1>2
    <3>1. i \in created \/ (i = n + 1 /\ update.type = "CREAT")
      BY <1>1
    <3>2. CASE i \in created
      BY <1>1, <1>2, <3>2 DEF IInv, TypeOK
    <3> QED
      BY <1>2, <3>1, <3>2
  <2> QED
    BY <1>2, <2>1, <2>2, <2>3, <2>4, <2>5, <2>6 DEF IInv, TypeOK, Records
<1>6. ASSUME NEW d \in Dirs, NEW k \in 1..Len(writes_at'[d])
      PROVE  \/ /\ k \in 1..Len(writes_at[d]) /\ writes_at'[d][k] = writes_at[d][k]
                /\ writes_at'[d][k].LRN \in 1..n
                /\ logged'[writes_at'[d][k].LRN] = logged[writes_at[d][k].LRN]
             \/ /\ k \in Len(writes_at[d]) + 1..Len(writes_at'[d])
                /\ writes_at'[d][k].LRN = n + 1 /\ logged'[writes_at'[d][k].LRN] = update
                /\ d \in update.dirs
                /\ writes_at'[d][k].write_length \in {Creat, Unlink, SamePath} => update.dirs = {d}
                /\ writes_at'[d][k].write_length = Creat <=> update.type = "CREAT"
  <2>1. CASE k <= Len(writes_at[d])
    <3>1. k \in 1..Len(writes_at[d]) /\ writes_at'[d][k] = writes_at[d][k]
      BY <1>3, <1>6, <2>1 DEF Adds
    <3> QED
      BY <1>2, <1>3, <3>1
  <2>2. CASE ~(k <= Len(writes_at[d]))
    <3>1. k \in Len(writes_at[d]) + 1..Len(writes_at'[d])
      BY <1>3, <1>6, <2>2
    <3> QED
      BY <1>2, <1>3, <3>1 DEF Adds
  <2> QED
    BY <2>1, <2>2
<1>7. Right'
  <2> SUFFICES ASSUME NEW d \in Dirs, NEW k \in 1..Len(writes_at'[d])
               PROVE  LET r == writes_at'[d][k]
                          u == logged'[r.LRN] IN
                      /\ d \in u.dirs /\ \E e \in Dirs : u.dirs = {d, e}
                      /\ r.write_length \in {Creat, Unlink, SamePath} => u.dirs = {d}
                      /\ r.write_length = Creat <=> u.type = "CREAT"
    BY DEF Right
  <2>1. d \in update.dirs => \E e \in Dirs : update.dirs = {d, e}
    OBVIOUS
  <2>2. CASE k \in 1..Len(writes_at[d]) /\ writes_at'[d][k] = writes_at[d][k]
             /\ logged'[writes_at'[d][k].LRN] = logged[writes_at[d][k].LRN]
    <3> DEFINE r == writes_at[d][k]
               u == logged[r.LRN]
    <3>1. /\ d \in u.dirs /\ \E e \in Dirs : u.dirs = {d, e}
          /\ r.write_length \in {Creat, Unlink, SamePath} => u.dirs = {d}
          /\ r.write_length = Creat <=> u.type = "CREAT"
      BY <2>2 DEF IInv, Right
    <3>2. writes_at'[d][k] = r /\ logged'[r.LRN] = u
      BY <2>2
    <3> HIDE DEF r, u
    <3> QED
      BY <3>1, <3>2
  <2> QED
    BY <1>6, <2>1, <2>2
<1>8. Sorted'
  <2> SUFFICES ASSUME NEW d \in Dirs, NEW j \in 1..Len(writes_at'[d]), NEW k \in 1..Len(writes_at'[d]),
                      j < k
               PROVE  \/ writes_at'[d][j].LRN < writes_at'[d][k].LRN
                      \/ /\ writes_at'[d][j].LRN = writes_at'[d][k].LRN
                         /\ logged'[writes_at'[d][j].LRN].dirs = {d}
                         /\ writes_at'[d][j].write_length \in {OldPath, NewPath}
    BY DEF Sorted
  <2>1. CASE k \in 1..Len(writes_at[d])
    <3>1. j \in 1..Len(writes_at[d])
      BY <1>3, <2>1
    <3>2. /\ writes_at'[d][k] = writes_at[d][k] /\ writes_at'[d][j] = writes_at[d][j]
          /\ logged'[writes_at[d][j].LRN] = logged[writes_at[d][j].LRN]
      BY <1>2, <1>3, <2>1, <3>1 DEF Adds
    <3>3. \/ writes_at[d][j].LRN < writes_at[d][k].LRN
          \/ /\ writes_at[d][j].LRN = writes_at[d][k].LRN
             /\ logged[writes_at[d][j].LRN].dirs = {d}
             /\ writes_at[d][j].write_length \in {OldPath, NewPath}
      BY <2>1, <3>1 DEF IInv, Sorted
    <3> QED
      BY <3>2, <3>3
  <2>2. CASE k \notin 1..Len(writes_at[d])
    <3>1. k \in Len(writes_at[d]) + 1..Len(writes_at'[d]) /\ writes_at'[d][k].LRN = n + 1
      BY <1>6, <2>2
    <3>2. CASE j \in 1..Len(writes_at[d])
      <4>1. writes_at'[d][j].LRN \in 1..n
        BY <1>3, <3>2 DEF Adds
      <4> QED
        BY <3>1, <4>1
    <3>3. CASE j \notin 1..Len(writes_at[d])
      <4>1. j \in Len(writes_at[d]) + 1..Len(writes_at'[d]) /\ writes_at'[d][j].LRN = n + 1
        BY <1>6, <3>3
      <4>2. update.dirs = {d} /\ writes_at'[d][j].write_length \in {OldPath, NewPath}
        BY <1>3, <3>1, <4>1 DEF Adds
      <4> QED
        BY <1>2, <3>1, <4>1, <4>2
    <3> QED
      BY <3>2, <3>3
  <2> QED
    BY <2>1, <2>2
<1>9. \A d \in Dirs, i \in 1..n : In(i, d)' <=> In(i, d)
  <2> SUFFICES ASSUME NEW d \in Dirs, NEW i \in 1..n PROVE In(i, d)' <=> In(i, d)
    OBVIOUS
  <2>1. ASSUME In(i, d)' PROVE In(i, d)
    <3>1. PICK k \in 1..Len(writes_at'[d]) : writes_at'[d][k].LRN = i
      BY <2>1 DEF In
    <3>2. i # n + 1
      OBVIOUS
    <3> QED
      BY <1>6, <3>1, <3>2 DEF In
  <2>2. ASSUME In(i, d) PROVE In(i, d)'
    <3>1. PICK k \in 1..Len(writes_at[d]) : writes_at[d][k].LRN = i
      BY <2>2 DEF In
    <3>2. k \in 1..Len(writes_at'[d]) /\ writes_at'[d][k] = writes_at[d][k]
      BY <1>3, <3>1 DEF Adds
    <3> QED
      BY <3>1, <3>2 DEF In
  <2> QED
    BY <2>1, <2>2
<1>10. \A d \in Dirs : In(n + 1, d)' <=> d \in update.dirs
  <2> SUFFICES ASSUME NEW d \in Dirs PROVE In(n + 1, d)' <=> d \in update.dirs
    OBVIOUS
  <2>1. ASSUME In(n + 1, d)' PROVE d \in update.dirs
    <3>1. PICK k \in 1..Len(writes_at'[d]) : writes_at'[d][k].LRN = n + 1
      BY <2>1 DEF In
    <3>2. n + 1 \notin 1..n
      OBVIOUS
    <3> QED
      BY <1>6, <3>1, <3>2
  <2>2. ASSUME d \in update.dirs PROVE In(n + 1, d)'
    <3>1. Len(writes_at'[d]) \in Len(writes_at[d]) + 1..Len(writes_at'[d])
      BY <1>3, <2>2 DEF Adds
    <3>2. Len(writes_at'[d]) \in 1..Len(writes_at'[d])
      BY <1>3, <3>1
    <3>3. writes_at'[d][Len(writes_at'[d])].LRN = n + 1
      BY <1>3, <3>1 DEF Adds
    <3> QED
      BY <3>2, <3>3 DEF In
  <2> QED
    BY <2>1, <2>2
<1>11. \A i \in 1..(n + 1) : i \in 1..n \/ i = n + 1
  OBVIOUS
<1>12. Whole'
  <2> SUFFICES ASSUME NEW d \in Dirs, NEW e \in Dirs, NEW i \in 1..(n + 1),
                      In(i, d)', e \in logged'[i].dirs
               PROVE  In(i, e)'
    BY <1>2 DEF Whole
  <2>1. CASE i \in 1..n
    BY <1>1, <1>2, <1>9, <2>1 DEF IInv, Whole
  <2> QED
    BY <1>2, <1>10, <1>11, <2>1
<1>13. Queued'
  <2> SUFFICES ASSUME NEW d \in Dirs, writes_at'[d] # <<>>
               PROVE  \E p \in 1..Len(files') : files'[p] = d
    BY DEF Queued
  <2>1. CASE writes_at[d] # <<>>
    <3>1. PICK p \in 1..Len(files) : files[p] = d
      BY <2>1 DEF IInv, Queued
    <3> QED
      BY <3>1 DEF Listed
  <2>2. CASE writes_at[d] = <<>>
    <3>1. 1 \in 1..Len(writes_at'[d])
      BY <1>3
    <3>2. d \in update.dirs
      <4>1. 1 \notin 1..Len(writes_at[d])
        BY <2>2
      <4> QED
        BY <1>6, <3>1, <4>1
    <3> QED
      BY <3>2 DEF Has
  <2> QED
    BY <2>1, <2>2
<1>14. \A i \in 1..(n + 1) : Pending(i)'
  <2> SUFFICES ASSUME NEW i \in 1..(n + 1) PROVE \E d \in Dirs : In(i, d)'
    BY DEF Pending, In
  <2>1. CASE i \in 1..n
    <3>1. Pending(i)
      BY <1>1, <2>1 DEF IInv, Progress
    <3>2. PICK d \in Dirs : In(i, d)
      BY <3>1 DEF Pending, In
    <3> QED
      BY <1>9, <2>1, <3>2
  <2>2. CASE i = n + 1
    BY <1>10, <2>2
  <2> QED
    BY <1>11, <2>1, <2>2
<1>15. Progress'
  BY <1>2, <1>4, <1>14 DEF Progress, Applied
<1>16. Ordered'
  BY <1>4 DEF Ordered
<1> QED
  BY <1>5, <1>7, <1>8, <1>12, <1>13, <1>15, <1>16 DEF IInv

\* A record in one list (insert_writes_at).
LEMMA NotesOne ==
    ASSUME NEW n \in Nat, n = Len(logged), writes_at \in [Dirs -> Seq(Records(n))],
           NEW d \in Dirs, NEW update, update.dirs = {d}, NEW code \in Unlink..OldPath,
           code = Creat <=> update.type = "CREAT"
    PROVE  \A e \in Dirs : Adds(writes_at[e], Note(writes_at, d, code)[e], e, update, n + 1)
<1> DEFINE w == Note(writes_at, d, code)
<1>1. w = [writes_at EXCEPT ![d] = Append(writes_at[d], [write_length |-> code, LRN |-> n + 1])]
  BY DEF Note
<1>2. ASSUME NEW e \in Dirs PROVE Adds(writes_at[e], w[e], e, update, n + 1)
  <2>1. CASE e = d
    <3>1. w[e] = Append(writes_at[e], [write_length |-> code, LRN |-> n + 1])
      BY <1>1, <2>1
    <3>2. writes_at[e] \in Seq(Records(n)) /\ e \in update.dirs /\ update.dirs = {e}
      BY <2>1
    <3>3. Adds(writes_at[e], Append(writes_at[e], [write_length |-> code, LRN |-> n + 1]), e, update, n + 1)
      BY <3>2, AddsOne, Zenon
    <3> QED
      BY <3>1, <3>3
  <2>2. CASE e # d
    <3>1. w[e] = writes_at[e] /\ e \notin update.dirs
      BY <1>1, <2>2
    <3> QED
      BY <3>1, AddsNone
  <2> QED
    BY <2>1, <2>2
<1> QED
  BY <1>2

\* A rename in the lists of both directories.
LEMMA NotesTwo ==
    ASSUME NEW n \in Nat, n = Len(logged), writes_at \in [Dirs -> Seq(Records(n))],
           NEW old \in Dirs, NEW new \in Dirs, NEW update, update.dirs = {old, new},
           update.type = "RENAME"
    PROVE  \A e \in Dirs :
             Adds(writes_at[e], Note(Note(writes_at, old, OldPath), new, NewPath)[e], e, update, n + 1)
<1> DEFINE w == Note(Note(writes_at, old, OldPath), new, NewPath)
<1> DEFINE a == [write_length |-> OldPath, LRN |-> n + 1]
           b == [write_length |-> NewPath, LRN |-> n + 1]
           v == [writes_at EXCEPT ![old] = Append(writes_at[old], a)]
<1>1. w = [v EXCEPT ![new] = Append(v[new], b)]
  BY DEF Note
<1>2. /\ OldPath \in Unlink..OldPath /\ NewPath \in Unlink..OldPath /\ OldPath # Creat /\ NewPath # Creat
      /\ OldPath \notin {Creat, Unlink, SamePath} /\ NewPath \notin {Creat, Unlink, SamePath}
  BY DEF OldPath, NewPath, Creat, Unlink, SamePath
<1>3. ASSUME NEW e \in Dirs PROVE Adds(writes_at[e], w[e], e, update, n + 1)
  <2>1. CASE e \notin {old, new}
    <3>1. w[e] = writes_at[e] /\ e \notin update.dirs
      BY <1>1, <2>1
    <3> QED
      BY <3>1, AddsNone
  <2>2. CASE e = old /\ e # new
    <3>1. w[e] = Append(writes_at[e], a)
      BY <1>1, <2>2
    <3>2. writes_at[e] \in Seq(Records(n)) /\ e \in update.dirs /\ ~(update.type = "CREAT")
      BY <2>2
    <3>3. Adds(writes_at[e], Append(writes_at[e], a), e, update, n + 1)
      BY <1>2, <3>2, AddsOne, Zenon
    <3> QED
      BY <3>1, <3>3
  <2>3. CASE e = new /\ e # old
    <3>1. w[e] = Append(writes_at[e], b)
      BY <1>1, <2>3
    <3>2. writes_at[e] \in Seq(Records(n)) /\ e \in update.dirs /\ ~(update.type = "CREAT")
      BY <2>3
    <3>3. Adds(writes_at[e], Append(writes_at[e], b), e, update, n + 1)
      BY <1>2, <3>2, AddsOne, Zenon
    <3> QED
      BY <3>1, <3>3
  <2>4. CASE e = old /\ e = new
    <3>1. w[e] = Append(Append(writes_at[e], a), b) /\ update.dirs = {e}
      BY <1>1, <2>4
    <3> QED
      BY <3>1, AddsTwo
  <2> QED
    BY <2>1, <2>2, <2>3, <2>4
<1> QED
  BY <1>3

\* on_creat, on_unlink and the renames keep the invariant.
LEMMA Calls ==
    ASSUME IInv,
           \/ \E d \in Dirs, mode \in Modes : on_creat(d, mode)
           \/ \E d \in Dirs : on_unlink(d) \/ on_rename_here(d)
           \/ \E old, new \in Dirs : on_rename_across(old, new)
           \/ \E old, new, moved \in Dirs : on_rename_dir(old, new, moved)
    PROVE  IInv'
<1>1. PICK n \in Nat : n = Len(logged)
  <2>1. logged \in Seq(Updates)
    BY DEF IInv, TypeOK
  <2>2. Len(logged) \in Nat
    BY <2>1
  <2> QED
    BY <2>2
<1>2. /\ writes_at \in [Dirs -> Seq(Records(n))]
      /\ files \in Seq(Dirs) /\ \A i, j \in 1..Len(files) : files[i] = files[j] => i = j
  BY <1>1 DEF IInv, TypeOK, Records, LRNs
<1>3. /\ Creat \in Unlink..OldPath /\ Unlink \in Unlink..OldPath /\ SamePath \in Unlink..OldPath
      /\ Creat # Unlink /\ Creat # SamePath
  BY DEF OldPath, Creat, Unlink, SamePath
<1>4. ASSUME NEW d \in Dirs, NEW update \in Updates, Log(update), update.dirs = {d},
             NEW code \in Unlink..OldPath, code = Creat <=> update.type = "CREAT",
             files' = Locked(files, d), writes_at' = Note(writes_at, d, code),
             \A i \in created' : i \in created \/ (i = Len(logged) + 1 /\ update.type = "CREAT")
      PROVE  IInv'
  <2>1. Listed(files, files') /\ Has(files', d)
    BY <1>2, <1>4, LockedLists
  <2>2. /\ writes_at' = [e \in Dirs |-> writes_at'[e]]
        /\ \A e \in Dirs : Adds(writes_at[e], writes_at'[e], e, update, n + 1)
    <3> DEFINE w == Note(writes_at, d, code)
    <3>1. /\ w = [e \in Dirs |-> w[e]]
          /\ \A e \in Dirs : Adds(writes_at[e], w[e], e, update, n + 1)
      <4>1. /\ n = Len(logged) /\ writes_at \in [Dirs -> Seq(Records(n))] /\ update.dirs = {d}
            /\ code = Creat <=> update.type = "CREAT"
        BY <1>1, <1>2, <1>4
      <4> HIDE DEF w
      <4>2. w = [e \in Dirs |-> w[e]]
        BY <4>1 DEF w, Note
      <4>3. ASSUME NEW e \in Dirs PROVE Adds(writes_at[e], w[e], e, update, n + 1)
        BY <4>1, NotesOne DEF w
      <4> QED
        BY <4>2, <4>3
    <3>2. writes_at' = w
      BY <1>4
    <3> HIDE DEF w
    <3> QED
      BY <3>1, <3>2, Zenon
  <2>3. pc = "run" /\ UNCHANGED <<pc, committed, unflagged, at, applied>> /\ logged' = Append(logged, update)
    BY <1>4 DEF Log
  <2>4. (\E e, f \in Dirs : update.dirs = {e, f}) /\ \A e \in update.dirs : Has(files', e)
    BY <1>4, <2>1
  <2> QED
    BY <1>1, <1>4, <2>1, <2>2, <2>3, <2>4, Noted
<1>5. ASSUME NEW old \in Dirs, NEW new \in Dirs,
             Log([type |-> "RENAME", dirs |-> {old, new}]),
             Listed(files, files') /\ Has(files', old) /\ Has(files', new),
             writes_at' = Note(Note(writes_at, old, OldPath), new, NewPath), created' = created
      PROVE  IInv'
  <2> DEFINE update == [type |-> "RENAME", dirs |-> {old, new}]
  <2>1. update \in Updates /\ update.dirs = {old, new} /\ update.type = "RENAME"
    BY DEF Updates
  <2>2. pc = "run" /\ UNCHANGED <<pc, committed, unflagged, at, applied>> /\ logged' = Append(logged, update)
    BY <1>5 DEF Log
  <2> HIDE DEF update
  <2>3. /\ writes_at' = [e \in Dirs |-> writes_at'[e]]
        /\ \A e \in Dirs : Adds(writes_at[e], writes_at'[e], e, update, n + 1)
    <3> DEFINE w == Note(Note(writes_at, old, OldPath), new, NewPath)
    <3>1. /\ w = [e \in Dirs |-> w[e]]
          /\ \A e \in Dirs : Adds(writes_at[e], w[e], e, update, n + 1)
      <4>1. /\ n = Len(logged) /\ writes_at \in [Dirs -> Seq(Records(n))]
            /\ update.dirs = {old, new} /\ update.type = "RENAME"
        BY <1>1, <1>2, <2>1
      <4> HIDE DEF w
      <4>2. w = [e \in Dirs |-> w[e]]
        <5> DEFINE v == Note(writes_at, old, OldPath)
        <5>1. v = [e \in Dirs |-> v[e]]
          BY <4>1 DEF Note
        <5> HIDE DEF v
        <5> QED
          BY <5>1 DEF w, v, Note
      <4>3. ASSUME NEW e \in Dirs PROVE Adds(writes_at[e], w[e], e, update, n + 1)
        BY <4>1, NotesTwo DEF w
      <4> QED
        BY <4>2, <4>3
    <3>2. writes_at' = w
      BY <1>5
    <3> HIDE DEF w
    <3> QED
      BY <3>1, <3>2, Zenon
  <2>4. (\E e, f \in Dirs : update.dirs = {e, f}) /\ \A e \in update.dirs : Has(files', e)
    BY <1>5, <2>1
  <2>5. \A i \in created' : i \in created \/ (i = Len(logged) + 1 /\ update.type = "CREAT")
    <3>1. \A i \in created' : i \in created
      BY <1>5
    <3> QED
      BY <3>1, Zenon
  <2> QED
    BY <1>1, <1>5, <2>1, <2>2, <2>3, <2>4, <2>5, Noted
<1>6. ASSUME NEW d \in Dirs, NEW mode \in Modes, on_creat(d, mode) PROVE IInv'
  <2> DEFINE update == [type |-> "CREAT", dirs |-> {d}, mode |-> mode]
  <2>1. update \in Updates /\ update.dirs = {d} /\ update.type = "CREAT"
    BY DEF Updates
  <2>2. Log(update) /\ files' = Locked(files, d) /\ writes_at' = Note(writes_at, d, Creat)
    BY <1>6 DEF on_creat
  <2>3. \A i \in created' : i \in created \/ (i = Len(logged) + 1 /\ update.type = "CREAT")
    BY <1>6 DEF on_creat
  <2> HIDE DEF update
  <2> QED
    BY <1>3, <1>4, <2>1, <2>2, <2>3
<1>7. ASSUME NEW d \in Dirs, on_unlink(d) PROVE IInv'
  <2> DEFINE update == [type |-> "UNLINK", dirs |-> {d}]
  <2>1. update \in Updates /\ update.dirs = {d} /\ update.type = "UNLINK"
    BY DEF Updates
  <2>2. /\ Log(update) /\ files' = Locked(files, d) /\ writes_at' = Note(writes_at, d, Unlink)
        /\ created' = created
    BY <1>7 DEF on_unlink
  <2>3. \A i \in created' : i \in created \/ (i = Len(logged) + 1 /\ update.type = "CREAT")
    <3>1. \A i \in created' : i \in created
      BY <2>2
    <3> QED
      BY <3>1, Zenon
  <2> HIDE DEF update
  <2> QED
    BY <1>3, <1>4, <2>1, <2>2, <2>3
<1>8. ASSUME NEW d \in Dirs, on_rename_here(d) PROVE IInv'
  <2> DEFINE update == [type |-> "RENAME", dirs |-> {d}]
  <2>1. update \in Updates /\ update.dirs = {d} /\ update.type = "RENAME"
    BY DEF Updates
  <2>2. /\ Log(update) /\ files' = Locked(files, d) /\ writes_at' = Note(writes_at, d, SamePath)
        /\ created' = created
    BY <1>8 DEF on_rename_here
  <2>3. \A i \in created' : i \in created \/ (i = Len(logged) + 1 /\ update.type = "CREAT")
    <3>1. \A i \in created' : i \in created
      BY <2>2
    <3> QED
      BY <3>1, Zenon
  <2> HIDE DEF update
  <2> QED
    BY <1>3, <1>4, <2>1, <2>2, <2>3
<1>9. ASSUME NEW old \in Dirs, NEW new \in Dirs
      PROVE  LET list == Locked(Locked(files, old), new) IN
             /\ Listed(files, list) /\ Has(list, old) /\ Has(list, new)
             /\ list \in Seq(Dirs) /\ \A i, j \in 1..Len(list) : list[i] = list[j] => i = j
  <2> DEFINE one == Locked(files, old)
  <2>1. Listed(files, one) /\ Has(one, old)
    BY <1>2, LockedLists
  <2>2. one \in Seq(Dirs) /\ \A i, j \in 1..Len(one) : one[i] = one[j] => i = j
    BY <2>1 DEF Listed
  <2> HIDE DEF one
  <2> DEFINE two == Locked(one, new)
  <2>3. Listed(one, two) /\ Has(two, new)
    BY <2>2, LockedLists
  <2>4. Listed(files, two) /\ Has(two, old)
    BY <2>1, <2>3, ListedTwice
  <2>5. two \in Seq(Dirs) /\ \A i, j \in 1..Len(two) : two[i] = two[j] => i = j
    BY <2>4 DEF Listed
  <2> QED
    BY <2>3, <2>4, <2>5 DEF one
<1>10. ASSUME NEW old \in Dirs, NEW new \in Dirs, on_rename_across(old, new) PROVE IInv'
  <2>1. /\ Log([type |-> "RENAME", dirs |-> {old, new}])
        /\ files' = Locked(Locked(files, old), new)
        /\ writes_at' = Note(Note(writes_at, old, OldPath), new, NewPath)
        /\ created' = created
    BY <1>10 DEF on_rename_across
  <2>2. Listed(files, files') /\ Has(files', old) /\ Has(files', new)
    BY <1>9, <2>1
  <2> QED
    BY <1>5, <2>1, <2>2
<1>11. ASSUME NEW old \in Dirs, NEW new \in Dirs, NEW moved \in Dirs, on_rename_dir(old, new, moved)
       PROVE  IInv'
  <2> DEFINE two == Locked(Locked(files, old), new)
  <2>1. /\ Log([type |-> "RENAME", dirs |-> {old, new}])
        /\ files' = Locked(two, moved)
        /\ writes_at' = Note(Note(writes_at, old, OldPath), new, NewPath)
        /\ created' = created
    BY <1>11 DEF on_rename_dir
  <2>2. /\ Listed(files, two) /\ Has(two, old) /\ Has(two, new)
        /\ two \in Seq(Dirs) /\ \A i, j \in 1..Len(two) : two[i] = two[j] => i = j
    BY <1>9
  <2> HIDE DEF two
  <2>3. Listed(two, files') /\ Has(files', moved)
    BY <2>1, <2>2, LockedLists
  <2>4. Listed(files, files') /\ Has(files', old) /\ Has(files', new)
    BY <2>2, <2>3, ListedTwice
  <2> QED
    BY <1>5, <2>1, <2>4
<1> QED
  BY <1>6, <1>7, <1>8, <1>10, <1>11

\* A lock that on_stat takes adds a node, and no update is applied yet.
LEMMA Stats == ASSUME IInv, NEW d \in Dirs, on_stat(d) PROVE IInv'
<1>1. /\ pc = "run" /\ files' = Append(files, d) /\ unflagged' = unflagged \cup {d}
      /\ UNCHANGED <<pc, committed, at, writes_at, logged, created, applied>>
      /\ d \notin ToSet(files)
  BY DEF on_stat
<1>2. files \in Seq(Dirs) /\ \A i, j \in 1..Len(files) : files[i] = files[j] => i = j
  BY DEF IInv, TypeOK
<1>3. Locked(files, d) = files'
  <2>1. ~\E i \in 1..Len(files) : files[i] = d
    BY <1>1, <1>2 DEF ToSet
  <2> QED
    BY <1>1, <2>1 DEF Locked
<1>4. Listed(files, files') /\ Has(files', d)
  BY <1>2, <1>3, LockedLists
<1>5. applied = <<>> /\ at = 1 /\ ~committed
  BY <1>1 DEF IInv, Progress
<1>6. TypeOK'
  <2>1. files' \in Seq(Dirs) /\ \A i, j \in 1..Len(files') : files'[i] = files'[j] => i = j
    BY <1>4 DEF Listed
  <2>2. unflagged \subseteq ToSet(files')
    BY <1>2, <1>4, UnflaggedListed DEF IInv, TypeOK
  <2>3. d \in ToSet(files')
    BY <1>4, <2>1 DEF Has, ToSet
  <2>4. at \in 1..Len(files') + 1
    BY <1>5, <2>1
  <2>5. unflagged' \subseteq ToSet(files') /\ LRNs' = LRNs
    BY <1>1, <2>2, <2>3 DEF LRNs
  <2> QED
    BY <1>1, <2>1, <2>4, <2>5 DEF IInv, TypeOK
<1>7. Right' /\ Sorted' /\ Whole'
  <2>1. Right' /\ Sorted'
    <3>1. Right' <=> Right
      BY <1>1 DEF Right
    <3>2. Sorted' <=> Sorted
      BY <1>1 DEF Sorted
    <3> QED
      BY <3>1, <3>2 DEF IInv
  <2>2. Whole'
    BY <1>1 DEF IInv, Whole, In, LRNs
  <2> QED
    BY <2>1, <2>2
<1>8. Queued'
  <2> SUFFICES ASSUME NEW e \in Dirs, writes_at[e] # <<>> PROVE \E p \in 1..Len(files') : files'[p] = e
    BY <1>1 DEF Queued
  <2>1. PICK p \in 1..Len(files) : files[p] = e
    BY DEF IInv, Queued
  <2> QED
    BY <1>4, <2>1 DEF Listed
<1>9. Progress'
  <2>1. \A i : ~Applied(i)' /\ (Pending(i)' <=> Pending(i))
    BY <1>1, <1>5 DEF Applied, Pending
  <2>2. \A i \in LRNs : Pending(i)
    BY <1>1 DEF IInv, Progress
  <2>3. LRNs' = LRNs
    BY <1>1 DEF LRNs
  <2> QED
    BY <1>1, <1>5, <2>1, <2>2, <2>3 DEF Progress
<1>10. Ordered'
  BY <1>1, <1>5 DEF Ordered
<1> QED
  BY <1>6, <1>7, <1>8, <1>9, <1>10 DEF IInv

(***************************************************************************)
(* The release applies an update.                                          *)
(***************************************************************************)

\* The place of an update is that of its first directory.
LEMMA PlaceAt ==
    ASSUME NEW i, NEW len \in Nat, len = Len(files), NEW p \in 1..len, files[p] \in logged[i].dirs,
           \A q \in 1..p - 1 : files[q] \notin logged[i].dirs
    PROVE  Place(i) = p
<1> DEFINE Is(x) == files[x] \in logged[i].dirs /\ \A q \in 1..x - 1 : files[q] \notin logged[i].dirs
<1>1. Place(i) = CHOOSE x \in 1..len : Is(x)
  BY DEF Place
<1>2. \A x \in 1..len : Is(x) => x = p
  <2> SUFFICES ASSUME NEW x \in 1..len, Is(x), x # p PROVE FALSE
    OBVIOUS
  <2>1. x \in 1..p - 1 \/ p \in 1..x - 1
    OBVIOUS
  <2> QED
    BY <2>1
<1>3. Is(p)
  OBVIOUS
<1> HIDE DEF Is
<1> QED
  BY <1>1, <1>2, <1>3

\* Where there is a first record, it is of the oldest update of the node.
LEMMA HeadRecord ==
    ASSUME IInv, pc = "release", at <= Len(files), writes_at[files[at]] # <<>>
    PROVE  /\ files[at] \in Dirs /\ lrn \in LRNs
           /\ In(lrn, files[at]) /\ files[at] \in logged[lrn].dirs
           /\ \A k \in 1..Len(writes_at[files[at]]) : lrn <= writes_at[files[at]][k].LRN
           /\ 1 \in 1..Len(writes_at[files[at]])
           /\ Head(writes_at[files[at]]) = writes_at[files[at]][1]
           /\ lrn = writes_at[files[at]][1].LRN
<1>1. PICK len \in Nat, n \in Nat :
        len = Len(files) /\ n = Len(logged) /\ LRNs = 1..n /\ at \in 1..len
  <2>1. logged \in Seq(Updates) /\ files \in Seq(Dirs) /\ at \in 1..Len(files) + 1
    BY DEF IInv, TypeOK
  <2>2. Len(logged) \in Nat /\ Len(files) \in Nat
    BY <2>1
  <2> QED
    BY <2>1, <2>2 DEF LRNs
<1>2. PICK d \in Dirs : d = files[at]
  BY <1>1 DEF IInv, TypeOK
<1>3. PICK s \in Seq(Records(n)) : s = writes_at[d]
  BY <1>1 DEF IInv, TypeOK, Records
<1>4. s # <<>> /\ Head(s) = s[1] /\ 1 \in 1..Len(s) /\ s[1] \in Records(n)
  BY <1>2, <1>3
<1>5. PICK l \in 1..n : l = lrn /\ l = s[1].LRN
  BY <1>2, <1>3, <1>4 DEF lrn, Records
<1>6. In(l, d)
  BY <1>3, <1>4, <1>5 DEF In
<1>7. d \in logged[l].dirs
  BY <1>3, <1>4, <1>5 DEF IInv, Right
<1>8. \A k \in 1..Len(s) : l <= s[k].LRN
  <2> SUFFICES ASSUME NEW k \in 1..Len(s), k # 1 PROVE l <= s[k].LRN
    BY <1>5
  <2>1. s[1].LRN < s[k].LRN \/ s[1].LRN = s[k].LRN
    BY <1>3, <1>4 DEF IInv, Sorted
  <2>2. s[k].LRN \in 1..n
    <3>1. s[k] \in Records(n)
      OBVIOUS
    <3> QED
      BY <3>1 DEF Records
  <2> QED
    BY <1>5, <2>1, <2>2
<1>10. lrn = l /\ files[at] = d /\ writes_at[files[at]] = s
  BY <1>2, <1>3, <1>5
<1>11. s[1].LRN = l /\ Head(s) = s[1] /\ 1 \in 1..Len(s)
  BY <1>4, <1>5
<1>12. l \in LRNs
  BY <1>1
<1> HIDE DEF lrn
<1> QED
  BY <1>6, <1>7, <1>8, <1>10, <1>11, <1>12, Zenon

\* A record is gone from all lists.
LEMMA Gone ==
    ASSUME NEW i, \A e \in Dirs : Shrinks(writes_at[e], writes_at'[e], i)
    PROVE  /\ \A e \in Dirs : \A j : In(j, e)' <=> In(j, e) /\ j # i
           /\ \A j : Pending(j)' <=> Pending(j) /\ j # i
<1>1. ASSUME NEW e \in Dirs, NEW j PROVE In(j, e)' <=> In(j, e) /\ j # i
  <2>1. Shrinks(writes_at[e], writes_at'[e], i)
    OBVIOUS
  <2>2. In(j, e)' => In(j, e) /\ j # i
    <3> SUFFICES ASSUME In(j, e)' PROVE In(j, e) /\ j # i
      OBVIOUS
    <3>1. PICK k \in 1..Len(writes_at'[e]) : writes_at'[e][k].LRN = j
      BY DEF In
    <3>2. writes_at'[e][k].LRN # i /\ \E m \in 1..Len(writes_at[e]) : writes_at'[e][k] = writes_at[e][m]
      BY <2>1 DEF Shrinks
    <3> QED
      BY <3>1, <3>2 DEF In
  <2>3. In(j, e) /\ j # i => In(j, e)'
    <3> SUFFICES ASSUME In(j, e), j # i PROVE In(j, e)'
      OBVIOUS
    <3>1. PICK k \in 1..Len(writes_at[e]) : writes_at[e][k].LRN = j
      BY DEF In
    <3>2. \E m \in 1..Len(writes_at'[e]) : writes_at'[e][m] = writes_at[e][k]
      BY <2>1, <3>1 DEF Shrinks
    <3> QED
      BY <3>1, <3>2 DEF In
  <2> QED
    BY <2>2, <2>3
<1>2. \A j : (Pending(j) <=> \E e \in Dirs : In(j, e)) /\ (Pending(j)' <=> \E e \in Dirs : In(j, e)')
  BY DEF Pending, In
<1> QED
  BY <1>1, <1>2

\* Where an update is placed does not change while the release goes on.
LEMMA PlaceStays ==
    ASSUME UNCHANGED <<files, unflagged, logged>>
    PROVE  \A j : Place(j)' = Place(j) /\ (NeverApplied(j)' <=> NeverApplied(j))
BY DEF Place, NeverApplied

\* What comes after the first record of the node has a larger LRN and is left,
\* and so IInv survives when all records of the first one's update are gone.
LEMMA Released ==
    ASSUME IInv, pc = "release",
           UNCHANGED <<pc, committed, files, unflagged, at, logged, created>>,
           at <= Len(files), writes_at[files[at]] # <<>>,
           \A q \in 1..at - 1 : files[q] \notin logged[lrn].dirs,
           writes_at' \in [Dirs -> Seq(Records(Len(logged)))],
           \A e \in Dirs : Shrinks(writes_at[e], writes_at'[e], lrn),
           \/ ~NeverApplied(lrn) /\ applied' = Append(applied, lrn)
           \/ NeverApplied(lrn) /\ applied' = applied
    PROVE  IInv'
<1>1. PICK l : l = lrn
  OBVIOUS
<1>2. /\ files[at] \in Dirs /\ l \in LRNs /\ Place(l) = at
      /\ In(l, files[at]) /\ files[at] \in logged[l].dirs
      /\ \A k \in 1..Len(writes_at[files[at]]) : l <= writes_at[files[at]][k].LRN
      /\ 1 \in 1..Len(writes_at[files[at]])
      /\ l = writes_at[files[at]][1].LRN
  <2>1. /\ files[at] \in Dirs /\ l \in LRNs
        /\ In(l, files[at]) /\ files[at] \in logged[l].dirs
        /\ \A k \in 1..Len(writes_at[files[at]]) : l <= writes_at[files[at]][k].LRN
        /\ 1 \in 1..Len(writes_at[files[at]])
        /\ l = writes_at[files[at]][1].LRN
    BY <1>1, HeadRecord, Zenon
  <2>2. PICK m \in Nat : m = Len(files) /\ at \in 1..m
    <3>1. files \in Seq(Dirs) /\ at \in 1..Len(files) + 1
      BY DEF IInv, TypeOK
    <3>2. Len(files) \in Nat
      BY <3>1
    <3> QED
      BY <3>1, <3>2
  <2>3. \A q \in 1..at - 1 : files[q] \notin logged[l].dirs
    BY <1>1
  <2>4. Place(l) = at
    BY <2>1, <2>2, <2>3, PlaceAt
  <2> QED
    BY <2>1, <2>4, Zenon
<1>3. PICK n \in Nat : n = Len(logged) /\ LRNs = 1..n /\ LRNs' = 1..n
  <2>1. logged \in Seq(Updates)
    BY DEF IInv, TypeOK
  <2>2. Len(logged) \in Nat
    BY <2>1
  <2> QED
    BY <2>2 DEF LRNs
<1>4. \A e \in Dirs : Shrinks(writes_at[e], writes_at'[e], l)
  BY <1>1
<1>5. /\ \A e \in Dirs : \A j : In(j, e)' <=> In(j, e) /\ j # l
      /\ \A j : Pending(j)' <=> Pending(j) /\ j # l
  BY <1>4, Gone, Zenon
<1>6. PICK len \in Nat : len = Len(applied) /\ applied \in Seq(LRNs)
  <2>1. applied \in Seq(LRNs)
    BY DEF IInv, TypeOK
  <2>2. Len(applied) \in Nat
    BY <2>1
  <2> QED
    BY <2>1, <2>2
<1>7. \/ ~NeverApplied(l) /\ applied' = Append(applied, l)
      \/ NeverApplied(l) /\ applied' = applied
  BY <1>1
<1>8. /\ applied' \in Seq(LRNs)
      /\ Len(applied') = IF NeverApplied(l) THEN len ELSE len + 1
      /\ \A a \in 1..len : applied'[a] = applied[a]
      /\ ~NeverApplied(l) => applied'[len + 1] = l
  <2>1. CASE NeverApplied(l)
    BY <1>6, <1>7, <2>1
  <2>2. CASE ~NeverApplied(l)
    <3>1. applied' = Append(applied, l)
      BY <1>7, <2>2
    <3> HIDE <2>2
    <3>2. /\ applied' \in Seq(LRNs) /\ Len(applied') = len + 1
          /\ \A a \in 1..len : applied'[a] = applied[a]
          /\ applied'[len + 1] = l
      BY <1>2, <1>6, <3>1
    <3> QED
      BY <2>2, <3>2
  <2> QED
    BY <2>1, <2>2
<1>9. \A j : Place(j)' = Place(j) /\ (NeverApplied(j)' <=> NeverApplied(j))
  BY PlaceStays, Zenon
<1>10. \A i : Applied(i)' <=> Applied(i) \/ (i = l /\ ~NeverApplied(l))
  <2> SUFFICES ASSUME NEW i PROVE Applied(i)' <=> Applied(i) \/ (i = l /\ ~NeverApplied(l))
    OBVIOUS
  <2>1. CASE NeverApplied(l)
    <3>1. applied' = applied
      BY <1>7, <2>1
    <3>2. Applied(i)' <=> Applied(i)
      BY <3>1 DEF Applied
    <3> QED
      BY <2>1, <3>2, Zenon
  <2>2. CASE ~NeverApplied(l)
    <3>1. Len(applied') = len + 1 /\ applied'[len + 1] = l
      BY <1>8, <2>2
    <3>2. (\E a \in 1..len + 1 : applied'[a] = i) <=> (\E a \in 1..len : applied[a] = i) \/ i = l
      BY <1>8, <3>1
    <3> QED
      BY <1>6, <2>2, <3>1, <3>2 DEF Applied
  <2> QED
    BY <2>1, <2>2
<1>11. TypeOK'
  <2>1. writes_at' \in [Dirs -> Seq([write_length : Unlink..OldPath, LRN : LRNs'])]
    BY <1>3 DEF Records
  <2>2. applied' \in Seq(LRNs')
    BY <1>3, <1>8
  <2>3. created' \subseteq {i \in LRNs' : logged'[i].type = "CREAT"}
    BY <1>3 DEF IInv, TypeOK
  <2> QED
    BY <2>1, <2>2, <2>3 DEF IInv, TypeOK
<1>12. Right'
  <2> SUFFICES ASSUME NEW d \in Dirs, NEW k \in 1..Len(writes_at'[d])
               PROVE LET r == writes_at'[d][k]
                         update == logged[r.LRN] IN
                     /\ d \in update.dirs /\ \E e \in Dirs : update.dirs = {d, e}
                     /\ r.write_length \in {Creat, Unlink, SamePath} => update.dirs = {d}
                     /\ r.write_length = Creat <=> update.type = "CREAT"
    BY DEF Right
  <2>1. PICK m \in 1..Len(writes_at[d]) : writes_at'[d][k] = writes_at[d][m]
    BY <1>4 DEF Shrinks
  <2>2. LET r == writes_at[d][m]
            update == logged[r.LRN] IN
        /\ d \in update.dirs /\ \E e \in Dirs : update.dirs = {d, e}
        /\ r.write_length \in {Creat, Unlink, SamePath} => update.dirs = {d}
        /\ r.write_length = Creat <=> update.type = "CREAT"
    BY DEF IInv, Right
  <2> QED
    BY <2>1, <2>2, Zenon
<1>13. Sorted'
  <2> SUFFICES ASSUME NEW d \in Dirs, NEW j \in 1..Len(writes_at'[d]), NEW k \in 1..Len(writes_at'[d]), j < k
               PROVE \/ writes_at'[d][j].LRN < writes_at'[d][k].LRN
                     \/ /\ writes_at'[d][j].LRN = writes_at'[d][k].LRN
                        /\ logged[writes_at'[d][j].LRN].dirs = {d}
                        /\ writes_at'[d][j].write_length \in {OldPath, NewPath}
    BY DEF Sorted
  <2>1. PICK x \in 1..Len(writes_at[d]), y \in 1..Len(writes_at[d]) :
           x < y /\ writes_at'[d][j] = writes_at[d][x] /\ writes_at'[d][k] = writes_at[d][y]
    BY <1>4 DEF Shrinks
  <2>2. \/ writes_at[d][x].LRN < writes_at[d][y].LRN
        \/ /\ writes_at[d][x].LRN = writes_at[d][y].LRN
           /\ logged[writes_at[d][x].LRN].dirs = {d}
           /\ writes_at[d][x].write_length \in {OldPath, NewPath}
    BY <2>1 DEF IInv, Sorted
  <2> QED
    BY <2>1, <2>2, Zenon
<1>14. Whole'
  BY <1>3, <1>5 DEF IInv, Whole
<1>15. Queued'
  <2> SUFFICES ASSUME NEW d \in Dirs, writes_at'[d] # <<>>
               PROVE \E p \in 1..Len(files) :
                       files[p] = d /\ (pc = "release" => at <= p \/ d \in unflagged)
    BY DEF Queued
  <2>1. writes_at'[d] \in Seq(Records(n))
    BY <1>3
  <2>2. 1 \in 1..Len(writes_at'[d])
    BY <2>1
  <2>3. \E m \in 1..Len(writes_at[d]) : writes_at'[d][1] = writes_at[d][m]
    BY <1>4, <2>2 DEF Shrinks
  <2>4. writes_at[d] # <<>>
    BY <2>3
  <2> QED
    BY <2>4 DEF IInv, Queued
<1>16. Progress'
  <2>1. committed /\ Sound /\ l \in LRNs
    BY <1>2 DEF IInv, Progress, Sound
  <2>2. ASSUME NEW i \in LRNs
        PROVE  /\ Applied(i)' => ~NeverApplied(i)'
               /\ Applied(i)' => ~Pending(i)'
               /\ ~NeverApplied(i)' => Applied(i)' \/ Pending(i)'
    <3>1. /\ Applied(i) => ~NeverApplied(i)
          /\ Applied(i) => ~Pending(i)
          /\ ~NeverApplied(i) => Applied(i) \/ Pending(i)
      BY <2>1 DEF IInv, Progress
    <3>2. Applied(i)' <=> Applied(i) \/ (i = l /\ ~NeverApplied(l))
      BY <1>10, Zenon
    <3>3. Pending(i)' <=> Pending(i) /\ i # l
      BY <1>5, Zenon
    <3>4. NeverApplied(i)' <=> NeverApplied(i)
      BY <1>9, Zenon
    <3>5. CASE i = l
      BY <3>1, <3>2, <3>3, <3>4, <3>5, Zenon
    <3>6. CASE i # l
      BY <3>1, <3>2, <3>3, <3>4, <3>6, Zenon
    <3> QED
      BY <3>5, <3>6, Zenon
  <2>3. pc' = "release" /\ committed' /\ LRNs' = LRNs
    BY <1>3, <2>1
  <2> QED
    BY <2>2, <2>3, Zenon DEF Progress
<1>17. Ordered'
  <2>1. Sound /\ at \in Nat
    <3>1. at \in 1..Len(files) + 1
      BY DEF IInv, TypeOK
    <3> QED
      BY <3>1 DEF Sound
  <2>2. \A a, b \in 1..len : a < b => Before(applied[a], applied[b])
    BY <1>6, <2>1 DEF IInv, Ordered
  <2>3. \A a \in 1..len :
          /\ Place(applied[a]) \in Nat /\ Place(applied[a]) <= at
          /\ Place(applied[a]) = at =>
               \A k \in 1..Len(writes_at[files[at]]) : applied[a] < writes_at[files[at]][k].LRN
    BY <1>6 DEF IInv, Ordered
  <2>4. \A a \in 1..len : Before(applied[a], l)
    BY <1>2, <2>1, <2>3 DEF Before
  <2>5. \A i, j : Before(i, j)' <=> Before(i, j)
    BY <1>9 DEF Before
  <2>6. ASSUME NEW a \in 1..Len(applied'), NEW b \in 1..Len(applied'), a < b
        PROVE  Before(applied'[a], applied'[b])
    <3>1. a \in 1..len
      <4>1. Len(applied') = len + 1 \/ Len(applied') = len
        BY <1>8
      <4> QED
        BY <1>6, <2>6, <4>1
    <3>2. CASE b \in 1..len
      BY <1>8, <2>2, <2>6, <3>1, <3>2
    <3>3. CASE b \notin 1..len
      <4>1. b = len + 1 /\ ~NeverApplied(l)
        BY <1>6, <1>8, <3>3
      <4>2. applied'[b] = l /\ applied'[a] = applied[a]
        BY <1>8, <3>1, <4>1
      <4> QED
        BY <2>4, <3>1, <4>2
    <3> QED
      BY <3>2, <3>3
  <2>7. ASSUME NEW a \in 1..Len(applied')
        PROVE  /\ Place(applied'[a]) \in Nat /\ Place(applied'[a]) <= at
               /\ Place(applied'[a]) = at =>
                    \A k \in 1..Len(writes_at'[files[at]]) : applied'[a] < writes_at'[files[at]][k].LRN
    <3>1. \A k \in 1..Len(writes_at'[files[at]]) :
            /\ writes_at'[files[at]][k].LRN # l
            /\ \E m \in 1..Len(writes_at[files[at]]) : writes_at'[files[at]][k] = writes_at[files[at]][m]
      BY <1>2, <1>4 DEF Shrinks
    <3>2. CASE a \in 1..len
      BY <1>8, <2>3, <3>1, <3>2
    <3>3. CASE a \notin 1..len
      <4>1. a = len + 1 /\ ~NeverApplied(l)
        BY <1>6, <1>8, <3>3
      <4>2. applied'[a] = l
        BY <1>8, <4>1
      <4>3. \A k \in 1..Len(writes_at'[files[at]]) : l < writes_at'[files[at]][k].LRN
        <5> SUFFICES ASSUME NEW k \in 1..Len(writes_at'[files[at]]) PROVE l < writes_at'[files[at]][k].LRN
          OBVIOUS
        <5>1. PICK m \in 1..Len(writes_at[files[at]]) : writes_at'[files[at]][k] = writes_at[files[at]][m]
          BY <3>1
        <5>2. writes_at[files[at]][m] \in Records(n)
          <6>1. writes_at[files[at]] \in Seq(Records(n))
            BY <1>2, <1>3 DEF IInv, TypeOK, Records
          <6> QED
            BY <6>1
        <5>3. PICK x \in 1..n : x = writes_at[files[at]][m].LRN
          BY <5>2 DEF Records
        <5>4. x # l /\ l <= x /\ l \in 1..n
          BY <1>2, <1>3, <3>1, <5>1, <5>3
        <5> QED
          BY <5>1, <5>3, <5>4
      <4> QED
        BY <1>2, <2>1, <4>2, <4>3
    <3> QED
      BY <3>2, <3>3
  <2>8. \A i : Place(i)' = Place(i)
    BY <1>9
  <2>9. \A a, b \in 1..Len(applied') : a < b => Before(applied[a], applied[b])'
    BY <2>6, <2>8 DEF Before
  <2>10. ASSUME NEW a \in 1..Len(applied')
         PROVE /\ Place(applied[a])' \in Nat /\ Place(applied[a])' <= at
               /\ Place(applied[a])' = at =>
                    \A k \in 1..Len(writes_at'[files[at]]) : applied'[a] < writes_at'[files[at]][k].LRN
    BY <2>7, <2>8
  <2> QED
    BY <2>9, <2>10 DEF Ordered
<1> QED
  BY <1>11, <1>12, <1>13, <1>14, <1>15, <1>16, <1>17 DEF IInv

\* What is left when the first record goes, the only one of its update.
LEMMA ShrinksTail ==
    ASSUME NEW S, NEW s \in Seq(S), s # <<>>, NEW i, \A k \in 1..Len(s) : s[k].LRN = i <=> k = 1
    PROVE  Shrinks(s, Tail(s), i) /\ Tail(s) \in Seq(S)
<1>1. PICK len \in Nat : len = Len(s) /\ len > 0
  OBVIOUS
<1>2. PICK t : t = Tail(s)
  OBVIOUS
<1>3. t \in Seq(S) /\ Len(t) = len - 1 /\ \A j \in 1..(len - 1) : t[j] = s[j + 1]
  BY <1>1, <1>2
<1>4. \A j \in 1..(len - 1) : t[j].LRN # i /\ \E k \in 1..len : t[j] = s[k]
  BY <1>1, <1>3
<1>5. \A j, k \in 1..(len - 1) : j < k => \E l, m \in 1..len : l < m /\ t[j] = s[l] /\ t[k] = s[m]
  <2> SUFFICES ASSUME NEW j \in 1..(len - 1), NEW k \in 1..(len - 1), j < k
               PROVE \E l, m \in 1..len : l < m /\ t[j] = s[l] /\ t[k] = s[m]
    OBVIOUS
  <2>1. j + 1 \in 1..len /\ k + 1 \in 1..len /\ j + 1 < k + 1
    OBVIOUS
  <2> QED
    BY <1>3, <2>1
<1>6. \A k \in 1..len : s[k].LRN # i => \E j \in 1..(len - 1) : t[j] = s[k]
  <2> SUFFICES ASSUME NEW k \in 1..len, k # 1 PROVE \E j \in 1..(len - 1) : t[j] = s[k]
    BY <1>1
  <2>1. k - 1 \in 1..(len - 1) /\ k - 1 + 1 = k
    OBVIOUS
  <2> QED
    BY <1>3, <2>1
<1> QED
  BY <1>1, <1>2, <1>3, <1>4, <1>5, <1>6 DEF Shrinks

\* Every record of an update is in one of its directories, once there unless the
\* update has only that directory.
LEMMA Once ==
    ASSUME IInv, NEW d \in Dirs, NEW j \in 1..Len(writes_at[d])
    PROVE  /\ d \in logged[writes_at[d][j].LRN].dirs
           /\ \E e \in Dirs : logged[writes_at[d][j].LRN].dirs = {d, e}
           /\ writes_at[d][j].write_length \in {Creat, Unlink, SamePath} =>
                logged[writes_at[d][j].LRN].dirs = {d}
           /\ writes_at[d][j].write_length = Creat <=> logged[writes_at[d][j].LRN].type = "CREAT"
           /\ logged[writes_at[d][j].LRN].dirs # {d} =>
                \A k \in 1..Len(writes_at[d]) : writes_at[d][k].LRN = writes_at[d][j].LRN => k = j
<1>1. LET r == writes_at[d][j]
          update == logged[r.LRN] IN
      /\ d \in update.dirs /\ \E e \in Dirs : update.dirs = {d, e}
      /\ r.write_length \in {Creat, Unlink, SamePath} => update.dirs = {d}
      /\ r.write_length = Creat <=> update.type = "CREAT"
  BY DEF IInv, Right
<1>2. ASSUME logged[writes_at[d][j].LRN].dirs # {d}, NEW k \in 1..Len(writes_at[d]),
             writes_at[d][k].LRN = writes_at[d][j].LRN, k # j
      PROVE  FALSE
  <2>1. PICK n \in Nat : n = Len(logged) /\ LRNs = 1..n
    <3>1. logged \in Seq(Updates)
      BY DEF IInv, TypeOK
    <3>2. Len(logged) \in Nat
      BY <3>1
    <3> QED
      BY <3>2 DEF LRNs
  <2>2. writes_at[d] \in Seq(Records(n))
    BY <2>1 DEF IInv, TypeOK, Records
  <2>3. PICK x \in 1..n : x = writes_at[d][j].LRN
    <3>1. writes_at[d][j] \in Records(n)
      BY <2>2
    <3> QED
      BY <3>1 DEF Records
  <2>4. CASE j < k
    BY <1>2, <2>3, <2>4 DEF IInv, Sorted
  <2>5. CASE k < j
    BY <1>2, <2>3, <2>5 DEF IInv, Sorted
  <2> QED
    BY <1>2, <2>4, <2>5
<1> QED
  BY <1>1, <1>2

\* A set of naturals has a least element, and First picks it.
LEMMA FirstIn ==
    ASSUME NEW S, S \subseteq Nat, S # {}
    PROVE  First(S) \in S
<1>1. IsWellFoundedOn(OpToRel(<, Nat), Nat)
  BY NatLessThanWellFounded
<1> DEFINE R == {p \in Nat \X Nat : p[1] < p[2]}
<1>2. R = OpToRel(<, Nat)
  BY DEF OpToRel
<1>3. IsWellFoundedOn(R, Nat)
  BY <1>1, <1>2
<1>4. \A x, y \in Nat : x < y => <<x, y>> \in R
  OBVIOUS
<1> HIDE DEF R
<1>5. PICK x \in S : \A y \in S : ~(<<y, x>> \in R)
  BY <1>3, WFMin
<1>6. \A y \in S : x <= y
  <2> SUFFICES ASSUME NEW y \in S, ~(x <= y) PROVE FALSE
    OBVIOUS
  <2>1. x \in Nat /\ y \in Nat
    BY <1>5
  <2>2. y < x
    BY <2>1
  <2> QED
    BY <1>4, <1>5, <2>1, <2>2
<1> QED
  BY <1>5, <1>6 DEF First

\* An update of one directory: it has one record, the first of the node's.
LEMMA ReleasedOne ==
    ASSUME IInv, AtRecord({Creat, Unlink, SamePath}),
           UNCHANGED <<pc, committed, files, unflagged, at, logged, created>>,
           writes_at' = Advance(writes_at),
           \/ ~NeverApplied(lrn) /\ applied' = Append(applied, lrn)
           \/ NeverApplied(lrn) /\ applied' = applied
    PROVE  IInv'
<1>1. /\ pc = "release" /\ at <= Len(files) /\ writes_at[files[at]] # <<>>
      /\ Head(writes_at[files[at]]).write_length \in {Creat, Unlink, SamePath}
  BY DEF AtRecord
<1>2. PICK d \in Dirs, l \in LRNs : d = files[at] /\ l = lrn
  BY <1>1, HeadRecord, Zenon
<1>3. /\ 1 \in 1..Len(writes_at[d])
      /\ Head(writes_at[d]) = writes_at[d][1]
      /\ writes_at[d][1].LRN = l
  BY <1>1, <1>2, HeadRecord, Zenon
<1>4. logged[l].dirs = {d}
  <2>1. writes_at[d][1].write_length \in {Creat, Unlink, SamePath}
    BY <1>1, <1>2, <1>3
  <2> QED
    BY <1>3, <2>1, Once
<1>5. \A k \in 1..Len(writes_at[d]) : writes_at[d][k].LRN = l <=> k = 1
  <2> SUFFICES ASSUME NEW k \in 1..Len(writes_at[d]), writes_at[d][k].LRN = l, k # 1 PROVE FALSE
    BY <1>3
  <2>1. /\ writes_at[d][1].LRN < writes_at[d][k].LRN \/ writes_at[d][1].write_length \in {OldPath, NewPath}
        /\ 1 < k
    BY <1>3 DEF IInv, Sorted
  <2>2. writes_at[d][1].write_length \in {Creat, Unlink, SamePath}
    BY <1>1, <1>2, <1>3
  <2>3. l \in Nat
    BY <1>2 DEF LRNs
  <2> QED
    BY <1>3, <2>1, <2>2, <2>3 DEF OldPath, NewPath, SamePath, Creat, Unlink
<1>6. PICK n \in Nat : n = Len(logged) /\ LRNs = 1..n
  <2>1. logged \in Seq(Updates)
    BY DEF IInv, TypeOK
  <2>2. Len(logged) \in Nat
    BY <2>1
  <2> QED
    BY <2>2 DEF LRNs
<1>7. writes_at \in [Dirs -> Seq(Records(n))]
  BY <1>6 DEF IInv, TypeOK, Records
<1>8. writes_at[d] \in Seq(Records(n)) /\ writes_at[d] # <<>>
  BY <1>1, <1>2, <1>7
<1>9. Shrinks(writes_at[d], Tail(writes_at[d]), l) /\ Tail(writes_at[d]) \in Seq(Records(n))
  BY <1>5, <1>8, ShrinksTail
<1>10. writes_at' = [writes_at EXCEPT ![d] = Tail(writes_at[d])]
  BY <1>2 DEF Advance
<1>11. writes_at' \in [Dirs -> Seq(Records(n))]
  BY <1>7, <1>9, <1>10
<1>12. ASSUME NEW e \in Dirs PROVE Shrinks(writes_at[e], writes_at'[e], l)
  <2>1. CASE e = d
    <3>1. writes_at'[e] = Tail(writes_at[d])
      BY <1>7, <1>10, <2>1
    <3> QED
      BY <1>9, <2>1, <3>1
  <2>2. CASE e # d
    <3>1. writes_at'[e] = writes_at[e]
      BY <1>7, <1>10, <2>2
    <3>2. \A k \in 1..Len(writes_at[e]) : writes_at[e][k].LRN # l
      <4> SUFFICES ASSUME NEW k \in 1..Len(writes_at[e]), writes_at[e][k].LRN = l PROVE FALSE
        OBVIOUS
      <4>1. e \in logged[l].dirs
        BY Once
      <4> QED
        BY <1>4, <2>2, <4>1
    <3>3. writes_at[e] \in Seq(Records(n))
      BY <1>7
    <3>4. Shrinks(writes_at[e], writes_at[e], l)
      BY <3>2, <3>3, ShrinksNot
    <3> QED
      BY <3>1, <3>4
  <2> QED
    BY <2>1, <2>2
<1>13. /\ writes_at' \in [Dirs -> Seq(Records(Len(logged)))]
       /\ \A e \in Dirs : Shrinks(writes_at[e], writes_at'[e], lrn)
  BY <1>2, <1>6, <1>11, <1>12
<1>14. \A q \in 1..at - 1 : files[q] \notin logged[lrn].dirs
  <2>1. PICK m \in Nat : m = Len(files) /\ at \in 1..m
    <3>1. files \in Seq(Dirs) /\ at \in 1..Len(files) + 1
      BY DEF IInv, TypeOK
    <3>2. Len(files) \in Nat
      BY <3>1
    <3> QED
      BY <1>1, <3>1, <3>2
  <2> SUFFICES ASSUME NEW q \in 1..at - 1, files[q] = files[at] PROVE FALSE
    BY <1>2, <1>4
  <2>2. q \in 1..m /\ q # at
    BY <2>1
  <2> QED
    BY <2>1, <2>2 DEF IInv, TypeOK
<1> QED
  BY <1>1, <1>13, <1>14, Released

\* A rename between two directories that finds its other record: each of the two
\* has one.
LEMMA ReleasedTwo ==
    ASSUME IInv, AtRecord({OldPath, NewPath}),
           UNCHANGED <<pc, committed, files, unflagged, at, logged, created>>,
           Twins # {}, writes_at' = Advance(RemoveTwin(writes_at)),
           applied' = Append(applied, lrn)
    PROVE  IInv'
<1>1. /\ pc = "release" /\ at <= Len(files) /\ writes_at[files[at]] # <<>>
      /\ Head(writes_at[files[at]]).write_length \in {OldPath, NewPath}
  BY DEF AtRecord
<1>2. PICK d \in Dirs, l \in LRNs : d = files[at] /\ l = lrn
  BY <1>1, HeadRecord, Zenon
<1>3. /\ 1 \in 1..Len(writes_at[d])
      /\ Head(writes_at[d]) = writes_at[d][1]
      /\ writes_at[d][1].LRN = l
  BY <1>1, <1>2, HeadRecord, Zenon
<1>4. PICK n \in Nat, m \in Nat : n = Len(logged) /\ LRNs = 1..n /\ m = Len(files) /\ at \in 1..m + 1
  <2>1. logged \in Seq(Updates) /\ files \in Seq(Dirs) /\ at \in 1..Len(files) + 1
    BY DEF IInv, TypeOK
  <2>2. Len(logged) \in Nat /\ Len(files) \in Nat
    BY <2>1
  <2> QED
    BY <2>1, <2>2 DEF LRNs
<1>5. writes_at \in [Dirs -> Seq(Records(n))]
  BY <1>4 DEF IInv, TypeOK, Records
<1>6. PICK i \in at + 1..m : i = First(Twins) /\ Places(i) # {}
  <2>1. Twins \subseteq Nat
    BY <1>4 DEF Twins
  <2>2. First(Twins) \in Twins
    BY <2>1, FirstIn
  <2>3. PICK i : i = First(Twins)
    OBVIOUS
  <2>4. i \in {x \in at + 1..Len(files) : Places(x) # {}}
    BY <2>2, <2>3, Zenon DEF Twins
  <2>5. i \in at + 1..m /\ Places(i) # {}
    BY <1>4, <2>4
  <2> QED
    BY <2>3, <2>5
<1>7. PICK e \in Dirs : e = files[i] /\ e # d
  <2>1. files[i] \in Dirs /\ (files[i] = files[at] => i = at)
    BY <1>1, <1>4 DEF IInv, TypeOK
  <2> QED
    BY <1>2, <1>4, <2>1
<1>8. PICK r \in 1..Len(writes_at[e]) : r = First(Places(i)) /\ writes_at[e][r].LRN = l
  <2>1. Places(i) = {x \in 1..Len(writes_at[e]) : writes_at[e][x].LRN = l}
    BY <1>2, <1>7 DEF Places
  <2>2. Places(i) \subseteq Nat
    BY <2>1
  <2>3. First(Places(i)) \in Places(i)
    BY <1>6, <2>2, FirstIn
  <2> QED
    BY <2>1, <2>3
<1>9. logged[l].dirs = {d, e}
  <2>1. /\ d \in logged[writes_at[d][1].LRN].dirs
        /\ \E x \in Dirs : logged[writes_at[d][1].LRN].dirs = {d, x}
    BY <1>3, Once, Zenon
  <2>2. e \in logged[writes_at[e][r].LRN].dirs
    BY <1>8, Once, Zenon
  <2> QED
    BY <1>3, <1>7, <1>8, <2>1, <2>2
<1>10. \A k \in 1..Len(writes_at[d]) : writes_at[d][k].LRN = l <=> k = 1
  <2>1. logged[writes_at[d][1].LRN].dirs # {d}
    BY <1>3, <1>7, <1>9
  <2> QED
    BY <1>3, <2>1, Once
<1>11. \A k \in 1..Len(writes_at[e]) : writes_at[e][k].LRN = l <=> k = r
  <2>1. logged[writes_at[e][r].LRN].dirs # {e}
    BY <1>7, <1>8, <1>9
  <2> QED
    BY <1>8, <2>1, Once
<1>12. PICK t : t = RemoveAt(writes_at[e], r)
  OBVIOUS
<1>13. Shrinks(writes_at[e], t, l) /\ t \in Seq(Records(n))
  <2>1. writes_at[e] \in Seq(Records(n))
    BY <1>5
  <2>2. PICK s \in Seq(Records(n)) : s = writes_at[e]
    BY <2>1
  <2>3. PICK j \in 1..Len(s) : j = r
    BY <2>2
  <2>4. t = RemoveAt(s, j) /\ \A k \in 1..Len(s) : s[k].LRN = l <=> k = j
    BY <1>11, <1>12, <2>2, <2>3, Zenon
  <2>5. Shrinks(s, t, l) /\ t \in Seq(Records(n))
    BY <2>4, ShrinksOne
  <2> QED
    BY <2>2, <2>5
<1>14. Shrinks(writes_at[d], Tail(writes_at[d]), l) /\ Tail(writes_at[d]) \in Seq(Records(n))
  <2>1. writes_at[d] \in Seq(Records(n)) /\ writes_at[d] # <<>>
    BY <1>1, <1>2, <1>5
  <2> QED
    BY <1>10, <2>1, ShrinksTail
<1>15. RemoveTwin(writes_at) = [writes_at EXCEPT ![e] = t]
  <2>1. RemoveTwin(writes_at) = [writes_at EXCEPT ![files[i]] = RemoveAt(writes_at[files[i]], First(Places(i)))]
    BY <1>6 DEF RemoveTwin
  <2> QED
    BY <1>7, <1>8, <1>12, <2>1
<1>16. writes_at' = [[writes_at EXCEPT ![e] = t] EXCEPT ![d] = Tail(writes_at[d])]
  BY <1>2, <1>5, <1>7, <1>15 DEF Advance
<1>17. writes_at' \in [Dirs -> Seq(Records(n))]
  BY <1>5, <1>13, <1>14, <1>16
<1>18. ASSUME NEW x \in Dirs PROVE Shrinks(writes_at[x], writes_at'[x], l)
  <2>1. CASE x = d
    <3>1. writes_at'[x] = Tail(writes_at[d])
      BY <1>5, <1>16, <2>1
    <3> QED
      BY <1>14, <2>1, <3>1
  <2>2. CASE x = e
    <3>1. writes_at'[x] = t
      BY <1>5, <1>7, <1>16, <2>2
    <3> QED
      BY <1>13, <2>2, <3>1
  <2>3. CASE x \notin {d, e}
    <3>1. writes_at'[x] = writes_at[x]
      BY <1>5, <1>16, <2>3
    <3>2. \A k \in 1..Len(writes_at[x]) : writes_at[x][k].LRN # l
      <4> SUFFICES ASSUME NEW k \in 1..Len(writes_at[x]), writes_at[x][k].LRN = l PROVE FALSE
        OBVIOUS
      <4>1. x \in logged[l].dirs
        BY Once
      <4> QED
        BY <1>9, <2>3, <4>1
    <3>3. writes_at[x] \in Seq(Records(n))
      BY <1>5
    <3>4. Shrinks(writes_at[x], writes_at[x], l)
      BY <3>2, <3>3, ShrinksNot
    <3> QED
      BY <3>1, <3>4
  <2> QED
    BY <2>1, <2>2, <2>3
<1>19. \A q \in 1..at - 1 : files[q] \notin logged[lrn].dirs
  <2> SUFFICES ASSUME NEW q \in 1..at - 1, files[q] = files[at] \/ files[q] = files[i] PROVE FALSE
    BY <1>2, <1>7, <1>9
  <2>1. q \in 1..m /\ q # at /\ q # i /\ at \in 1..m /\ i \in 1..m
    BY <1>1, <1>4, <1>6
  <2> QED
    BY <1>4, <2>1 DEF IInv, TypeOK
<1>20. ~NeverApplied(lrn)
  <2>1. writes_at[d][1].write_length # Creat
    BY <1>1, <1>2, <1>3 DEF OldPath, NewPath, Creat
  <2>2. logged[l].type # "CREAT"
    BY <1>3, <2>1, Once
  <2>3. d \notin unflagged
    BY <1>2 DEF AtRecord
  <2> QED
    BY <1>2, <1>9, <2>2, <2>3 DEF NeverApplied
<1>21. /\ writes_at' \in [Dirs -> Seq(Records(Len(logged)))]
       /\ \A x \in Dirs : Shrinks(writes_at[x], writes_at'[x], lrn)
  BY <1>2, <1>4, <1>17, <1>18
<1> QED
  BY <1>1, <1>19, <1>20, <1>21, Released

\* What is not a creat is done in place.
LEMMA NoCreat ==
    ASSUME IInv, AtRecord({Unlink, OldPath, NewPath, SamePath})
    PROVE  ~NeverApplied(lrn) /\ lrn \in LRNs
<1>1. /\ pc = "release" /\ at <= Len(files) /\ writes_at[files[at]] # <<>>
      /\ Head(writes_at[files[at]]).write_length \in {Unlink, OldPath, NewPath, SamePath}
  BY DEF AtRecord
<1>2. PICK d \in Dirs, l \in LRNs : d = files[at] /\ l = lrn
  BY <1>1, HeadRecord, Zenon
<1>3. /\ 1 \in 1..Len(writes_at[d])
      /\ Head(writes_at[d]) = writes_at[d][1]
      /\ writes_at[d][1].LRN = l
  BY <1>1, <1>2, HeadRecord, Zenon
<1>4. writes_at[d][1].write_length # Creat
  BY <1>1, <1>2, <1>3 DEF OldPath, NewPath, SamePath, Creat, Unlink
<1>5. logged[l].type # "CREAT" /\ d \in logged[l].dirs
  BY <1>3, <1>4, Once
<1>6. d \notin unflagged
  BY <1>2 DEF AtRecord
<1> QED
  BY <1>2, <1>5, <1>6 DEF NeverApplied

\* A rename inside a directory has no other record.
LEMMA NoTwin ==
    ASSUME IInv, AtRecord({SamePath})
    PROVE  Twins = {}
<1>1. /\ pc = "release" /\ at <= Len(files) /\ writes_at[files[at]] # <<>>
      /\ Head(writes_at[files[at]]).write_length = SamePath
  BY DEF AtRecord
<1>2. PICK d \in Dirs, l \in LRNs : d = files[at] /\ l = lrn
  BY <1>1, HeadRecord, Zenon
<1>3. /\ 1 \in 1..Len(writes_at[d])
      /\ Head(writes_at[d]) = writes_at[d][1]
      /\ writes_at[d][1].LRN = l
  BY <1>1, <1>2, HeadRecord, Zenon
<1>4. logged[l].dirs = {d}
  <2>1. writes_at[d][1].write_length \in {Creat, Unlink, SamePath}
    BY <1>1, <1>2, <1>3
  <2> QED
    BY <1>3, <2>1, Once
<1>5. PICK m \in Nat : m = Len(files) /\ at \in 1..m
  <2>1. files \in Seq(Dirs) /\ at \in 1..Len(files) + 1
    BY DEF IInv, TypeOK
  <2>2. Len(files) \in Nat
    BY <2>1
  <2> QED
    BY <1>1, <2>1, <2>2
<1>6. ASSUME NEW i \in at + 1..m PROVE Places(i) = {}
  <2>1. PICK e \in Dirs : e = files[i] /\ e # d
    <3>1. files[i] \in Dirs /\ (files[i] = files[at] => i = at)
      BY <1>5 DEF IInv, TypeOK
    <3> QED
      BY <1>2, <1>5, <3>1
  <2>2. ASSUME NEW x \in 1..Len(writes_at[e]), writes_at[e][x].LRN = l PROVE FALSE
    <3>1. e \in logged[writes_at[e][x].LRN].dirs
      BY Once, Zenon
    <3> QED
      BY <1>4, <2>1, <2>2, <3>1
  <2> QED
    BY <1>2, <2>1, <2>2 DEF Places
<1> QED
  BY <1>5, <1>6 DEF Twins

\* A release that goes wrong has still applied nothing that never is.
LEMMA GoesWrong ==
    ASSUME IInv, AtRecord({OldPath, NewPath, SamePath}), pc' \in {"crash", "undefined"},
           applied' = Append(applied, lrn),
           UNCHANGED <<committed, files, unflagged, at, writes_at, logged, created>>
    PROVE  IInv'
<1>1. pc = "release"
  BY DEF AtRecord
<1>2. ~NeverApplied(lrn) /\ lrn \in LRNs
  <2>1. AtRecord({Unlink, OldPath, NewPath, SamePath})
    BY DEF AtRecord
  <2> QED
    BY <2>1, NoCreat
<1>3. PICK l \in LRNs : l = lrn /\ ~NeverApplied(l)
  BY <1>2
<1>4. applied' = Append(applied, l)
  BY <1>3
<1>5. applied \in Seq(LRNs) /\ applied' \in Seq(LRNs) /\ LRNs' = LRNs
  BY <1>4 DEF IInv, TypeOK, LRNs
<1>6. \A i : Applied(i)' => Applied(i) \/ i = l
  BY <1>4, <1>5 DEF Applied
<1>7. \A j : NeverApplied(j)' <=> NeverApplied(j)
  BY DEF NeverApplied
<1>8. TypeOK'
  <2>1. created' \subseteq {i \in LRNs' : logged'[i].type = "CREAT"}
    BY <1>5 DEF IInv, TypeOK
  <2> QED
    BY <1>5, <2>1 DEF IInv, TypeOK
<1>9. Right' /\ Sorted' /\ Whole'
  <2>1. Right' /\ Sorted'
    <3>1. Right' <=> Right
      BY DEF Right
    <3>2. Sorted' <=> Sorted
      BY DEF Sorted
    <3> QED
      BY <3>1, <3>2 DEF IInv
  <2>2. Whole'
    BY <1>1, <1>5 DEF IInv, Whole, In
  <2> QED
    BY <2>1, <2>2
<1>10. Queued'
  BY DEF IInv, Queued
<1>11. ~Sound' /\ committed' /\ pc' # "run" /\ pc' # "release" /\ pc' # "done"
  BY <1>1 DEF IInv, Progress, Sound
<1>12. \A i \in LRNs : Applied(i)' => ~NeverApplied(i)'
  BY <1>3, <1>6, <1>7 DEF IInv, Progress
<1>13. Progress'
  BY <1>5, <1>11, <1>12 DEF Progress
<1>14. Ordered'
  BY <1>11 DEF Ordered
<1> QED
  BY <1>8, <1>9, <1>10, <1>13, <1>14 DEF IInv

\* The release comes to the next node when this one's records are gone.
LEMMA Moves == ASSUME IInv, NextFile PROVE IInv'
<1>1. PICK m \in Nat : m = Len(files) /\ at \in 1..m + 1 /\ pc = "release"
  <2>1. files \in Seq(Dirs) /\ at \in 1..Len(files) + 1
    BY DEF IInv, TypeOK
  <2>2. Len(files) \in Nat
    BY <2>1
  <2> QED
    BY <2>1, <2>2 DEF NextFile
<1>2. UNCHANGED <<committed, files, unflagged, writes_at, logged, created, applied>> /\ LRNs' = LRNs
  BY DEF NextFile, LRNs
<1>3. Right' /\ Sorted' /\ Whole'
  <2>1. Right' /\ Sorted'
    <3>1. Right' <=> Right
      BY <1>2 DEF Right
    <3>2. Sorted' <=> Sorted
      BY <1>2 DEF Sorted
    <3> QED
      BY <3>1, <3>2 DEF IInv
  <2>2. Whole'
    BY <1>1, <1>2 DEF IInv, Whole, In
  <2> QED
    BY <2>1, <2>2
<1>4. \A i : /\ Applied(i)' <=> Applied(i)
             /\ Pending(i)' <=> Pending(i)
             /\ NeverApplied(i)' <=> NeverApplied(i)
  BY <1>2 DEF Applied, Pending, NeverApplied
<1>5. \A i : Place(i)' = Place(i)
  BY <1>2, PlaceStays, Zenon
<1>6. Sound /\ Sound' /\ committed
  BY <1>1 DEF IInv, Progress, Sound, NextFile
<1>7. \A a, b \in 1..Len(applied) : a < b => Before(applied[a], applied[b])'
  <2>1. \A a, b \in 1..Len(applied) : a < b => Before(applied[a], applied[b])
    BY <1>6 DEF IInv, Ordered
  <2>2. applied' = applied
    BY <1>2
  <2>3. ASSUME NEW a \in 1..Len(applied), NEW b \in 1..Len(applied), a < b
        PROVE  Before(applied[a], applied[b])'
    <3>1. Before(applied[a], applied[b])
      BY <2>1, <2>3
    <3>2. PICK i, j : i = applied[a] /\ j = applied[b]
      OBVIOUS
    <3>3. Before(i, j)'
      BY <1>5, <3>1, <3>2 DEF Before
    <3>4. i = applied'[a] /\ j = applied'[b]
      BY <2>2, <3>2
    <3> QED
      BY <3>3, <3>4
  <2> QED
    BY <2>3
<1>8. CASE at <= m
  <2>1. (files[at] \in unflagged \/ writes_at[files[at]] = <<>>) /\ at' = at + 1 /\ pc' = pc
    BY <1>1, <1>8 DEF NextFile, Passed
  <2>2. TypeOK'
    <3>1. at + 1 \in 1..Len(files) + 1
      BY <1>1, <1>8
    <3>2. at' \in 1..Len(files') + 1 /\ pc' \in {"run", "release", "done", "crash", "undefined"}
      BY <1>1, <1>2, <2>1, <3>1
    <3> QED
      BY <1>2, <3>2 DEF IInv, TypeOK
  <2>3. Queued'
    <3> SUFFICES ASSUME NEW d \in Dirs, writes_at[d] # <<>>, d \notin unflagged
                 PROVE  \E p \in 1..Len(files) : files[p] = d /\ at + 1 <= p
      BY <1>1, <1>2, <2>1 DEF IInv, Queued
    <3>1. PICK p \in 1..Len(files) : files[p] = d /\ at <= p
      BY <1>1 DEF IInv, Queued
    <3>2. p # at
      BY <2>1, <3>1
    <3> QED
      BY <1>1, <3>1, <3>2
  <2>4. Progress'
    BY <1>1, <1>2, <1>4, <1>6, <2>1 DEF IInv, Progress
  <2>5. Ordered'
    <3>1. ASSUME NEW a \in 1..Len(applied)
          PROVE /\ Place(applied[a])' \in Nat /\ Place(applied[a])' <= at + 1
                /\ Place(applied[a])' # at + 1
      <4>1. Place(applied[a]) \in Nat /\ Place(applied[a]) <= at
        BY <1>1 DEF IInv, Ordered
      <4>2. Place(applied[a])' = Place(applied[a])
        BY <1>2, <1>5
      <4> QED
        BY <1>1, <4>1, <4>2
    <3> QED
      BY <1>2, <1>7, <2>1, <3>1 DEF Ordered
  <2> QED
    BY <1>3, <2>2, <2>3, <2>4, <2>5 DEF IInv
<1>9. CASE ~(at <= m)
  <2>1. at' = at /\ pc' = "done"
    BY <1>1, <1>9 DEF NextFile
  <2>2. TypeOK'
    BY <1>2, <2>1 DEF IInv, TypeOK
  <2>3. \A d \in Dirs : writes_at[d] # <<>> => d \in unflagged
    BY <1>1, <1>9 DEF IInv, Queued
  <2>4. Queued'
    BY <1>2, <2>1 DEF IInv, Queued
  <2>5. ASSUME NEW i \in LRNs, Pending(i) PROVE NeverApplied(i)
    <3>1. PICK d \in Dirs : In(i, d)
      BY <2>5 DEF Pending, In
    <3>2. ASSUME NEW e \in logged[i].dirs PROVE e \in unflagged
      <4>1. e \in Dirs
        <5>1. logged[i] \in Updates
          BY DEF IInv, TypeOK, LRNs
        <5> QED
          BY <5>1 DEF Updates
      <4>2. In(i, e)
        BY <1>1, <3>1, <4>1 DEF IInv, Whole
      <4>3. writes_at[e] # <<>>
        BY <4>2 DEF In
      <4> QED
        BY <2>3, <4>1, <4>3
    <3> QED
      BY <3>2 DEF NeverApplied
  <2>6. Progress'
    <3>1. \A i \in LRNs : ~NeverApplied(i) => Applied(i) /\ ~Pending(i)
      BY <1>1, <2>5 DEF IInv, Progress
    <3>2. \A i \in LRNs : (Applied(i) => ~NeverApplied(i)) /\ (Sound /\ Applied(i) => ~Pending(i))
      BY DEF IInv, Progress
    <3> QED
      BY <1>2, <1>4, <1>6, <2>1, <3>1, <3>2 DEF Progress
  <2>7. Ordered'
    BY <1>2, <1>7, <2>1 DEF Ordered
  <2> QED
    BY <1>3, <2>2, <2>4, <2>6, <2>7 DEF IInv
<1> QED
  BY <1>8, <1>9

\* A commit starts the release at the head of the list; an abort frees the
\* records of the nodes with flags.
LEMMA Ends == ASSUME IInv, on_txn_commit \/ on_txn_abort PROVE IInv'
<1>1. pc = "run" /\ at = 1 /\ ~committed /\ applied = <<>>
  BY DEF IInv, Progress, on_txn_commit, on_txn_abort
<1>2. UNCHANGED <<files, unflagged, at, logged, created, applied>> /\ LRNs' = LRNs
  BY DEF on_txn_commit, on_txn_abort, LRNs
<1>3. \A i : ~Applied(i) /\ ~Applied(i)'
  BY <1>1, <1>2 DEF Applied
<1>4. Ordered'
  BY <1>1, <1>2 DEF Ordered
<1>5. CASE on_txn_commit
  <2>1. pc' = "release" /\ committed' /\ writes_at' = writes_at
    BY <1>5 DEF on_txn_commit
  <2>2. TypeOK'
    BY <1>2, <1>5 DEF IInv, TypeOK, on_txn_commit
  <2>3. Right' /\ Sorted' /\ Whole'
    <3>1. Right' /\ Sorted'
      <4>1. Right' <=> Right
        BY <1>2, <2>1 DEF Right
      <4>2. Sorted' <=> Sorted
        BY <1>2, <2>1 DEF Sorted
      <4> QED
        BY <4>1, <4>2 DEF IInv
    <3>2. Whole'
      BY <1>1, <1>2, <2>1 DEF IInv, Whole, In
    <3> QED
      BY <3>1, <3>2
  <2>4. Queued'
    BY <1>1, <1>2, <2>1 DEF IInv, Queued
  <2>5. \A i \in LRNs : Pending(i)'
    BY <1>1, <2>1 DEF IInv, Progress, Pending
  <2>6. Progress'
    BY <1>2, <1>3, <2>1, <2>5 DEF Progress
  <2> QED
    BY <1>4, <2>2, <2>3, <2>4, <2>6 DEF IInv
<1>6. CASE on_txn_abort
  <2>1. /\ pc' = "done" /\ committed' = committed
        /\ writes_at' = [d \in Dirs |-> IF d \in unflagged THEN writes_at[d] ELSE <<>>]
    BY <1>6 DEF on_txn_abort
  <2>2. TypeOK'
    <3>1. writes_at \in [Dirs -> Seq([write_length : Unlink..OldPath, LRN : LRNs])]
      BY DEF IInv, TypeOK
    <3> DEFINE T == Seq([write_length : Unlink..OldPath, LRN : LRNs])
    <3>2. <<>> \in T
      OBVIOUS
    <3> HIDE DEF T
    <3>3. writes_at' \in [Dirs -> T]
      BY <2>1, <3>1, <3>2 DEF T
    <3>4. writes_at' \in [Dirs -> Seq([write_length : Unlink..OldPath, LRN : LRNs'])]
      BY <1>2, <3>3 DEF T
    <3>5. created' \subseteq {i \in LRNs' : logged'[i].type = "CREAT"}
      BY <1>2 DEF IInv, TypeOK
    <3>6. applied' \in Seq(LRNs') /\ pc' \in {"run", "release", "done", "crash", "undefined"}
      BY <1>2, <2>1 DEF IInv, TypeOK
    <3> QED
      BY <1>2, <2>1, <3>4, <3>5, <3>6 DEF IInv, TypeOK
  <2>3. \A d \in Dirs : writes_at'[d] = writes_at[d] \/ writes_at'[d] = <<>>
    BY <2>1
  <2>4. Right'
    <3> SUFFICES ASSUME NEW d \in Dirs, NEW k \in 1..Len(writes_at'[d])
                 PROVE  LET r == writes_at'[d][k]
                            update == logged[r.LRN] IN
                        /\ d \in update.dirs /\ \E e \in Dirs : update.dirs = {d, e}
                        /\ r.write_length \in {Creat, Unlink, SamePath} => update.dirs = {d}
                        /\ r.write_length = Creat <=> update.type = "CREAT"
      BY <1>2 DEF Right
    <3>1. writes_at'[d] = writes_at[d]
      BY <2>3
    <3> QED
      BY <3>1 DEF IInv, Right
  <2>5. Sorted'
    <3> SUFFICES ASSUME NEW d \in Dirs, NEW j \in 1..Len(writes_at'[d]), NEW k \in 1..Len(writes_at'[d]),
                        j < k
                 PROVE  \/ writes_at'[d][j].LRN < writes_at'[d][k].LRN
                        \/ /\ writes_at'[d][j].LRN = writes_at'[d][k].LRN
                           /\ logged[writes_at'[d][j].LRN].dirs = {d}
                           /\ writes_at'[d][j].write_length \in {OldPath, NewPath}
      BY <1>2 DEF Sorted
    <3>1. writes_at'[d] = writes_at[d]
      BY <2>3
    <3>2. j \in 1..Len(writes_at[d]) /\ k \in 1..Len(writes_at[d])
      BY <3>1
    <3>3. \/ writes_at[d][j].LRN < writes_at[d][k].LRN
          \/ /\ writes_at[d][j].LRN = writes_at[d][k].LRN
             /\ logged[writes_at[d][j].LRN].dirs = {d}
             /\ writes_at[d][j].write_length \in {OldPath, NewPath}
      BY <3>2 DEF IInv, Sorted
    <3> QED
      BY <3>1, <3>3
  <2>6. Whole'
    BY <2>1 DEF Whole
  <2>7. Queued'
    BY <1>1, <1>2, <2>1, <2>3 DEF IInv, Queued
  <2>8. Progress'
    BY <1>1, <1>2, <1>3, <2>1 DEF Progress
  <2> QED
    BY <1>4, <2>2, <2>4, <2>5, <2>6, <2>7, <2>8 DEF IInv
<1> QED
  BY <1>5, <1>6

\* One step of the release keeps IInv.
LEMMA Releases == ASSUME IInv, release_locks_on_success PROVE IInv'
<1>1. CASE delayed_creat
  <2>1. /\ AtRecord({Creat}) /\ UNCHANGED <<pc, committed, files, unflagged, at, logged, created>>
        /\ writes_at' = Advance(writes_at)
        /\ applied' = IF logged[lrn].mode = SyncedMode THEN Append(applied, lrn) ELSE applied
    BY <1>1 DEF delayed_creat
  <2>2. AtRecord({Creat, Unlink, SamePath})
    BY <2>1 DEF AtRecord
  <2>3. logged[lrn].type = "CREAT" /\ files[at] \in logged[lrn].dirs /\ files[at] \notin unflagged
    <3>1. /\ pc = "release" /\ at <= Len(files) /\ writes_at[files[at]] # <<>>
          /\ Head(writes_at[files[at]]).write_length = Creat
      BY <2>1 DEF AtRecord
    <3>2. PICK d \in Dirs, l \in LRNs : d = files[at] /\ l = lrn
      BY <3>1, HeadRecord, Zenon
    <3>3. /\ 1 \in 1..Len(writes_at[d])
          /\ Head(writes_at[d]) = writes_at[d][1]
          /\ writes_at[d][1].LRN = l
      BY <3>1, <3>2, HeadRecord, Zenon
    <3>4. writes_at[d][1].write_length = Creat
      BY <3>1, <3>2, <3>3
    <3>5. d \in logged[l].dirs /\ logged[l].type = "CREAT"
      BY <3>3, <3>4, Once
    <3>6. files[at] \notin unflagged
      BY <2>1 DEF AtRecord
    <3> QED
      BY <3>2, <3>5, <3>6
  <2>4. NeverApplied(lrn) <=> logged[lrn].mode # SyncedMode
    BY <2>3 DEF NeverApplied
  <2>5. \/ ~NeverApplied(lrn) /\ applied' = Append(applied, lrn)
        \/ NeverApplied(lrn) /\ applied' = applied
    BY <2>1, <2>4
  <2> QED
    BY <2>1, <2>2, <2>5, ReleasedOne
<1>2. CASE delayed_unlink
  <2>1. /\ AtRecord({Unlink}) /\ UNCHANGED <<pc, committed, files, unflagged, at, logged, created>>
        /\ writes_at' = Advance(writes_at) /\ applied' = Append(applied, lrn)
    BY <1>2 DEF delayed_unlink
  <2>2. AtRecord({Creat, Unlink, SamePath}) /\ AtRecord({Unlink, OldPath, NewPath, SamePath})
    BY <2>1 DEF AtRecord
  <2>3. ~NeverApplied(lrn)
    BY <2>2, NoCreat
  <2> QED
    BY <2>1, <2>2, <2>3, ReleasedOne
<1>3. CASE delayed_rename
  <2>1. /\ AtRecord({OldPath, NewPath, SamePath}) /\ UNCHANGED <<committed, files, unflagged, at, logged, created>>
        /\ applied' = Append(applied, lrn)
    BY <1>3 DEF delayed_rename
  <2>2. CASE AtRecord({SamePath})
    <3>1. writes_at' = Advance(RemoveTwin(writes_at)) /\ UNCHANGED pc
      BY <1>3, <2>2 DEF delayed_rename
    <3>2. RemoveTwin(writes_at) = writes_at
      BY <2>2, NoTwin DEF RemoveTwin
    <3>3. AtRecord({Creat, Unlink, SamePath}) /\ AtRecord({Unlink, OldPath, NewPath, SamePath})
      BY <2>2 DEF AtRecord
    <3>4. ~NeverApplied(lrn)
      BY <3>3, NoCreat
    <3>5. writes_at' = Advance(writes_at)
      BY <3>1, <3>2
    <3> QED
      BY <2>1, <3>1, <3>3, <3>4, <3>5, ReleasedOne
  <2>3. CASE ~AtRecord({SamePath}) /\ Twins # {}
    <3>1. writes_at' = Advance(RemoveTwin(writes_at)) /\ UNCHANGED pc
      BY <1>3, <2>3 DEF delayed_rename
    <3>2. AtRecord({OldPath, NewPath})
      BY <2>1, <2>3 DEF AtRecord
    <3> QED
      BY <2>1, <2>3, <3>1, <3>2, ReleasedTwo
  <2>4. CASE ~AtRecord({SamePath}) /\ Twins = {}
    <3>1. pc' \in {"crash", "undefined"} /\ UNCHANGED writes_at
      BY <1>3, <2>4 DEF delayed_rename
    <3> QED
      BY <2>1, <3>1, GoesWrong
  <2> QED
    BY <2>2, <2>3, <2>4
<1>4. CASE ReadReused
  <2>1. /\ AtRecord({OldPath, NewPath, SamePath}) /\ pc' \in {"crash", "undefined"}
        /\ applied' = Append(applied, lrn)
        /\ UNCHANGED <<committed, files, unflagged, at, writes_at, logged, created>>
    BY <1>4 DEF ReadReused
  <2> QED
    BY <2>1, GoesWrong
<1>5. CASE NextFile
  BY <1>5, Moves
<1> QED
  BY <1>1, <1>2, <1>3, <1>4, <1>5 DEF release_locks_on_success

\* Steps that leave all variables alone.
LEMMA Stands == ASSUME IInv, UNCHANGED vars PROVE IInv'
<1>1. /\ pc' = pc /\ committed' = committed /\ files' = files /\ unflagged' = unflagged /\ at' = at
      /\ writes_at' = writes_at /\ logged' = logged /\ created' = created /\ applied' = applied
  BY DEF vars
<1>2. /\ TypeOK' <=> TypeOK
      /\ Right' <=> Right
      /\ Sorted' <=> Sorted
      /\ Whole' <=> Whole
      /\ Queued' <=> Queued
  BY <1>1 DEF TypeOK, Right, Sorted, Whole, Queued, In, LRNs
<1>3. Progress' <=> Progress
  BY <1>1 DEF Progress, Sound, Applied, Pending, NeverApplied, LRNs
<1>4. Ordered' <=> Ordered
  BY <1>1 DEF Ordered, Before, Place, Sound
<1> QED
  BY <1>2, <1>3, <1>4 DEF IInv

\* The invariant holds at first.
LEMMA Starts == ASSUME Init PROVE IInv
<1>1. TypeOK
  <2>1. /\ files = <<>> /\ Len(files) = 0 /\ logged = <<>> /\ applied = <<>>
        /\ pc = "run" /\ committed = FALSE /\ at = 1 /\ unflagged = {} /\ created = {}
    BY DEF Init
  <2>2. files \in Seq(Dirs) /\ logged \in Seq(Updates) /\ applied \in Seq(LRNs)
    BY <2>1
  <2>3. writes_at \in [Dirs -> Seq([write_length : Unlink..OldPath, LRN : LRNs])]
    BY DEF Init
  <2>4. \A i, j \in 1..Len(files) : files[i] = files[j] => i = j
    BY <2>1
  <2>5. at \in 1..Len(files) + 1
    BY <2>1
  <2> QED
    BY <2>1, <2>2, <2>3, <2>4, <2>5 DEF TypeOK
<1>2. Right /\ Sorted /\ Whole /\ Queued
  BY DEF Init, Right, Sorted, Whole, Queued, In
<1>3. LRNs = {}
  BY DEF Init, LRNs
<1>4. Progress
  BY <1>3 DEF Init, Progress
<1>5. Ordered
  BY DEF Init, Ordered
<1> QED
  BY <1>1, <1>2, <1>4, <1>5 DEF IInv

\* No record and no update is in two states at once.
LEMMA Follows == ASSUME IInv PROVE AppliedOnce
<1>1. ASSUME Sound, NEW a \in 1..Len(applied), NEW b \in 1..Len(applied), a < b
      PROVE  \/ Place(applied[a]) < Place(applied[b])
             \/ Place(applied[a]) = Place(applied[b]) /\ applied[a] < applied[b]
  BY <1>1 DEF IInv, Ordered, Before
<1>2. ASSUME NEW i \in LRNs, Applied(i) PROVE committed
  BY <1>2 DEF IInv, Progress, Applied
<1>3. ASSUME Sound, NEW i \in LRNs
      PROVE  /\ Applied(i) => ~Pending(i) /\ ~NeverApplied(i) /\ committed
             /\ pc = "run" => Pending(i)
             /\ pc = "release" /\ ~NeverApplied(i) => Applied(i) \/ Pending(i)
  BY <1>2, <1>3 DEF IInv, Progress
<1>4. ASSUME pc = "done", NEW i \in LRNs
      PROVE  Applied(i) <=> committed /\ ~NeverApplied(i)
  BY <1>2, <1>4 DEF IInv, Progress
<1> QED
  BY <1>1, <1>3, <1>4 DEF IInv, AppliedOnce

(***************************************************************************)
(* The theorem.                                                            *)
(***************************************************************************)

\* The delayed work of a transaction, over all of its lock nodes: at a commit each
\* update that was logged is done exactly once, renames that are on the lists of
\* two directories included, in the order of the node list and of the calls; only
\* the sync of a creat in another mode and the updates of directories whose nodes
\* have no flags are left out.  Of an aborted transaction none is done; what
\* on_creat did at the call stays.  Where the server crashes or reads freed memory
\* on the way nothing is promised.
THEOREM UpdatesAppliedOnce == Spec => []AppliedOnce
<1>1. Init => IInv
  BY Starts
<1>2. IInv /\ [Next]_vars => IInv'
  <2> SUFFICES ASSUME IInv, [Next]_vars PROVE IInv'
    OBVIOUS
  <2>1. CASE Call
    BY <2>1, Calls, Stats, Ends DEF Call
  <2>2. CASE release_locks_on_success
    BY <2>2, Releases
  <2>3. CASE Finished \/ UNCHANGED vars
    BY <2>3, Stands DEF Finished
  <2> QED
    BY <2>1, <2>2, <2>3 DEF Next
<1>3. IInv => AppliedOnce
  BY Follows
<1> QED
  BY <1>1, <1>2, <1>3, PTL DEF Spec
=============================================================================
