------------------------- MODULE DirectoriesProofs -------------------------
(***************************************************************************)
(* Proofs about Directories, for every set of objects, names, paths and    *)
(* links and any number of searches.                                       *)
(***************************************************************************)
EXTENDS Directories, FiniteSetTheorems, WellFoundedInduction, TLAPS

Kinds == {"absent", "file", "dir", "symlink"}

Contexts == [dirObj : Nodes \cup {NoObject}, next : Objects \cup {NoObject}, removed : BOOLEAN]

(***************************************************************************)
(* The inductive invariant, in parts.                                      *)
(***************************************************************************)

Types ==
    /\ kind \in [Nodes -> Kinds] /\ kind[Root] = "dir"
    /\ name \in [Objects -> Names \cup {NoName}]
    /\ alias \in [Objects -> Aliases \cup {NoAlias}]
    /\ children \in [Nodes -> Seq(Objects)]
    /\ search \in [Searches -> Contexts]
    /\ returned \in [Searches -> SUBSET Objects]
    /\ steady \in [Searches -> SUBSET Objects]
    /\ broken \in BOOLEAN

\* An object is in one place of all lists.
Once(ch) ==
    \A d, e \in Nodes : \A i \in 1..Len(ch[d]), j \in 1..Len(ch[e]) :
      ch[d][i] = ch[e][j] => d = e /\ i = j

\* The search f of the lists ch has returned got, and ever has been there all the
\* time: from the child it points at on nothing is returned yet, and what is not
\* is there.
Goes(ch, f, got, ever) ==
    /\ f.next # NoObject =>
         /\ ~f.removed /\ f.dirObj \in Nodes
         /\ \E k \in 1..Len(ch[f.dirObj]) :
              /\ ch[f.dirObj][k] = f.next
              /\ \A j \in k..Len(ch[f.dirObj]) : ch[f.dirObj][j] \notin got
              /\ \A o \in ever \ got : \E j \in k..Len(ch[f.dirObj]) : ch[f.dirObj][j] = o
    /\ f.next = NoObject => ever \subseteq got

Going == \A s \in Searches : Goes(children, search[s], returned[s], steady[s])

\* No objects hang in the air: wherever each has its parent among them, there is none.
Hangs(ch, S) == \A o \in S : \E d \in S : o \in ToSet(ch[d])
Grounded(ch) == \A S \in SUBSET Objects : Hangs(ch, S) => S = {}

IInv == Types /\ OnePlace /\ Going /\ Grounded(children)

(***************************************************************************)
(* Lists of children.                                                      *)
(***************************************************************************)

\* A set of naturals has a least element, and Min is that.
LEMMA MinIn ==
    ASSUME NEW S, S \subseteq Nat, S # {}
    PROVE  Min(S) \in S /\ \A y \in S : Min(S) <= y
<1>1. IsWellFoundedOn(OpToRel(<, Nat), Nat)
  BY NatLessThanWellFounded
<1> DEFINE R == {p \in Nat \X Nat : p[1] < p[2]}
<1>2. R = OpToRel(<, Nat)
  BY DEF OpToRel
<1>3. IsWellFoundedOn(R, Nat)
  BY <1>1, <1>2
<1>4. \A x, y \in Nat : x < y => <<x, y>> \in R
  OBVIOUS
<1> HIDE DEF R
<1>5. PICK x \in S : \A y \in S : ~(<<y, x>> \in R)
  BY <1>3, WFMin
<1>6. \A y \in S : x <= y
  <2> SUFFICES ASSUME NEW y \in S, ~(x <= y) PROVE FALSE
    OBVIOUS
  <2>1. x \in Nat /\ y \in Nat
    BY <1>5
  <2>2. y < x
    BY <2>1
  <2> QED
    BY <1>4, <1>5, <2>1, <2>2
<1> QED
  BY <1>5, <1>6 DEF Min

\* ylist_del takes a child out of a list and moves up what follows.
LEMMA Taken ==
    ASSUME NEW S, NEW s \in Seq(S), NEW k \in 1..Len(s), \A j \in 1..Len(s) : s[j] = s[k] => j = k,
           NEW o, o = s[k], NEW t, t = RemoveFirst(s, o)
    PROVE  /\ t \in Seq(S) /\ Len(t) = Len(s) - 1
           /\ \A j \in 1..Len(t) : t[j] = IF j < k THEN s[j] ELSE s[j + 1]
<1>1. PICK n \in Nat : n = Len(s)
  OBVIOUS
<1>2. t = SubSeq(s, 1, k - 1) \o SubSeq(s, k + 1, n)
  <2>1. {i \in 1..Len(s) : s[i] = o} = {k}
    OBVIOUS
  <2>2. Min({k}) = k
    <3>1. {k} \subseteq Nat /\ {k} # {}
      BY <1>1
    <3>2. Min({k}) \in {k}
      BY <3>1, MinIn
    <3> QED
      BY <3>2
  <2>3. t = RemoveAt(s, Min({k}))
    BY <2>1 DEF RemoveFirst, SelectInSeq
  <2> QED
    BY <1>1, <2>2, <2>3 DEF RemoveAt
<1> DEFINE a == SubSeq(s, 1, k - 1)
           b == SubSeq(s, k + 1, n)
<1>3. a \in Seq(S) /\ Len(a) = k - 1 /\ \A j \in 1..(k - 1) : a[j] = s[j]
  BY <1>1
<1>4. b \in Seq(S) /\ Len(b) = n - k /\ \A j \in 1..(n - k) : b[j] = s[j + k]
  BY <1>1
<1> HIDE DEF a, b
<1>5. t = a \o b
  BY <1>2 DEF a, b
<1>6. t \in Seq(S) /\ Len(t) = n - 1
  <2>1. \A x, y \in Seq(S) : x \o y \in Seq(S) /\ Len(x \o y) = Len(x) + Len(y)
    OBVIOUS
  <2>2. t \in Seq(S) /\ Len(t) = (k - 1) + (n - k)
    BY <1>3, <1>4, <1>5, <2>1
  <2> QED
    BY <1>1, <2>2
<1>7. ASSUME NEW j \in 1..(n - 1) PROVE t[j] = IF j < k THEN s[j] ELSE s[j + 1]
  <2>1. CASE j < k
    BY <1>3, <1>4, <1>5, <2>1
  <2>2. CASE j >= k
    <3>1. t[j] = b[j - (k - 1)] /\ j - (k - 1) \in 1..(n - k)
      BY <1>1, <1>3, <1>4, <1>5, <2>2
    <3>2. b[j - (k - 1)] = s[j - (k - 1) + k]
      BY <1>4, <3>1
    <3>3. j - (k - 1) + k = j + 1
      OBVIOUS
    <3> QED
      BY <2>2, <3>1, <3>2, <3>3
  <2> QED
    BY <2>1, <2>2
<1> QED
  BY <1>1, <1>6, <1>7

\* What is not in a list is not taken out of it.
LEMMA NotTaken ==
    ASSUME NEW s, NEW o, \A k \in 1..Len(s) : s[k] # o
    PROVE  RemoveFirst(s, o) = s
BY DEF RemoveFirst

(***************************************************************************)
(* What happens to a search.                                               *)
(***************************************************************************)

\* yaffsfs_RemoveObjectCallback and yaffsfs_DirAdvance for one search.
Told(ch, f, o) == IF f.next = o THEN [f EXCEPT !.next = After(ch, f.dirObj, o)] ELSE f

\* Where a search points at the k-th child.
LEMMA Points ==
    ASSUME NEW ch, NEW f, NEW got, NEW ever, f.next # NoObject, ~f.removed, f.dirObj \in Nodes,
           NEW k \in 1..Len(ch[f.dirObj]), ch[f.dirObj][k] = f.next,
           \A j \in k..Len(ch[f.dirObj]) : ch[f.dirObj][j] \notin got,
           \A o \in ever \ got : \E j \in k..Len(ch[f.dirObj]) : ch[f.dirObj][j] = o
    PROVE  Goes(ch, f, got, ever)
BY DEF Goes

\* A child leaves its list, and the search goes on.
LEMMA GoesOn ==
    ASSUME NEW ch \in [Nodes -> Seq(Objects)], Once(ch), NEW o, o # NoObject, NEW f \in Contexts,
           NEW got, NEW ever, Goes(ch, f, got, ever)
    PROVE  Goes(Detach(ch, o), Told(ch, f, o), got, ever \ {o}) /\ Told(ch, f, o) \in Contexts
<1>1. /\ f = [dirObj |-> f.dirObj, next |-> f.next, removed |-> f.removed]
      /\ f.dirObj \in Nodes \cup {NoObject} /\ f.next \in Objects \cup {NoObject}
      /\ f.removed \in BOOLEAN
  BY DEF Contexts
<1>2. CASE f.next = NoObject
  <2>1. Told(ch, f, o) = f
    BY <1>2 DEF Told
  <2>2. ever \ {o} \subseteq got
    BY <1>2 DEF Goes
  <2> QED
    BY <1>2, <2>1, <2>2 DEF Goes
<1>3. CASE f.next # NoObject
  <2>1. PICK d \in Nodes : d = f.dirObj /\ ~f.removed
    BY <1>3 DEF Goes
  <2>2. PICK s \in Seq(Objects), n \in Nat : s = ch[d] /\ n = Len(s)
    <3>1. ch[d] \in Seq(Objects)
      OBVIOUS
    <3>2. Len(ch[d]) \in Nat
      BY <3>1
    <3> QED
      BY <3>1, <3>2
  <2>3. PICK k \in 1..n :
          /\ s[k] = f.next
          /\ \A j \in k..n : s[j] \notin got
          /\ \A x \in ever \ got : \E j \in k..n : s[j] = x
    BY <1>3, <2>1, <2>2 DEF Goes
  <2>4. \A i, j \in 1..n : s[i] = s[j] => i = j
    BY <2>2 DEF Once
  <2>5. PICK t : t = RemoveFirst(s, o)
    OBVIOUS
  <2>6. PICK c : c = Detach(ch, o) /\ c[d] = t
    <3>1. Detach(ch, o)[d] = t
      BY <2>2, <2>5 DEF Detach
    <3> QED
      BY <3>1
  <2>7. CASE f.next = o
    <3>1. t \in Seq(Objects) /\ Len(t) = n - 1 /\ \A j \in 1..(n - 1) : t[j] = IF j < k THEN s[j] ELSE s[j + 1]
      <4>1. \A j \in 1..Len(s) : s[j] = s[k] => j = k
        BY <2>2, <2>3, <2>4
      <4>2. k \in 1..Len(s) /\ o = s[k]
        BY <2>2, <2>3, <2>7
      <4>3. /\ t \in Seq(Objects) /\ Len(t) = Len(s) - 1
            /\ \A j \in 1..Len(t) : t[j] = IF j < k THEN s[j] ELSE s[j + 1]
        BY <2>5, <4>1, <4>2, Taken
      <4> QED
        BY <2>2, <4>3
    <3>2. After(ch, d, o) = IF k = n THEN NoObject ELSE s[k + 1]
      <4>1. \A i \in 1..n : s[i] = o <=> i = k
        BY <2>3, <2>4, <2>7
      <4> DEFINE at == CHOOSE i \in 1..Len(ch[d]) : ch[d][i] = o
      <4>2. at = k
        BY <2>2, <4>1
      <4>3. After(ch, d, o) = IF at = Len(ch[d]) THEN NoObject ELSE ch[d][at + 1]
        BY DEF After
      <4> HIDE DEF at
      <4> QED
        BY <2>2, <4>2, <4>3
    <3>3. PICK next : next = After(ch, d, o)
      OBVIOUS
    <3>4. Told(ch, f, o) = [dirObj |-> d, next |-> next, removed |-> FALSE]
      BY <1>1, <2>1, <2>7, <3>3 DEF Told
    <3>5. CASE k = n
      <4>1. next = NoObject
        BY <3>2, <3>3, <3>5
      <4>2. ever \ {o} \subseteq got
        <5> SUFFICES ASSUME NEW x \in ever \ {o}, x \notin got PROVE FALSE
          OBVIOUS
        <5>1. PICK j \in k..n : s[j] = x
          BY <2>3
        <5>2. j = k
          BY <3>5, <5>1
        <5> QED
          BY <2>3, <2>7, <5>1, <5>2
      <4> QED
        BY <3>4, <4>1, <4>2 DEF Goes, Contexts
    <3>6. CASE k # n
      <4>1. k \in 1..(n - 1) /\ next = s[k + 1] /\ next = t[k] /\ next \in Objects
        BY <2>2, <3>1, <3>2, <3>3, <3>6
      <4>2. \A j \in k..(n - 1) : t[j] \notin got
        BY <2>3, <3>1
      <4>3. \A x \in (ever \ {o}) \ got : \E j \in k..(n - 1) : t[j] = x
        <5> SUFFICES ASSUME NEW x \in ever, x # o, x \notin got PROVE \E j \in k..(n - 1) : t[j] = x
          OBVIOUS
        <5>1. PICK j \in k..n : s[j] = x
          BY <2>3
        <5>2. j # k
          BY <2>3, <2>7, <5>1
        <5>3. PICK i \in k..(n - 1) : i + 1 = j
          <6>1. j - 1 \in k..(n - 1) /\ j - 1 + 1 = j
            BY <5>2
          <6> QED
            BY <6>1
        <5>4. i \in 1..(n - 1) /\ ~(i < k)
          BY <5>3
        <5>5. t[i] = s[j]
          BY <3>1, <5>3, <5>4
        <5> QED
          BY <5>1, <5>5
      <4>4. Goes(Detach(ch, o), [dirObj |-> d, next |-> next, removed |-> FALSE], got, ever \ {o})
        <5>1. n - 1 = Len(t)
          BY <3>1
        <5>2. next # NoObject
          BY <4>1, RootAssumption
        <5>3. PICK g : g = [dirObj |-> d, next |-> next, removed |-> FALSE]
          OBVIOUS
        <5>4. g.next = next /\ ~g.removed /\ g.dirObj = d
          BY <5>3
        <5>5. /\ g.next # NoObject /\ ~g.removed /\ g.dirObj \in Nodes
              /\ k \in 1..Len(c[g.dirObj]) /\ c[g.dirObj][k] = g.next
              /\ \A j \in k..Len(c[g.dirObj]) : c[g.dirObj][j] \notin got
              /\ \A x \in (ever \ {o}) \ got : \E j \in k..Len(c[g.dirObj]) : c[g.dirObj][j] = x
          BY <2>6, <4>1, <4>2, <4>3, <5>1, <5>2, <5>4
        <5>6. Goes(c, g, got, ever \ {o})
          BY <5>5, Points
        <5> QED
          BY <2>6, <5>3, <5>6
      <4> QED
        BY <3>4, <4>1, <4>4 DEF Contexts
    <3> QED
      BY <3>5, <3>6
  <2>8. CASE f.next # o
    <3>1. Told(ch, f, o) = f
      BY <2>8 DEF Told
    <3>2. CASE \A i \in 1..n : s[i] # o
      <4>1. t = s
        BY <2>2, <2>5, <3>2, NotTaken
      <4>2. \A x \in (ever \ {o}) \ got : \E j \in k..n : s[j] = x
        BY <2>3
      <4> QED
        <5>1. /\ k \in 1..Len(c[f.dirObj]) /\ c[f.dirObj][k] = f.next
              /\ \A j \in k..Len(c[f.dirObj]) : c[f.dirObj][j] \notin got
              /\ \A x \in (ever \ {o}) \ got : \E j \in k..Len(c[f.dirObj]) : c[f.dirObj][j] = x
          BY <2>1, <2>2, <2>3, <2>6, <4>1, <4>2
        <5>2. Goes(c, f, got, ever \ {o})
          BY <1>3, <2>1, <5>1, Points
        <5> QED
          BY <2>6, <3>1, <5>2
    <3>3. CASE \E i \in 1..n : s[i] = o
      <4>1. PICK m \in 1..n : s[m] = o
        BY <3>3
      <4>2. t \in Seq(Objects) /\ Len(t) = n - 1 /\ \A j \in 1..(n - 1) : t[j] = IF j < m THEN s[j] ELSE s[j + 1]
        <5>1. \A j \in 1..Len(s) : s[j] = s[m] => j = m
          BY <2>2, <2>4
        <5>2. m \in 1..Len(s) /\ o = s[m]
          BY <2>2, <4>1
        <5>3. /\ t \in Seq(Objects) /\ Len(t) = Len(s) - 1
              /\ \A j \in 1..Len(t) : t[j] = IF j < m THEN s[j] ELSE s[j + 1]
          BY <2>5, <5>1, <5>2, Taken
        <5> QED
          BY <2>2, <5>3
      <4>3. m # k
        BY <2>3, <2>8, <4>1
      <4> DEFINE p == IF m < k THEN k - 1 ELSE k
      <4>4. p \in 1..(n - 1) /\ t[p] = f.next
        BY <2>3, <4>2, <4>3
      <4>5. \A j \in p..(n - 1) : t[j] \notin got
        <5> SUFFICES ASSUME NEW j \in p..(n - 1) PROVE t[j] \notin got
          OBVIOUS
        <5>1. CASE j < m
          BY <2>3, <4>2, <4>3, <5>1
        <5>2. CASE ~(j < m)
          <6>1. j + 1 \in k..n /\ j \in 1..(n - 1)
            BY <4>3, <4>4
          <6> QED
            BY <2>3, <4>2, <5>2, <6>1
        <5> QED
          BY <5>1, <5>2
      <4>6. \A x \in (ever \ {o}) \ got : \E j \in p..(n - 1) : t[j] = x
        <5> SUFFICES ASSUME NEW x \in ever, x # o, x \notin got PROVE \E j \in p..(n - 1) : t[j] = x
          OBVIOUS
        <5>1. PICK j \in k..n : s[j] = x
          BY <2>3
        <5>2. j # m
          BY <4>1, <5>1
        <5>3. CASE j < m
          <6>1. j \in p..(n - 1) /\ j \in 1..(n - 1)
            BY <5>3
          <6> QED
            BY <4>2, <5>1, <5>3, <6>1
        <5>4. CASE m < j
          <6>1. j - 1 \in p..(n - 1) /\ j - 1 \in 1..(n - 1) /\ ~(j - 1 < m) /\ j - 1 + 1 = j
            BY <4>3, <5>4
          <6> QED
            BY <4>2, <5>1, <6>1
        <5> QED
          BY <5>2, <5>3, <5>4
      <4> HIDE DEF p
      <4>7. n - 1 = Len(t)
        BY <4>2
      <4>8. /\ p \in 1..Len(c[f.dirObj]) /\ c[f.dirObj][p] = f.next
            /\ \A j \in p..Len(c[f.dirObj]) : c[f.dirObj][j] \notin got
            /\ \A x \in (ever \ {o}) \ got : \E j \in p..Len(c[f.dirObj]) : c[f.dirObj][j] = x
        BY <2>1, <2>6, <4>4, <4>5, <4>6, <4>7
      <4>9. Goes(c, f, got, ever \ {o})
        BY <1>3, <2>1, <4>8, Points
      <4> QED
        BY <2>6, <3>1, <4>9
    <3> QED
      BY <3>2, <3>3
  <2> QED
    BY <2>7, <2>8
<1> QED
  BY <1>2, <1>3

\* The lists with o first in that of d.
Put(ch, d, o) == [ch EXCEPT ![d] = <<o>> \o @]

\* A new first child does not concern the searches.
LEMMA GoesStill ==
    ASSUME NEW ch \in [Nodes -> Seq(Objects)], NEW o \in Objects, NEW d \in Nodes,
           NEW c, c = Put(ch, d, o),
           NEW f, NEW got, NEW ever, Goes(ch, f, got, ever)
    PROVE  Goes(c, f, got, ever)
<1>1. CASE f.next = NoObject
  BY <1>1 DEF Goes
<1>2. CASE f.next # NoObject /\ f.dirObj # d
  <2>1. f.dirObj \in Nodes /\ ~f.removed
    BY <1>2 DEF Goes
  <2>2. c[f.dirObj] = ch[f.dirObj]
    BY <1>2, <2>1 DEF Put
  <2> QED
    BY <1>2, <2>2 DEF Goes
<1>3. CASE f.next # NoObject /\ f.dirObj = d
  <2>1. PICK s \in Seq(Objects), n \in Nat : s = ch[d] /\ n = Len(s)
    <3>1. ch[d] \in Seq(Objects)
      OBVIOUS
    <3>2. Len(ch[d]) \in Nat
      BY <3>1
    <3> QED
      BY <3>1, <3>2
  <2>2. PICK k \in 1..n :
          /\ s[k] = f.next
          /\ \A j \in k..n : s[j] \notin got
          /\ \A x \in ever \ got : \E j \in k..n : s[j] = x
    BY <1>3, <2>1 DEF Goes
  <2>3. PICK t : t = <<o>> \o s
    OBVIOUS
  <2>4. t \in Seq(Objects) /\ Len(t) = n + 1 /\ \A j \in 1..n : t[j + 1] = s[j]
    BY <2>1, <2>3
  <2>5. c[d] = t
    BY <2>1, <2>3 DEF Put
  <2>6. k + 1 \in 1..(n + 1) /\ t[k + 1] = f.next
    BY <2>2, <2>4
  <2>7. ASSUME NEW j \in k + 1..(n + 1) PROVE t[j] \notin got
    <3>1. PICK i \in k..n : i + 1 = j
      <4>1. j - 1 \in k..n /\ j - 1 + 1 = j
        OBVIOUS
      <4> QED
        BY <4>1
    <3>2. t[j] = s[i]
      BY <2>4, <3>1
    <3> QED
      BY <2>2, <3>2
  <2>8. ASSUME NEW x \in ever, x \notin got PROVE \E j \in k + 1..(n + 1) : t[j] = x
    <3>1. PICK i \in k..n : s[i] = x
      BY <2>2, <2>8
    <3>2. i + 1 \in k + 1..(n + 1) /\ t[i + 1] = s[i]
      BY <2>4, <3>1
    <3> QED
      BY <3>1, <3>2
  <2>9. f.dirObj \in Nodes /\ ~f.removed
    BY <1>3 DEF Goes
  <2>10. PICK m : m = k + 1
    OBVIOUS
  <2>11. /\ m \in 1..Len(c[f.dirObj]) /\ c[f.dirObj][m] = f.next
         /\ \A j \in m..Len(c[f.dirObj]) : c[f.dirObj][j] \notin got
         /\ \A x \in ever \ got : \E j \in m..Len(c[f.dirObj]) : c[f.dirObj][j] = x
    <3>1. PICK e : e = f.dirObj /\ c[e] = t
      BY <1>3, <2>5
    <3>2. m \in 1..Len(c[e]) /\ c[e][m] = f.next
      BY <2>4, <2>6, <2>10, <3>1
    <3>3. \A j \in m..Len(c[e]) : c[e][j] \notin got
      BY <2>4, <2>7, <2>10, <3>1
    <3>4. \A x \in ever \ got : \E j \in m..Len(c[e]) : c[e][j] = x
      BY <2>4, <2>8, <2>10, <3>1
    <3> QED
      BY <3>1, <3>2, <3>3, <3>4
  <2> QED
    <3>1. f.next # NoObject
      BY <1>3
    <3> HIDE <1>3
    <3>2. \E i \in 1..Len(c[f.dirObj]) :
            /\ c[f.dirObj][i] = f.next
            /\ \A j \in i..Len(c[f.dirObj]) : c[f.dirObj][j] \notin got
            /\ \A x \in ever \ got : \E j \in i..Len(c[f.dirObj]) : c[f.dirObj][j] = x
      BY <2>11, Zenon
    <3> QED
      BY <2>9, <3>1, <3>2, Zenon DEF Goes
<1> QED
  BY <1>1, <1>2, <1>3

\* The lists c are the lists ch without o, or with o in that of d.
Lacks(c, ch, o) == \A n \in Nodes : ToSet(c[n]) = ToSet(ch[n]) \ {o}
Gains(c, ch, d, o) ==
    \A n \in Nodes : ToSet(c[n]) = IF n = d THEN ToSet(ch[n]) \cup {o} ELSE ToSet(ch[n])

\* The lists that an object has left.
LEMMA Detached ==
    ASSUME NEW ch \in [Nodes -> Seq(Objects)], Once(ch), NEW o, NEW c, c = Detach(ch, o)
    PROVE  /\ c \in [Nodes -> Seq(Objects)] /\ Once(c) /\ Lacks(c, ch, o)
           /\ \A n \in Nodes : ch[n] = <<>> => c[n] = <<>>
<1>1. ASSUME NEW n \in Nodes
      PROVE  \/ c[n] = ch[n] /\ \A i \in 1..Len(ch[n]) : ch[n][i] # o
             \/ \E k \in 1..Len(ch[n]) :
                  /\ ch[n][k] = o
                  /\ c[n] \in Seq(Objects) /\ Len(c[n]) = Len(ch[n]) - 1
                  /\ \A j \in 1..Len(c[n]) : c[n][j] = IF j < k THEN ch[n][j] ELSE ch[n][j + 1]
  <2>1. c[n] = RemoveFirst(ch[n], o)
    BY DEF Detach
  <2>2. CASE \A i \in 1..Len(ch[n]) : ch[n][i] # o
    BY <2>1, <2>2, NotTaken
  <2>3. CASE \E i \in 1..Len(ch[n]) : ch[n][i] = o
    <3>1. PICK k \in 1..Len(ch[n]) : ch[n][k] = o
      BY <2>3
    <3>2. \A j \in 1..Len(ch[n]) : ch[n][j] = ch[n][k] => j = k
      BY DEF Once
    <3>3. ch[n] \in Seq(Objects)
      OBVIOUS
    <3>4. /\ c[n] \in Seq(Objects) /\ Len(c[n]) = Len(ch[n]) - 1
          /\ \A j \in 1..Len(c[n]) : c[n][j] = IF j < k THEN ch[n][j] ELSE ch[n][j + 1]
      BY <2>1, <3>1, <3>2, <3>3, Taken
    <3> QED
      BY <3>1, <3>4
  <2> QED
    BY <2>2, <2>3
<1>2. c \in [Nodes -> Seq(Objects)]
  <2>1. \A n \in Nodes : c[n] \in Seq(Objects)
    BY <1>1
  <2>2. c = [n \in Nodes |-> RemoveFirst(ch[n], o)]
    BY DEF Detach
  <2>3. c = [n \in Nodes |-> c[n]]
    BY <2>2
  <2> QED
    BY <2>1, <2>3
<1>3. ASSUME NEW n \in Nodes, NEW i \in 1..Len(c[n]), NEW m \in Nodes, NEW j \in 1..Len(c[m]),
             c[n][i] = c[m][j]
      PROVE  n = m /\ i = j
  <2>1. \A x \in Nodes : \A a \in 1..Len(c[x]) : \A b \in 1..Len(c[x]) : c[x][a] = c[x][b] => a = b
    <3> SUFFICES ASSUME NEW x \in Nodes, NEW a \in 1..Len(c[x]), NEW b \in 1..Len(c[x]), c[x][a] = c[x][b]
                 PROVE  a = b
      OBVIOUS
    <3>1. ch[x] \in Seq(Objects)
      OBVIOUS
    <3>2. PICK len \in Nat : len = Len(ch[x])
      BY <3>1
    <3>3. CASE c[x] = ch[x]
      BY <3>3 DEF Once
    <3>4. CASE c[x] # ch[x]
      <4>1. PICK k \in 1..len :
              /\ Len(c[x]) = len - 1
              /\ \A y \in 1..Len(c[x]) : c[x][y] = IF y < k THEN ch[x][y] ELSE ch[x][y + 1]
        BY <1>1, <3>2, <3>4
      <4>2. \A y, z \in 1..len : ch[x][y] = ch[x][z] => y = z
        BY <3>2 DEF Once
      <4>3. a \in 1..(len - 1) /\ b \in 1..(len - 1)
        BY <4>1
      <4>4. PICK y \in 1..len : c[x][a] = ch[x][y] /\ y = IF a < k THEN a ELSE a + 1
        BY <4>1, <4>3
      <4>5. PICK z \in 1..len : c[x][b] = ch[x][z] /\ z = IF b < k THEN b ELSE b + 1
        BY <4>1, <4>3
      <4>6. y = z
        BY <4>2, <4>4, <4>5
      <4> QED
        BY <4>3, <4>4, <4>5, <4>6
    <3> QED
      BY <3>3, <3>4
  <2>2. \A x \in Nodes : \A a \in 1..Len(c[x]) : \E b \in 1..Len(ch[x]) : c[x][a] = ch[x][b]
    <3> SUFFICES ASSUME NEW x \in Nodes, NEW a \in 1..Len(c[x])
                 PROVE  \E b \in 1..Len(ch[x]) : c[x][a] = ch[x][b]
      OBVIOUS
    <3>1. ch[x] \in Seq(Objects)
      OBVIOUS
    <3>2. PICK len \in Nat : len = Len(ch[x])
      BY <3>1
    <3>3. CASE c[x] = ch[x]
      BY <3>3
    <3>4. CASE c[x] # ch[x]
      <4>1. PICK k \in 1..len :
              /\ Len(c[x]) = len - 1
              /\ \A y \in 1..Len(c[x]) : c[x][y] = IF y < k THEN ch[x][y] ELSE ch[x][y + 1]
        BY <1>1, <3>2, <3>4
      <4>2. a \in 1..(len - 1)
        BY <4>1
      <4>3. a \in 1..len /\ a + 1 \in 1..len
        BY <4>2
      <4> QED
        BY <3>2, <4>1, <4>2, <4>3
    <3> QED
      BY <3>3, <3>4
  <2>3. PICK a \in 1..Len(ch[n]) : c[n][i] = ch[n][a]
    BY <2>2
  <2>4. PICK b \in 1..Len(ch[m]) : c[m][j] = ch[m][b]
    BY <2>2
  <2>5. n = m
    <3>1. ch[n][a] = ch[m][b]
      BY <1>3, <2>3, <2>4
    <3>2. ch[n][a] = ch[m][b] => n = m /\ a = b
      BY DEF Once
    <3> QED
      BY <3>1, <3>2
  <2> QED
    BY <1>3, <2>1, <2>5
<1>4. ASSUME NEW n \in Nodes PROVE ToSet(c[n]) = ToSet(ch[n]) \ {o}
  <2>1. ch[n] \in Seq(Objects) /\ c[n] \in Seq(Objects)
    BY <1>2
  <2>2. PICK len \in Nat : len = Len(ch[n])
    BY <2>1
  <2>3. ToSet(c[n]) = {c[n][i] : i \in 1..Len(c[n])} /\ ToSet(ch[n]) = {ch[n][i] : i \in 1..len}
    BY <2>1, <2>2 DEF ToSet
  <2>4. CASE \A i \in 1..len : ch[n][i] # o
    <3>1. c[n] = ch[n]
      BY <1>1, <2>2, <2>4
    <3> QED
      BY <2>2, <2>3, <2>4, <3>1
  <2>5. CASE \E i \in 1..len : ch[n][i] = o
    <3>1. PICK k \in 1..len :
            /\ ch[n][k] = o /\ Len(c[n]) = len - 1
            /\ \A j \in 1..(len - 1) : c[n][j] = IF j < k THEN ch[n][j] ELSE ch[n][j + 1]
      BY <1>1, <2>2, <2>5
    <3>2. \A y, z \in 1..len : ch[n][y] = ch[n][z] => y = z
      BY <2>2 DEF Once
    <3>3. ASSUME NEW j \in 1..(len - 1) PROVE c[n][j] \in ToSet(ch[n]) \ {o}
      <4>1. PICK y \in 1..len : c[n][j] = ch[n][y] /\ y # k
        <5>1. j \in 1..len /\ j + 1 \in 1..len
          OBVIOUS
        <5> QED
          BY <3>1, <5>1
      <4> QED
        BY <2>3, <3>1, <3>2, <4>1
    <3>4. ASSUME NEW y \in 1..len, ch[n][y] # o PROVE \E j \in 1..(len - 1) : c[n][j] = ch[n][y]
      <4>1. y # k
        BY <3>1, <3>4
      <4>2. CASE y < k
        <5>1. y \in 1..(len - 1)
          BY <4>2
        <5> QED
          BY <3>1, <4>2, <5>1
      <4>3. CASE y > k
        <5>1. PICK i \in 1..(len - 1) : i + 1 = y /\ ~(i < k)
          <6>1. y - 1 \in 1..(len - 1) /\ y - 1 + 1 = y /\ ~(y - 1 < k)
            BY <4>3
          <6> QED
            BY <6>1
        <5>2. c[n][i] = ch[n][y]
          BY <3>1, <5>1
        <5> QED
          BY <5>2
      <4> QED
        BY <4>1, <4>2, <4>3
    <3>5. ToSet(c[n]) = {c[n][i] : i \in 1..(len - 1)}
      BY <2>3, <3>1
    <3>6. ToSet(c[n]) \subseteq ToSet(ch[n]) \ {o}
      BY <3>3, <3>5
    <3>7. ToSet(ch[n]) \ {o} \subseteq ToSet(c[n])
      <4> SUFFICES ASSUME NEW x \in ToSet(ch[n]), x # o PROVE x \in ToSet(c[n])
        OBVIOUS
      <4>1. PICK y \in 1..len : x = ch[n][y]
        BY <2>3
      <4>2. PICK j \in 1..(len - 1) : c[n][j] = ch[n][y]
        BY <3>4, <4>1
      <4> QED
        BY <3>5, <4>1, <4>2
    <3> QED
      BY <3>6, <3>7
  <2> QED
    BY <2>4, <2>5
<1>5. ASSUME NEW n \in Nodes, ch[n] = <<>> PROVE c[n] = <<>>
  <2>1. Len(ch[n]) = 0
    BY <1>5
  <2> QED
    BY <1>1, <1>5, <2>1
<1>6. Once(c)
  BY <1>3 DEF Once
<1> QED
  BY <1>2, <1>4, <1>5, <1>6 DEF Lacks

\* The lists with a new first child.
LEMMA Added ==
    ASSUME NEW ch \in [Nodes -> Seq(Objects)], Once(ch), NEW o \in Objects, NEW d \in Nodes,
           \A n \in Nodes : o \notin ToSet(ch[n]),
           NEW c, c = Put(ch, d, o)
    PROVE  c \in [Nodes -> Seq(Objects)] /\ Once(c) /\ Gains(c, ch, d, o)
<1>1. PICK s \in Seq(Objects), len \in Nat : s = ch[d] /\ len = Len(s)
  <2>1. ch[d] \in Seq(Objects)
    OBVIOUS
  <2>2. Len(ch[d]) \in Nat
    BY <2>1
  <2> QED
    BY <2>1, <2>2
<1>2. PICK t : t = <<o>> \o s
  OBVIOUS
<1>3. t \in Seq(Objects) /\ Len(t) = len + 1 /\ t[1] = o /\ \A j \in 2..(len + 1) : t[j] = s[j - 1]
  BY <1>1, <1>2
<1>4. c = [ch EXCEPT ![d] = t]
  BY <1>1, <1>2 DEF Put
<1>5. c \in [Nodes -> Seq(Objects)] /\ c[d] = t /\ \A n \in Nodes : n # d => c[n] = ch[n]
  BY <1>3, <1>4
<1>6. \A n \in Nodes : \A i \in 1..Len(ch[n]) : ch[n][i] # o
  <2> SUFFICES ASSUME NEW n \in Nodes, NEW i \in 1..Len(ch[n]), ch[n][i] = o PROVE FALSE
    OBVIOUS
  <2>1. ch[n] \in Seq(Objects)
    OBVIOUS
  <2>2. ch[n][i] \in ToSet(ch[n])
    BY <2>1 DEF ToSet
  <2> QED
    BY <2>2
<1>7. ASSUME NEW n \in Nodes, NEW i \in 1..Len(c[n])
      PROVE  \/ n = d /\ i = 1 /\ c[n][i] = o
             \/ /\ c[n][i] # o
                /\ \E a \in 1..Len(ch[n]) : c[n][i] = ch[n][a] /\ i = IF n = d THEN a + 1 ELSE a
  <2>1. CASE n # d
    <3>1. c[n] = ch[n]
      BY <1>5, <2>1
    <3> QED
      BY <1>6, <2>1, <3>1
  <2>2. CASE n = d
    <3>1. c[n] = t /\ i \in 1..(len + 1)
      BY <1>3, <1>5, <2>2
    <3>2. CASE i = 1
      BY <1>3, <2>2, <3>1, <3>2
    <3>3. CASE i # 1
      <4>1. PICK a \in 1..len : a = i - 1 /\ i = a + 1
        <5>1. i - 1 \in 1..len /\ i = i - 1 + 1
          BY <3>1, <3>3
        <5> QED
          BY <5>1
      <4>2. c[n][i] = s[a]
        <5>1. i \in 2..(len + 1)
          BY <3>1, <3>3
        <5> QED
          BY <1>3, <3>1, <4>1, <5>1
      <4>3. s[a] # o
        BY <1>1, <1>6
      <4> QED
        BY <1>1, <2>2, <4>1, <4>2, <4>3
    <3> QED
      BY <3>2, <3>3
  <2> QED
    BY <2>1, <2>2
<1>8. Once(c)
  <2> SUFFICES ASSUME NEW n \in Nodes, NEW i \in 1..Len(c[n]), NEW m \in Nodes, NEW j \in 1..Len(c[m]),
                      c[n][i] = c[m][j]
               PROVE  n = m /\ i = j
    BY DEF Once
  <2>1. CASE c[n][i] = o
    <3>1. n = d /\ i = 1 /\ m = d /\ j = 1
      BY <1>7, <2>1
    <3> QED
      BY <3>1
  <2>2. CASE c[n][i] # o
    <3>1. PICK a \in 1..Len(ch[n]) : c[n][i] = ch[n][a] /\ i = IF n = d THEN a + 1 ELSE a
      BY <1>7, <2>2
    <3>2. PICK b \in 1..Len(ch[m]) : c[m][j] = ch[m][b] /\ j = IF m = d THEN b + 1 ELSE b
      BY <1>7, <2>2
    <3>3. ch[n][a] = ch[m][b] => n = m /\ a = b
      BY DEF Once
    <3> QED
      BY <3>1, <3>2, <3>3
  <2> QED
    BY <2>1, <2>2
<1>9. ASSUME NEW n \in Nodes
      PROVE  ToSet(c[n]) = IF n = d THEN ToSet(ch[n]) \cup {o} ELSE ToSet(ch[n])
  <2>1. CASE n # d
    BY <1>5, <2>1
  <2>2. CASE n = d
    <3>1. ToSet(t) = {t[i] : i \in 1..(len + 1)} /\ ToSet(s) = {s[i] : i \in 1..len}
      BY <1>1, <1>3 DEF ToSet
    <3>2. \A i \in 1..len : i + 1 \in 1..(len + 1) /\ t[i + 1] = s[i]
      BY <1>1, <1>2
    <3>3. ToSet(t) \subseteq ToSet(s) \cup {o}
      <4> SUFFICES ASSUME NEW x \in ToSet(t), x # o PROVE x \in ToSet(s)
        OBVIOUS
      <4>1. PICK i \in 1..(len + 1) : x = t[i]
        BY <3>1
      <4>2. i - 1 \in 1..len /\ t[i] = s[i - 1]
        BY <1>3, <4>1
      <4> QED
        BY <3>1, <4>1, <4>2
    <3>4. ToSet(s) \cup {o} \subseteq ToSet(t)
      <4>1. o \in ToSet(t)
        BY <1>3, <3>1
      <4>2. ASSUME NEW x \in ToSet(s) PROVE x \in ToSet(t)
        <5>1. PICK i \in 1..len : x = s[i]
          BY <3>1
        <5> QED
          BY <3>1, <3>2, <5>1
      <4> QED
        BY <4>1, <4>2
    <3> QED
      BY <1>1, <1>5, <2>2, <3>3, <3>4
  <2> QED
    BY <2>1, <2>2
<1> QED
  BY <1>5, <1>8, <1>9 DEF Gains

\* An object is removed, with it the directory that it may be: the searches that
\* point at it go on, the searches of it point nowhere.
LEMMA GoesFreed ==
    ASSUME NEW ch \in [Nodes -> Seq(Objects)], Once(ch), NEW o, o # NoObject, ch[o] = <<>>,
           NEW found \in [Searches -> Contexts], NEW got, NEW ever,
           \A s \in Searches : Goes(ch, found[s], got[s], ever[s])
    PROVE  LET next == Freed(Advanced(found, ch, o), o) IN
           /\ next \in [Searches -> Contexts]
           /\ \A s \in Searches : Goes(Detach(ch, o), next[s], got[s], ever[s] \ {o})
<1> DEFINE told == Advanced(found, ch, o)
           next == Freed(told, o)
<1>1. PICK c : c = Detach(ch, o)
  OBVIOUS
<1>2. c \in [Nodes -> Seq(Objects)] /\ \A n \in Nodes : ch[n] = <<>> => c[n] = <<>>
  BY <1>1, Detached
<1>3. ASSUME NEW s \in Searches
      PROVE  told[s] = Told(ch, found[s], o) /\ told[s] \in Contexts /\ Goes(c, told[s], got[s], ever[s] \ {o})
  <2>1. told[s] = Told(ch, found[s], o)
    BY DEF Advanced, Told
  <2>2. found[s] \in Contexts /\ Goes(ch, found[s], got[s], ever[s])
    OBVIOUS
  <2>3. Goes(Detach(ch, o), Told(ch, found[s], o), got[s], ever[s] \ {o}) /\ Told(ch, found[s], o) \in Contexts
    BY <2>2, GoesOn
  <2> HIDE DEF told
  <2> QED
    BY <1>1, <2>1, <2>3
<1>4. ASSUME NEW s \in Searches
      PROVE  next[s] \in Contexts /\ Goes(c, next[s], got[s], ever[s] \ {o})
  <2>1. PICK f \in Contexts : f = told[s] /\ Goes(c, f, got[s], ever[s] \ {o})
    BY <1>3
  <2>2. next[s] = IF f.dirObj = o THEN [f EXCEPT !.removed = TRUE] ELSE f
    BY <2>1 DEF Freed
  <2> HIDE DEF told, next
  <2>3. CASE f.dirObj # o
    BY <2>1, <2>2, <2>3
  <2>4. CASE f.dirObj = o
    <3>1. f = [dirObj |-> f.dirObj, next |-> f.next, removed |-> f.removed]
          /\ f.dirObj \in Nodes \cup {NoObject} /\ f.next \in Objects \cup {NoObject}
      BY DEF Contexts
    <3>2. o \in Nodes
      BY <2>4, <3>1
    <3>3. c[o] = <<>> /\ Len(c[o]) = 0
      BY <1>2, <3>2
    <3>4. f.next = NoObject
      BY <2>1, <2>4, <3>3 DEF Goes
    <3>5. ever[s] \ {o} \subseteq got[s]
      BY <2>1, <3>4 DEF Goes
    <3>6. PICK g : g = [dirObj |-> o, next |-> NoObject, removed |-> TRUE]
      OBVIOUS
    <3>7. next[s] = g
      BY <2>2, <2>4, <3>1, <3>4, <3>6
    <3>8. g \in Contexts /\ g.next = NoObject
      BY <3>2, <3>6 DEF Contexts
    <3>9. Goes(c, g, got[s], ever[s] \ {o})
      BY <3>5, <3>8, Zenon DEF Goes
    <3> QED
      BY <3>7, <3>8, <3>9
  <2> QED
    BY <2>3, <2>4
<1>5. next = [s \in Searches |-> next[s]]
  BY DEF Freed
<1>6. next \in [Searches -> Contexts]
  <2> HIDE DEF next, told
  <2> QED
    BY <1>4, <1>5
<1> QED
  BY <1>1, <1>4, <1>6

(***************************************************************************)
(* Looking up a path.                                                      *)
(***************************************************************************)

\* What is in a directory exists.
LEMMA Listed ==
    ASSUME IInv, NEW d \in Nodes, NEW o \in ChildrenOf(d)
    PROVE  o \in Objects /\ kind[o] # "absent" /\ o # NoObject /\ o \in Nodes
<1>1. children[d] \in Seq(Objects)
  BY DEF IInv, Types
<1>2. o \in Objects
  BY <1>1 DEF ChildrenOf, ToSet
<1> QED
  BY <1>2, RootAssumption DEF IInv, OnePlace, Nodes

\* A look-up of a directory finds one.
LEMMA DirectoryFound ==
    ASSUME NEW path, DirectoryOf(path).why = "ok"
    PROVE  DirectoryOf(path).dir \in Directory
<1>1. PICK end : end = Reached(Root, path, 0, NestedLookUp[StackLimit - 1])
  OBVIOUS
<1>2. ASSUME NEW why PROVE Fails(why).why = why
  BY DEF Fails
<1>3. CASE 0 > YAFFSFS_MAX_SYMLINK_DEREFERENCES
  BY <1>3, LimitsAssumption
<1>4. CASE ~(0 > YAFFSFS_MAX_SYMLINK_DEREFERENCES) /\ 0 <= YAFFSFS_MAX_SYMLINK_DEREFERENCES /\ end.why # "ok"
  <2>1. DirectoryOf(path) = Fails(end.why)
    BY <1>1, <1>4 DEF DirectoryOf, FindDirectory, LastIn
  <2> QED
    BY <1>2, <1>4, <2>1
<1>5. CASE ~(0 > YAFFSFS_MAX_SYMLINK_DEREFERENCES) /\ end.why = "ok" /\ end.obj \notin Directory
  <2>1. DirectoryOf(path) = Fails("none")
    BY <1>1, <1>5 DEF DirectoryOf, FindDirectory, LastIn
  <2> QED
    BY <1>2, <2>1
<1>6. CASE ~(0 > YAFFSFS_MAX_SYMLINK_DEREFERENCES) /\ end.why = "ok" /\ end.obj \in Directory
  <2>1. DirectoryOf(path) = [dir |-> end.obj, name |-> Last(path), obj |-> NoObject, why |-> "ok"]
    BY <1>1, <1>6 DEF DirectoryOf, FindDirectory, LastIn
  <2> QED
    BY <1>6, <2>1
<1> QED
  BY <1>3, <1>4, <1>5, <1>6, LimitsAssumption

\* yaffs_find_by_name finds the child of that name, if there is one.
LEMMA NameFound ==
    ASSUME IInv, NEW d \in Nodes, NEW n
    PROVE  /\ FindByName(d, n) = NoObject => \A o \in ChildrenOf(d) : name[o] # n
           /\ FindByName(d, n) # NoObject =>
                FindByName(d, n) \in ChildrenOf(d) /\ name[FindByName(d, n)] = n
<1>1. \A o \in ChildrenOf(d) : o # NoObject
  BY Listed
<1>2. CASE \E o \in ChildrenOf(d) : name[o] = n
  <2>1. FindByName(d, n) = CHOOSE o \in ChildrenOf(d) : name[o] = n
    BY <1>2 DEF FindByName
  <2>2. FindByName(d, n) \in ChildrenOf(d) /\ name[FindByName(d, n)] = n
    BY <1>2, <2>1
  <2> QED
    BY <1>1, <2>2
<1>3. CASE ~ \E o \in ChildrenOf(d) : name[o] = n
  BY <1>3 DEF FindByName
<1> QED
  BY <1>2, <1>3

\* What a path leads to exists; with a name at its end it is that of the directory.
LEMMA ObjectFound ==
    ASSUME IInv, NEW path
    PROVE  /\ ObjectOf(path) # NoObject =>
                ObjectOf(path) \in Nodes /\ kind[ObjectOf(path)] # "absent"
           /\ DirectoryOf(path).why = "ok" /\ DirectoryOf(path).name # "" =>
                ObjectOf(path) = FindByName(DirectoryOf(path).dir, DirectoryOf(path).name)
<1>1. PICK d : d = DirectoryOf(path)
  OBVIOUS
<1>2. ObjectOf(path) = IF d.why # "ok" THEN NoObject
                       ELSE IF d.name = "" THEN d.dir ELSE FindByName(d.dir, d.name)
  BY <1>1 DEF ObjectOf, FindObject, ObjectIn, DirectoryOf, Fails, Found
<1>3. CASE d.why # "ok"
  BY <1>1, <1>2, <1>3
<1>4. CASE d.why = "ok"
  <2>1. d.dir \in Directory
    BY <1>1, <1>4, DirectoryFound
  <2>2. d.dir \in Nodes /\ kind[d.dir] = "dir"
    BY <2>1 DEF Directory
  <2>3. CASE d.name = ""
    BY <1>1, <1>2, <1>4, <2>2, <2>3
  <2>4. CASE d.name # ""
    <3>1. ObjectOf(path) = FindByName(d.dir, d.name)
      BY <1>2, <1>4, <2>4
    <3>2. FindByName(d.dir, d.name) # NoObject => FindByName(d.dir, d.name) \in ChildrenOf(d.dir)
      BY <2>2, NameFound
    <3> QED
      BY <1>1, <2>2, <3>1, <3>2, Listed
  <2> QED
    BY <2>3, <2>4
<1> QED
  BY <1>3, <1>4

(***************************************************************************)
(* Places in the lists, while an object is between two of them.            *)
(***************************************************************************)

\* Of the objects only those of there are in the lists, once and under one name.
Located(there, nm, ch) ==
    /\ Once(ch)
    /\ \A o \in Objects : o \in there <=> \E d \in Nodes : o \in ToSet(ch[d])
    /\ \A d \in Nodes : \A o, p \in ToSet(ch[d]) : nm[o] = nm[p] => o = p

There == {o \in Objects : kind[o] # "absent"}

\* What exists is located.
LEMMA IsLocated ==
    ASSUME OnePlace
    PROVE  Located(There, name, children)
<1>1. Once(children)
  BY DEF OnePlace, Once
<1>2. \A o \in Objects : o \in There <=> \E d \in Nodes : o \in ToSet(children[d])
  BY DEF OnePlace, There, ChildrenOf
<1>3. \A d \in Nodes : \A o, p \in ToSet(children[d]) : name[o] = name[p] => o = p
  BY DEF OnePlace, ChildrenOf
<1> QED
  BY <1>1, <1>2, <1>3 DEF Located

\* Where there are only children of directories, what is located has one place.
LEMMA HasOnePlace ==
    ASSUME Located(There, name, children)', (\A d \in Nodes : children[d] # <<>> => kind[d] = "dir")'
    PROVE  OnePlace'
<1>1. Once(children)'
  BY DEF Located
<1>2. \A o \in Objects : (kind'[o] # "absent") <=> \E d \in Nodes : o \in ToSet(children'[d])
  BY DEF Located, There
<1>3. \A d \in Nodes : \A o, p \in ToSet(children'[d]) : name'[o] = name'[p] => o = p
  BY DEF Located
<1> QED
  BY <1>1, <1>2, <1>3 DEF OnePlace, Once, ChildrenOf

\* An object leaves.
LEMMA LocatedLess ==
    ASSUME NEW there, NEW nm, NEW ch \in [Nodes -> Seq(Objects)], Located(there, nm, ch), NEW o
    PROVE  Located(there \ {o}, nm, Detach(ch, o)) /\ Detach(ch, o) \in [Nodes -> Seq(Objects)]
<1>1. PICK c : c = Detach(ch, o)
  OBVIOUS
<1>2. Once(ch)
  BY DEF Located
<1>3. c \in [Nodes -> Seq(Objects)] /\ Once(c) /\ Lacks(c, ch, o)
  BY <1>1, <1>2, Detached
<1>4. \A q \in Objects : q \in there \ {o} <=> \E d \in Nodes : q \in ToSet(c[d])
  BY <1>3 DEF Located, Lacks
<1>5. \A d \in Nodes : \A q, p \in ToSet(c[d]) : nm[q] = nm[p] => q = p
  BY <1>3 DEF Located, Lacks
<1> QED
  BY <1>1, <1>3, <1>4, <1>5 DEF Located

\* What there is keeps its name; nothing in the list of d is called n.
SameNames(there, nm, nm2) == \A p \in there : nm2[p] = nm[p]
Unused(ch, d, nm, n) == \A p \in ToSet(ch[d]) : nm[p] # n

\* An object comes first in a list where nothing has its name.
LEMMA LocatedMore ==
    ASSUME NEW there, NEW nm, NEW ch \in [Nodes -> Seq(Objects)], Located(there, nm, ch),
           NEW o \in Objects \ there, NEW d \in Nodes, NEW nm2,
           SameNames(there, nm, nm2), Unused(ch, d, nm, nm2[o]), NEW c, c = Put(ch, d, o)
    PROVE  Located(there \cup {o}, nm2, c) /\ c \in [Nodes -> Seq(Objects)]
<1>1. Once(ch) /\ \A n \in Nodes : o \notin ToSet(ch[n])
  BY DEF Located
<1>2. c \in [Nodes -> Seq(Objects)] /\ Once(c) /\ Gains(c, ch, d, o)
  BY <1>1, Added
<1>3. \A q \in Objects : q \in there \cup {o} <=> \E n \in Nodes : q \in ToSet(c[n])
  BY <1>2 DEF Located, Gains
<1>4. \A n \in Nodes : ToSet(ch[n]) \subseteq there
  <2> SUFFICES ASSUME NEW n \in Nodes, NEW p \in ToSet(ch[n]) PROVE p \in there
    OBVIOUS
  <2>1. ch[n] \in Seq(Objects)
    OBVIOUS
  <2>2. p \in Objects
    BY <2>1 DEF ToSet
  <2> QED
    BY <2>2 DEF Located
<1>5. ASSUME NEW n \in Nodes, NEW q \in ToSet(c[n]), NEW p \in ToSet(c[n]), nm2[q] = nm2[p]
      PROVE  q = p
  <2>1. CASE q \in ToSet(ch[n]) /\ p \in ToSet(ch[n])
    BY <1>4, <1>5, <2>1 DEF Located, SameNames
  <2>2. CASE q \notin ToSet(ch[n]) \/ p \notin ToSet(ch[n])
    <3>1. n = d
      BY <1>2, <2>2 DEF Gains
    <3>2. \A r \in ToSet(ch[n]) : nm2[r] # nm2[o]
      BY <1>4, <3>1 DEF SameNames, Unused
    <3>3. q \in ToSet(ch[n]) \cup {o} /\ p \in ToSet(ch[n]) \cup {o}
      BY <1>2, <3>1 DEF Gains
    <3> QED
      BY ONLY <1>5, <2>2, <3>2, <3>3
  <2> QED
    BY <2>1, <2>2
<1> QED
  BY <1>2, <1>3, <1>5 DEF Located

(***************************************************************************)
(* No part of the tree is cut off.                                         *)
(***************************************************************************)

\* But for o, what is in the lists c is there in the lists ch.
StillIn(c, ch, o) == \A p \in Objects : \A x \in ToSet(c[p]) : x # o => x \in ToSet(ch[p])
OnlyIn(c, o, d) == \A p \in Objects : o \in ToSet(c[p]) => p = d

\* The parents of what is in A are in A.
Upward(ch, A) == \A p \in Objects : \A x \in ToSet(ch[p]) : x \in A => p \in A

\* A leaf that moves, comes or goes leaves nothing hanging in the air.
LEMMA GroundedLeaf ==
    ASSUME NEW ch, NEW c, Grounded(ch), NEW o, ToSet(c[o]) = {}, StillIn(c, ch, o)
    PROVE  Grounded(c)
<1> SUFFICES ASSUME NEW S \in SUBSET Objects, Hangs(c, S) PROVE S = {}
  BY DEF Grounded
<1>1. \A x \in S : \E d \in S : d # o /\ x \in ToSet(c[d])
  BY DEF Hangs
<1>2. Hangs(ch, S \ {o})
  <2> SUFFICES ASSUME NEW x \in S \ {o} PROVE \E d \in S \ {o} : x \in ToSet(ch[d])
    BY DEF Hangs
  <2>1. PICK d \in S : d # o /\ x \in ToSet(c[d])
    BY <1>1
  <2> QED
    BY <2>1 DEF StillIn
<1>3. S \ {o} = {}
  BY <1>2 DEF Grounded
<1> QED
  BY <1>1, <1>3

\* Neither does a branch that moves to d, where it is not found on the way up from d.
LEMMA GroundedBranch ==
    ASSUME NEW ch, NEW c, Grounded(ch), NEW o, NEW d, NEW A, d \in A, o \notin A,
           Upward(ch, A), StillIn(c, ch, o), OnlyIn(c, o, d)
    PROVE  Grounded(c)
<1> SUFFICES ASSUME NEW S \in SUBSET Objects, Hangs(c, S), S # {} PROVE FALSE
  BY DEF Grounded
<1>1. CASE o \notin S
  <2>1. Hangs(ch, S)
    BY <1>1 DEF Hangs, StillIn
  <2> QED
    BY <2>1 DEF Grounded
<1>2. CASE o \in S
  <2>1. d \in S
    BY <1>2 DEF Hangs, OnlyIn
  <2>2. Hangs(ch, S \cap A)
    <3> SUFFICES ASSUME NEW x \in S \cap A PROVE \E p \in S \cap A : x \in ToSet(ch[p])
      BY DEF Hangs
    <3>1. PICK p \in S : x \in ToSet(c[p])
      BY DEF Hangs
    <3>2. x \in ToSet(ch[p])
      BY <3>1 DEF StillIn
    <3>3. p \in A
      BY <3>2 DEF Upward
    <3> QED
      BY <3>2, <3>3
  <2> QED
    BY <2>1, <2>2 DEF Grounded
<1> QED
  BY <1>1, <1>2

\* A child has one parent.
LEMMA ParentIs ==
    ASSUME IInv, NEW p \in Nodes, NEW x \in ChildrenOf(p)
    PROVE  Parent(x) = p
<1>1. \A e \in Nodes : x \in ChildrenOf(e) => e = p
  <2> SUFFICES ASSUME NEW e \in Nodes, x \in ChildrenOf(e) PROVE e = p
    OBVIOUS
  <2>1. children[p] \in Seq(Objects) /\ children[e] \in Seq(Objects)
    BY DEF IInv, Types
  <2>2. PICK i \in 1..Len(children[p]) : children[p][i] = x
    BY <2>1 DEF ChildrenOf, ToSet
  <2>3. PICK j \in 1..Len(children[e]) : children[e][j] = x
    BY <2>1 DEF ChildrenOf, ToSet
  <2> QED
    BY <2>2, <2>3 DEF IInv, OnePlace
<1> QED
  BY <1>1 DEF Parent

\* What has no parent is in no directory.
LEMMA NoParent ==
    ASSUME NEW x, \A p \in Nodes : x \notin ChildrenOf(p)
    PROVE  Parent(x) = NoObject
BY DEF Parent

\* The set B holds the parents of its members.
Up(B) == \A p \in Nodes : \A x \in ChildrenOf(p) : x \in B => p \in B

\* Who is not below o, and one step of the way up that finds it out.
Free(o, n) == n = NoObject \/ \E B \in SUBSET Nodes : n \in B /\ o \notin B /\ Up(B)

\* The definition of MovesOutside has a solution.
LEMMA WayUpExists ==
    ASSUME IInv, NEW o \in Objects
    PROVE  \E f : f = [n \in Nodes \cup {NoObject} |->
                         IF n \in {NoObject, o} THEN n = NoObject ELSE f[Parent(n)]]
<1>1. o # NoObject
  BY RootAssumption
<1>2. ASSUME NEW n \in Nodes, n # o PROVE Parent(n) \in Nodes \cup {NoObject} /\ (Free(o, n) <=> Free(o, Parent(n)))
  <2>1. CASE \A p \in Nodes : n \notin ChildrenOf(p)
    <3>1. Parent(n) = NoObject
      BY <2>1, NoParent
    <3>2. Up({n})
      BY <2>1 DEF Up
    <3> QED
      BY <1>2, <3>1, <3>2 DEF Free
  <2>2. ASSUME NEW p \in Nodes, n \in ChildrenOf(p)
        PROVE  Parent(n) \in Nodes \cup {NoObject} /\ (Free(o, n) <=> Free(o, Parent(n)))
    <3>1. Parent(n) = p /\ n # NoObject /\ p # NoObject
      BY <2>2, ParentIs, RootAssumption DEF Nodes
    <3>2. ASSUME NEW B \in SUBSET Nodes, n \in B, o \notin B, Up(B) PROVE Free(o, p)
      <4>1. p \in B
        BY <2>2, <3>2 DEF Up
      <4> QED
        BY <3>2, <4>1 DEF Free
    <3>3. ASSUME NEW B \in SUBSET Nodes, p \in B, o \notin B, Up(B) PROVE Free(o, n)
      <4>1. \A q \in Nodes : n \in ChildrenOf(q) => q = p
        BY <3>1, ParentIs
      <4>2. Up(B \cup {n})
        BY <3>3, <4>1 DEF Up
      <4>3. B \cup {n} \in SUBSET Nodes /\ n \in B \cup {n} /\ o \notin B \cup {n}
        BY <1>2, <3>3
      <4> QED
        BY <4>2, <4>3 DEF Free
    <3> QED
      BY <3>1, <3>2, <3>3 DEF Free
  <2> QED
    BY <2>1, <2>2
<1>3. ~Free(o, o) /\ Free(o, NoObject)
  BY <1>1 DEF Free
<1>4. PICK f : f = [n \in Nodes \cup {NoObject} |-> IF Free(o, n) THEN TRUE ELSE FALSE]
  OBVIOUS
<1>5. ASSUME NEW n \in Nodes \cup {NoObject}
      PROVE  f[n] = IF n \in {NoObject, o} THEN n = NoObject ELSE f[Parent(n)]
  <2>1. CASE n = NoObject
    BY <1>3, <1>4, <2>1
  <2>2. CASE n = o
    BY <1>1, <1>3, <1>4, <2>2
  <2>3. CASE n \notin {NoObject, o}
    <3>1. n \in Nodes /\ n # o
      BY <2>3
    <3>2. Parent(n) \in Nodes \cup {NoObject} /\ (Free(o, n) <=> Free(o, Parent(n)))
      BY <1>2, <3>1
    <3> QED
      BY <1>4, <2>3, <3>2
  <2> QED
    BY <2>1, <2>2, <2>3
<1>6. f = [n \in Nodes \cup {NoObject} |->
             IF n \in {NoObject, o} THEN n = NoObject ELSE f[Parent(n)]]
  BY <1>4, <1>5
<1> QED
  BY <1>6

\* The way up from where an object may be moved does not meet it.
LEMMA WayUp ==
    ASSUME IInv, NEW o \in Objects, NEW d \in Nodes, MovesOutside(o, d)
    PROVE  \E A \in SUBSET Nodes :
             /\ d \in A /\ o \notin A
             /\ \A p \in Objects : \A x \in ChildrenOf(p) : x \in A => p \in A
<1> DEFINE Outside == CHOOSE f : f = [n \in Nodes \cup {NoObject} |->
                                        IF n \in {NoObject, o} THEN n = NoObject ELSE f[Parent(n)]]
<1>1. Outside[d]
  BY DEF MovesOutside
<1>2. Outside = [n \in Nodes \cup {NoObject} |->
                   IF n \in {NoObject, o} THEN n = NoObject ELSE Outside[Parent(n)]]
  BY WayUpExists
<1> HIDE DEF Outside
<1>3. PICK A : A = {n \in Nodes : Outside[n]}
  OBVIOUS
<1>4. o \in Nodes /\ ~Outside[o]
  BY <1>2, RootAssumption DEF Nodes
<1>5. ASSUME NEW p \in Objects, NEW x \in ChildrenOf(p), x \in A PROVE p \in A
  <2>1. p \in Nodes /\ Parent(x) = p
    BY ParentIs DEF Nodes
  <2>2. x \in Nodes /\ x # o /\ x # NoObject /\ Outside[x]
    BY <1>3, <1>4, <1>5, RootAssumption DEF Nodes
  <2>3. Outside[x] = Outside[p]
    BY <1>2, <2>1, <2>2
  <2> QED
    BY <1>3, <2>1, <2>2, <2>3
<1> QED
  BY <1>1, <1>3, <1>4, <1>5

(***************************************************************************)
(* The steps that change the tree.                                         *)
(***************************************************************************)

\* A new object gets its place.
LEMMA AddKeeps ==
    ASSUME IInv, NEW o \in Objects, kind[o] = "absent", NEW d \in Directory, NEW n \in Names,
           \A p \in ChildrenOf(d) : name[p] # n,
           NEW what \in Kinds \ {"absent"}, NEW to \in Aliases \cup {NoAlias}, AddChild(o, d, n, what, to)
    PROVE  IInv'
<1>1. /\ Located(There, name, children) /\ o \in Objects \ There /\ d \in Nodes /\ kind[d] = "dir"
      /\ o \in Nodes /\ o # d
  BY IsLocated DEF IInv, There, Directory, Nodes
<1>2. /\ kind \in [Nodes -> Kinds] /\ name \in [Objects -> Names \cup {NoName}]
      /\ children \in [Nodes -> Seq(Objects)] /\ kind[Root] = "dir"
      /\ alias \in [Objects -> Aliases \cup {NoAlias}] /\ broken \in BOOLEAN
  BY DEF IInv, Types
<1>3. /\ kind' = [kind EXCEPT ![o] = what] /\ name' = [name EXCEPT ![o] = n]
      /\ children' = Put(children, d, o)
      /\ alias' = [alias EXCEPT ![o] = to]
      /\ UNCHANGED <<search, returned, steady, broken>>
  BY DEF AddChild, Put
<1>4. Located(There \cup {o}, name', children') /\ children' \in [Nodes -> Seq(Objects)]
  <2>1. PICK ch, c, nm, nm2, there : /\ ch = children /\ c = children' /\ nm = name
                                     /\ nm2 = name' /\ there = There
    OBVIOUS
  <2>2. Located(there, nm, ch) /\ o \in Objects \ there /\ ch \in [Nodes -> Seq(Objects)]
    BY <1>1, <1>2, <2>1
  <2>3. c = Put(ch, d, o)
    BY <1>3, <2>1
  <2>4. SameNames(there, nm, nm2)
    BY <1>1, <1>2, <1>3, <2>1 DEF SameNames
  <2>5. Unused(ch, d, nm, nm2[o])
    BY <1>2, <1>3, <2>1 DEF Unused, ChildrenOf
  <2>6. Located(there \cup {o}, nm2, c) /\ c \in [Nodes -> Seq(Objects)]
    BY <1>1, <2>2, <2>3, <2>4, <2>5, LocatedMore
  <2> QED
    BY <2>1, <2>6
<1>5. There' = There \cup {o}
  BY <1>1, <1>2, <1>3 DEF There
<1>6. Located(There, name, children)'
  BY <1>4, <1>5
<1>7. ASSUME NEW e \in Nodes, children'[e] # <<>> PROVE kind'[e] = "dir"
  <2>1. CASE e = d
    BY <1>1, <1>2, <1>3, <2>1 DEF Put
  <2>2. CASE e # d
    <3>1. children[e] # <<>>
      BY <1>1, <1>2, <1>3, <1>7, <2>2 DEF Put
    <3>2. kind[e] = "dir"
      BY <3>1 DEF IInv, OnePlace
    <3> QED
      BY <1>1, <1>2, <1>3, <3>2
  <2> QED
    BY <2>1, <2>2
<1>8. OnePlace'
  BY <1>6, <1>7, HasOnePlace
<1>9. Types'
  <2>1. Root # o /\ kind'[Root] = "dir"
    BY <1>2, <1>3, RootAssumption DEF Nodes
  <2> QED
    BY <1>2, <1>3, <1>4, <2>1 DEF IInv, Types
<1>10. ASSUME NEW s \in Searches PROVE Goes(children', search'[s], returned'[s], steady'[s])
  <2>1. Goes(children, search[s], returned[s], steady[s])
    BY DEF IInv, Going
  <2>2. Goes(children', search[s], returned[s], steady[s])
    <3>1. PICK ch, c, f, got, ever : /\ ch = children /\ c = children' /\ f = search[s]
                                     /\ got = returned[s] /\ ever = steady[s]
      OBVIOUS
    <3>2. /\ c = Put(ch, d, o) /\ Goes(ch, f, got, ever)
          /\ ch \in [Nodes -> Seq(Objects)]
      BY <1>2, <1>3, <2>1, <3>1
    <3>3. Goes(c, f, got, ever)
      BY <1>1, <1>2, <3>2, GoesStill
    <3> QED
      BY <3>1, <3>3
  <2> QED
    BY <1>3, <2>2
<1>11. Grounded(children)'
  <2>1. PICK ch, c : ch = children /\ c = children'
    OBVIOUS
  <2>2. /\ ch \in [Nodes -> Seq(Objects)] /\ Once(ch) /\ \A m \in Nodes : o \notin ToSet(ch[m])
        /\ c = Put(ch, d, o) /\ Grounded(ch)
    BY <1>1, <1>2, <1>3, <2>1 DEF Located, IInv
  <2>3. Gains(c, ch, d, o)
    BY <1>1, <2>2, Added
  <2>4. StillIn(c, ch, o)
    BY <2>3 DEF Gains, Nodes, StillIn
  <2>5. ch[o] = <<>>
    BY <1>1, <2>1 DEF IInv, OnePlace
  <2>6. ToSet(ch[o]) = {}
    BY <2>5 DEF ToSet
  <2>7. ToSet(c[o]) = {}
    BY <1>1, <2>3, <2>6 DEF Gains
  <2>8. Grounded(c)
    BY <2>2, <2>4, <2>7, GroundedLeaf
  <2> QED
    BY <2>1, <2>8
<1> QED
  BY <1>8, <1>9, <1>10, <1>11 DEF IInv, Going

\* Where nothing is, a new object gets its place.
LEMMA VacantKeeps ==
    ASSUME IInv, NEW o \in Objects, New(o), NEW path, Vacant(path),
           NEW what \in Kinds \ {"absent"}, NEW to \in Aliases \cup {NoAlias},
           AddChild(o, DirectoryOf(path).dir, DirectoryOf(path).name, what, to)
    PROVE  IInv'
<1>1. PICK d, n : d = DirectoryOf(path).dir /\ n = DirectoryOf(path).name
  OBVIOUS
<1>2. DirectoryOf(path).why = "ok" /\ n \in Names /\ FindByName(d, n) = NoObject
  BY <1>1 DEF Vacant
<1>3. d \in Directory /\ d \in Nodes
  BY <1>1, <1>2, DirectoryFound DEF Directory
<1>4. \A p \in ChildrenOf(d) : name[p] # n
  BY <1>2, <1>3, NameFound
<1>5. AddChild(o, d, n, what, to) /\ kind[o] = "absent"
  BY <1>1 DEF New
<1> QED
  BY <1>2, <1>3, <1>4, <1>5, AddKeeps

\* The names of what is in no list do not matter.
LEMMA Renamed ==
    ASSUME NEW there, NEW nm, NEW nm2, NEW ch \in [Nodes -> Seq(Objects)], Located(there, nm, ch),
           SameNames(there, nm, nm2)
    PROVE  Located(there, nm2, ch)
<1>1. ASSUME NEW n \in Nodes, NEW p \in ToSet(ch[n]) PROVE nm2[p] = nm[p]
  <2>1. ch[n] \in Seq(Objects)
    OBVIOUS
  <2>2. p \in Objects
    BY <2>1 DEF ToSet
  <2> QED
    BY <2>2 DEF Located, SameNames
<1>2. \A d \in Nodes : \A o, p \in ToSet(ch[d]) : nm2[o] = nm2[p] => o = p
  BY <1>1 DEF Located
<1> QED
  BY <1>2 DEF Located

\* What is removed leaves its place, and the searches are told.
LEMMA UnlinkKeeps ==
    ASSUME IInv, NEW path, NEW isDirectory, DoUnlink(path, isDirectory)
    PROVE  IInv'
<1>1. PICK o \in Objects : o = ObjectOf(path)
  BY DEF DoUnlink
<1>2. /\ children[o] = <<>>
      /\ search' = Freed(Advanced(search, children, o), o)
      /\ children' = Detach(children, o)
      /\ kind' = [kind EXCEPT ![o] = "absent"]
      /\ name' = [name EXCEPT ![o] = NoName]
      /\ steady' = [s \in Searches |-> steady[s] \ {o}]
      /\ alias' = [alias EXCEPT ![o] = NoAlias]
      /\ returned' = returned /\ broken' = broken
  BY <1>1 DEF DoUnlink, NoLongerSteady
<1>3. o \in Nodes /\ o # NoObject
  BY RootAssumption DEF Nodes
<1>4. /\ kind \in [Nodes -> Kinds] /\ name \in [Objects -> Names \cup {NoName}]
      /\ children \in [Nodes -> Seq(Objects)] /\ search \in [Searches -> Contexts]
      /\ returned \in [Searches -> SUBSET Objects] /\ steady \in [Searches -> SUBSET Objects]
      /\ kind[Root] = "dir" /\ alias \in [Objects -> Aliases \cup {NoAlias}] /\ broken \in BOOLEAN
  BY DEF IInv, Types
<1>5. Located(There, name, children)
  BY IsLocated DEF IInv
<1>6. Once(children)
  BY <1>5 DEF Located
<1>7. PICK ch, found, got, ever : /\ ch = children /\ found = search
                                  /\ got = returned /\ ever = steady
  OBVIOUS
<1>8. /\ search' \in [Searches -> Contexts]
      /\ \A s \in Searches : Goes(children', search'[s], returned'[s], steady'[s])
  <2>1. \A s \in Searches : Goes(ch, found[s], got[s], ever[s])
    BY <1>7 DEF IInv, Going
  <2>2. PICK next : next = Freed(Advanced(found, ch, o), o)
    OBVIOUS
  <2>3. ch \in [Nodes -> Seq(Objects)] /\ Once(ch) /\ ch[o] = <<>> /\ found \in [Searches -> Contexts]
    BY <1>2, <1>4, <1>6, <1>7
  <2>4. /\ next \in [Searches -> Contexts]
        /\ \A s \in Searches : Goes(Detach(ch, o), next[s], got[s], ever[s] \ {o})
    BY <1>3, <2>1, <2>2, <2>3, GoesFreed
  <2>5. search' = next /\ children' = Detach(ch, o)
    BY <1>2, <1>7, <2>2
  <2>6. \A s \in Searches : returned'[s] = got[s] /\ steady'[s] = ever[s] \ {o}
    BY <1>2, <1>7
  <2> QED
    BY <2>4, <2>5, <2>6
<1>9. /\ Located(There, name, children)' /\ children' \in [Nodes -> Seq(Objects)]
  <2>1. There' = There \ {o}
    BY <1>2, <1>3, <1>4 DEF There
  <2>2. PICK nm, nm2, there : nm = name /\ nm2 = name' /\ there = There
    OBVIOUS
  <2>3. Located(there, nm, ch) /\ ch \in [Nodes -> Seq(Objects)]
    BY <1>4, <1>5, <1>7, <2>2
  <2>4. Located(there \ {o}, nm, Detach(ch, o)) /\ Detach(ch, o) \in [Nodes -> Seq(Objects)]
    BY <2>3, LocatedLess
  <2>5. SameNames(there \ {o}, nm, nm2) /\ there \subseteq Objects
    BY <1>2, <1>4, <2>2 DEF SameNames, There
  <2>6. Located(there \ {o}, nm2, Detach(ch, o))
    BY <2>4, <2>5, Renamed
  <2> QED
    BY <1>2, <1>7, <2>1, <2>2, <2>4, <2>6
<1>10. ASSUME NEW e \in Nodes, children'[e] # <<>> PROVE kind'[e] = "dir"
  <2>1. \A n \in Nodes : ch[n] = <<>> => Detach(ch, o)[n] = <<>>
    BY <1>4, <1>6, <1>7, Detached
  <2>2. children[e] # <<>>
    BY <1>2, <1>7, <1>10, <2>1
  <2>3. kind[e] = "dir" /\ e # o
    BY <1>2, <2>2 DEF IInv, OnePlace
  <2> QED
    BY <1>2, <1>4, <2>3
<1>11. OnePlace'
  BY <1>9, <1>10, HasOnePlace
<1>12. kind' \in [Nodes -> Kinds] /\ name' \in [Objects -> Names \cup {NoName}]
  BY <1>2, <1>3, <1>4 DEF Kinds
<1>13. returned' \in [Searches -> SUBSET Objects] /\ steady' \in [Searches -> SUBSET Objects]
  BY <1>2, <1>4
<1>14. /\ kind'[Root] = "dir" /\ alias' \in [Objects -> Aliases \cup {NoAlias}]
       /\ broken' \in BOOLEAN
  <2>1. Root # o
    BY RootAssumption
  <2> QED
    BY <1>2, <1>4, <2>1 DEF Nodes
<1>15. Grounded(children)'
  <2>1. PICK c : c = Detach(ch, o)
    OBVIOUS
  <2>2. Lacks(c, ch, o) /\ \A n \in Nodes : ch[n] = <<>> => c[n] = <<>>
    BY <1>4, <1>6, <1>7, <2>1, Detached
  <2>3. ToSet(c[o]) = {}
    BY <1>2, <1>3, <1>7, <2>2 DEF ToSet
  <2>4. StillIn(c, ch, o)
    BY <2>2 DEF Lacks, Nodes, StillIn
  <2>5. Grounded(ch)
    BY <1>7 DEF IInv
  <2>6. Grounded(c)
    BY <2>3, <2>4, <2>5, GroundedLeaf
  <2> QED
    BY <1>2, <1>7, <2>1, <2>6
<1> QED
  BY <1>8, <1>9, <1>11, <1>12, <1>13, <1>14, <1>15 DEF IInv, Types, Going

\* What has the new name already, if anything, is taken away first (yaffs_rename).
LEMMA ReplacedKeeps ==
    ASSUME IInv, NEW gone \in Objects \cup {NoObject}, gone # NoObject => children[gone] = <<>>,
           NEW without, without = IF gone = NoObject THEN children ELSE Detach(children, gone),
           NEW told, told = IF gone = NoObject THEN search
                            ELSE Freed(Advanced(search, children, gone), gone)
    PROVE  /\ without \in [Nodes -> Seq(Objects)] /\ Lacks(without, children, gone)
           /\ Located(There \ {gone}, name, without)
           /\ \A e \in Nodes : children[e] = <<>> => without[e] = <<>>
           /\ told \in [Searches -> Contexts]
           /\ \A s \in Searches : Goes(without, told[s], returned[s], steady[s] \ {gone})
<1>1. /\ children \in [Nodes -> Seq(Objects)] /\ search \in [Searches -> Contexts]
      /\ steady \in [Searches -> SUBSET Objects]
  BY DEF IInv, Types
<1>2. Located(There, name, children)
  BY IsLocated DEF IInv
<1>3. Once(children)
  BY <1>2 DEF Located
<1>4. PICK ch, found, got, ever, nm, there : /\ ch = children /\ found = search
                                             /\ got = returned /\ ever = steady
                                             /\ nm = name /\ there = There
  OBVIOUS
<1>5. \A s \in Searches : Goes(ch, found[s], got[s], ever[s])
  BY <1>4 DEF IInv, Going
<1>6. CASE gone = NoObject
  <2>1. \A e \in Nodes : gone \notin ToSet(children[e])
    <3> SUFFICES ASSUME NEW e \in Nodes, gone \in ToSet(children[e]) PROVE FALSE
      OBVIOUS
    <3>1. children[e] \in Seq(Objects)
      BY <1>1
    <3>2. gone \in Objects
      BY <3>1 DEF ToSet
    <3> QED
      BY <1>6, <3>2, RootAssumption
  <2>2. Lacks(without, children, gone)
    BY <1>6, <2>1 DEF Lacks
  <2>3. There \ {gone} = There
    BY <1>6, RootAssumption DEF There
  <2>4. \A s \in Searches : steady[s] \ {gone} = steady[s]
    BY <1>1, <1>6, RootAssumption
  <2>5. \A s \in Searches : Goes(without, told[s], returned[s], steady[s])
    BY <1>6 DEF IInv, Going
  <2>6. \A s \in Searches : Goes(without, told[s], returned[s], steady[s] \ {gone})
    BY <2>4, <2>5
  <2>7. Located(There \ {gone}, name, without)
    BY <1>2, <1>6, <2>3
  <2> QED
    BY <1>1, <1>6, <2>2, <2>6, <2>7
<1>7. CASE gone # NoObject
  <2>1. /\ ch \in [Nodes -> Seq(Objects)] /\ Once(ch) /\ ch[gone] = <<>>
        /\ found \in [Searches -> Contexts] /\ Located(there, nm, ch)
    BY <1>1, <1>2, <1>3, <1>4, <1>7
  <2>2. PICK next : next = Freed(Advanced(found, ch, gone), gone)
    OBVIOUS
  <2>3. /\ next \in [Searches -> Contexts]
        /\ \A s \in Searches : Goes(Detach(ch, gone), next[s], got[s], ever[s] \ {gone})
    BY <1>5, <1>7, <2>1, <2>2, GoesFreed
  <2>4. Located(there \ {gone}, nm, Detach(ch, gone)) /\ Detach(ch, gone) \in [Nodes -> Seq(Objects)]
    BY <2>1, LocatedLess
  <2>5. PICK c : c = Detach(ch, gone)
    OBVIOUS
  <2>6. Lacks(c, ch, gone) /\ \A n \in Nodes : ch[n] = <<>> => c[n] = <<>>
    BY <2>1, <2>5, Detached
  <2>7. without = c /\ told = next
    BY <1>4, <1>7, <2>2, <2>5
  <2> QED
    BY <1>4, <2>3, <2>4, <2>5, <2>6, <2>7
<1> QED
  BY <1>6, <1>7

\* What is renamed leaves one place for another, and the searches are told.
LEMMA RenameKeeps ==
    ASSUME IInv, NEW oldPath, NEW newPath, rename(oldPath, newPath)
    PROVE  IInv'
<1> DEFINE new == AltDirPath(newPath)
<1>1. PICK o \in Objects : o = ObjectOf(oldPath)
  BY DEF rename
<1>2. PICK d, n, newobj, gone : /\ d = DirectoryOf(new).dir /\ n = DirectoryOf(new).name
                                /\ newobj = ObjectOf(new) /\ gone = Replaced(o, newobj)
  OBVIOUS
<1>3. PICK W : W = IF gone = NoObject THEN children ELSE Detach(children, gone)
  OBVIOUS
<1>4. PICK T : T = IF gone = NoObject THEN search
                   ELSE Freed(Advanced(search, children, gone), gone)
  OBVIOUS
<1>5. /\ DirectoryOf(new).why = "ok" /\ n \in Names
      /\ newobj # NoObject => children[newobj] = <<>>
      /\ search' = Advanced(T, W, o)
      /\ children' = Put(Detach(W, o), d, o)
      /\ kind' = [m \in Nodes |-> IF m = gone THEN "absent" ELSE kind[m]]
      /\ name' = [m \in Objects |-> CASE m = o -> n
                                      [] m = gone -> NoName
                                      [] OTHER -> name[m]]
      /\ steady' = [s \in Searches |-> steady[s] \ {o, gone}]
      /\ alias' = [m \in Objects |-> IF m = gone THEN NoAlias ELSE alias[m]]
      /\ returned' = returned /\ broken' = broken
      /\ kind[o] = "dir" => MovesOutside(o, d)
  BY <1>1, <1>2, <1>3, <1>4 DEF rename, NoLongerSteady, Put
<1> HIDE DEF new
<1>6. d \in Nodes /\ kind[d] = "dir" /\ o \in Nodes /\ o # NoObject
  <2>1. d \in Directory
    BY <1>2, <1>5, DirectoryFound
  <2> QED
    BY <2>1, RootAssumption DEF Directory, Nodes
<1>7. kind[o] # "absent"
  BY <1>1, <1>6, ObjectFound
<1>8. newobj = FindByName(d, n)
  <2>1. DirectoryOf(new).name # ""
    BY <1>2, <1>5, NamesAssumption
  <2> QED
    BY <1>2, <1>5, <2>1, ObjectFound
<1>9. /\ newobj = NoObject => \A p \in ChildrenOf(d) : name[p] # n
      /\ newobj # NoObject => newobj \in ChildrenOf(d) /\ name[newobj] = n
  BY <1>6, <1>8, NameFound
<1>10. /\ gone \in Objects \cup {NoObject} /\ gone # o /\ newobj \in {o, gone}
       /\ gone # NoObject => gone = newobj /\ gone \in ChildrenOf(d) /\ children[gone] = <<>>
  <2>1. newobj # NoObject => newobj \in Objects
    BY <1>6, <1>9, Listed
  <2> QED
    BY <1>2, <1>5, <1>6, <1>9, <2>1 DEF Replaced
<1>11. gone # d
  <2> SUFFICES ASSUME gone = d PROVE FALSE
    OBVIOUS
  <2>1. d # NoObject
    BY <1>6, RootAssumption DEF Nodes
  <2>2. children[d] = <<>> /\ gone \in ChildrenOf(d)
    BY <1>10, <2>1
  <2> QED
    BY <2>2 DEF ChildrenOf, ToSet
<1>12. /\ W \in [Nodes -> Seq(Objects)] /\ Lacks(W, children, gone)
       /\ Located(There \ {gone}, name, W)
       /\ \A e \in Nodes : children[e] = <<>> => W[e] = <<>>
       /\ T \in [Searches -> Contexts]
       /\ \A s \in Searches : Goes(W, T[s], returned[s], steady[s] \ {gone})
  BY <1>3, <1>4, <1>10, ReplacedKeeps
<1>13. PICK V : V = Detach(W, o)
  OBVIOUS
<1>14. /\ kind \in [Nodes -> Kinds] /\ name \in [Objects -> Names \cup {NoName}]
       /\ children \in [Nodes -> Seq(Objects)] /\ search \in [Searches -> Contexts]
       /\ returned \in [Searches -> SUBSET Objects] /\ steady \in [Searches -> SUBSET Objects]
       /\ kind[Root] = "dir" /\ alias \in [Objects -> Aliases \cup {NoAlias}] /\ broken \in BOOLEAN
  BY DEF IInv, Types
<1>15. PICK got, ever, nm, nm2, there : /\ got = returned /\ ever = steady
                                        /\ nm = name /\ nm2 = name' /\ there = There \ {gone}
  OBVIOUS
<1>16. Located(there, nm, W) /\ Once(W)
  BY <1>12, <1>15 DEF Located
<1>17. /\ V \in [Nodes -> Seq(Objects)] /\ Once(V) /\ Lacks(V, W, o)
       /\ \A e \in Nodes : W[e] = <<>> => V[e] = <<>>
  BY <1>12, <1>13, <1>16, Detached
<1>18. Located(there \ {o}, nm, V)
  BY <1>12, <1>13, <1>16, LocatedLess
<1>19. Located(There, name, children)' /\ children' \in [Nodes -> Seq(Objects)]
  <2>1. SameNames(there \ {o}, nm, nm2)
    <3> SUFFICES ASSUME NEW p \in there \ {o} PROVE nm2[p] = nm[p]
      BY DEF SameNames
    <3>1. p \in Objects /\ p # o /\ p # gone
      BY <1>15 DEF There
    <3>2. name'[p] = CASE p = o -> n [] p = gone -> NoName [] OTHER -> name[p]
      BY <1>5, <3>1
    <3>3. name'[p] = name[p]
      BY <3>1, <3>2
    <3> QED
      BY <1>15, <3>3
  <2>2. nm2[o] = n
    <3>1. name'[o] = CASE o = o -> n [] o = gone -> NoName [] OTHER -> name[o]
      BY <1>5
    <3>2. name'[o] = n
      BY <1>10, <3>1
    <3> QED
      BY <1>15, <3>2
  <2>3. Unused(V, d, nm, n)
    <3> SUFFICES ASSUME NEW p \in ToSet(V[d]), name[p] = n PROVE FALSE
      BY <1>15 DEF Unused
    <3>1. p \in ChildrenOf(d) /\ p # o /\ p # gone
      BY <1>6, <1>12, <1>17 DEF Lacks, ChildrenOf
    <3>2. newobj \in ChildrenOf(d) /\ name[newobj] = n
      BY <1>9, <3>1
    <3>3. p = newobj
      BY <1>6, <3>1, <3>2 DEF IInv, OnePlace
    <3> QED
      BY <1>10, <3>1, <3>3
  <2>4. PICK c : c = children'
    OBVIOUS
  <2>5. c = Put(V, d, o) /\ o \in Objects \ (there \ {o}) /\ Unused(V, d, nm, nm2[o])
    BY <1>5, <1>13, <2>2, <2>3, <2>4
  <2>6. Located((there \ {o}) \cup {o}, nm2, c) /\ c \in [Nodes -> Seq(Objects)]
    <3>1. PICK less : less = there \ {o}
      OBVIOUS
    <3>2. Located(less, nm, V) /\ SameNames(less, nm, nm2) /\ o \in Objects \ less
      BY <1>18, <2>1, <2>5, <3>1
    <3>3. Located(less \cup {o}, nm2, c) /\ c \in [Nodes -> Seq(Objects)]
      BY <1>6, <1>17, <2>5, <3>2, LocatedMore
    <3> QED
      BY <3>1, <3>3
  <2>7. There' = There \ {gone}
    BY <1>5, <1>14 DEF There, Nodes
  <2>8. (there \ {o}) \cup {o} = There'
    BY <1>7, <1>10, <1>15, <2>7 DEF There
  <2> QED
    BY <1>15, <2>4, <2>6, <2>8
<1>20. ASSUME NEW e \in Nodes, children'[e] # <<>> PROVE kind'[e] = "dir"
  <2>1. CASE e = d
    BY <1>5, <1>6, <1>11, <2>1
  <2>2. CASE e # d
    <3>1. V[e] # <<>>
      BY <1>5, <1>13, <1>17, <1>20, <2>2 DEF Put
    <3>2. children[e] # <<>>
      BY <1>12, <1>17, <3>1
    <3>3. kind[e] = "dir" /\ e # gone
      BY <1>10, <3>2, RootAssumption DEF IInv, OnePlace, Nodes
    <3> QED
      BY <1>5, <3>3
  <2> QED
    BY <2>1, <2>2
<1>21. OnePlace'
  BY <1>19, <1>20, HasOnePlace
<1>22. search' = [s \in Searches |-> Told(W, T[s], o)]
  BY <1>5 DEF Advanced, Told
<1>23. ASSUME NEW s \in Searches
       PROVE  search'[s] \in Contexts /\ Goes(children', search'[s], returned'[s], steady'[s])
  <2>1. PICK f, g, h : f = T[s] /\ g = got[s] /\ h = ever[s] \ {gone}
    OBVIOUS
  <2>2. f \in Contexts /\ Goes(W, f, g, h)
    BY <1>12, <1>15, <2>1
  <2>3. Goes(V, Told(W, f, o), g, h \ {o}) /\ Told(W, f, o) \in Contexts
    BY <1>6, <1>12, <1>13, <1>16, <2>2, GoesOn
  <2>4. PICK c, f2, h2 : c = Put(V, d, o) /\ f2 = Told(W, f, o) /\ h2 = h \ {o}
    OBVIOUS
  <2>5. Goes(V, f2, g, h2)
    BY <2>3, <2>4
  <2>6. Goes(c, f2, g, h2)
    BY <1>6, <1>17, <2>4, <2>5, GoesStill
  <2>7. search'[s] = f2 /\ returned'[s] = g /\ steady'[s] = h2 /\ children' = c
    BY <1>5, <1>13, <1>15, <1>22, <2>1, <2>4
  <2> QED
    BY <2>3, <2>4, <2>6, <2>7
<1>24. search' \in [Searches -> Contexts]
  BY <1>22, <1>23
<1>25. kind' \in [Nodes -> Kinds] /\ name' \in [Objects -> Names \cup {NoName}]
  BY <1>5, <1>14 DEF Kinds
<1>26. returned' \in [Searches -> SUBSET Objects] /\ steady' \in [Searches -> SUBSET Objects]
  BY <1>5, <1>14
<1>27. /\ kind'[Root] = "dir" /\ alias' \in [Objects -> Aliases \cup {NoAlias}]
       /\ broken' \in BOOLEAN
  <2>1. Root # gone /\ Root \in Nodes
    BY <1>10, RootAssumption DEF Nodes
  <2> QED
    BY <1>5, <1>14, <2>1
<1>28. PICK ch, c : ch = children /\ c = children'
  OBVIOUS
<1>29. Gains(c, V, d, o)
  <2>1. \A m \in Nodes : o \notin ToSet(V[m])
    BY <1>17 DEF Lacks
  <2>2. c = Put(V, d, o)
    BY <1>5, <1>13, <1>28
  <2> QED
    BY <1>6, <1>17, <2>1, <2>2, Added
<1>30. StillIn(c, ch, o) /\ OnlyIn(c, o, d)
  BY <1>12, <1>17, <1>28, <1>29 DEF Gains, Lacks, Nodes, StillIn, OnlyIn
<1>31. Grounded(children)'
  <2>1. CASE kind[o] = "dir"
    <3>1. PICK A \in SUBSET Nodes :
            /\ d \in A /\ o \notin A
            /\ \A p \in Objects : \A x \in ChildrenOf(p) : x \in A => p \in A
      BY <1>5, <1>6, <2>1, WayUp
    <3>2. Upward(ch, A)
      BY <1>28, <3>1 DEF ChildrenOf, Upward
    <3>3. Grounded(ch)
      BY <1>28 DEF IInv
    <3>4. Grounded(c)
      BY <1>30, <3>1, <3>2, <3>3, GroundedBranch
    <3> QED
      BY <1>28, <3>4
  <2>2. CASE kind[o] # "dir"
    <3>1. ch[o] = <<>> /\ o # d
      BY <1>6, <1>28, <2>2 DEF IInv, OnePlace
    <3>2. V[o] = <<>>
      BY <1>6, <1>12, <1>17, <1>28, <3>1
    <3>3. ToSet(V[o]) = {}
      BY <3>2 DEF ToSet
    <3>4. ToSet(c[o]) = {}
      BY <1>6, <1>29, <3>1, <3>3 DEF Gains
    <3>5. StillIn(c, ch, o)
      BY <1>30
    <3>6. Grounded(ch)
      BY <1>28 DEF IInv
    <3>7. Grounded(c)
      BY <3>4, <3>5, <3>6, GroundedLeaf
    <3> QED
      BY <1>28, <3>7
  <2> QED
    BY <2>1, <2>2
<1> QED
  BY <1>19, <1>21, <1>23, <1>24, <1>25, <1>26, <1>27, <1>31 DEF IInv, Types, Going

(***************************************************************************)
(* The steps of a search.                                                  *)
(***************************************************************************)

\* A step of one search keeps the others.
LEMMA SearchKeeps ==
    ASSUME IInv, UNCHANGED tree, NEW s \in Searches, NEW f \in Contexts,
           NEW got \in SUBSET Objects, NEW ever \in SUBSET Objects, Goes(children, f, got, ever),
           broken' = broken, search' = [search EXCEPT ![s] = f],
           returned' = [returned EXCEPT ![s] = got],
           steady' = [steady EXCEPT ![s] = ever]
    PROVE  IInv'
<1>1. kind' = kind /\ name' = name /\ alias' = alias /\ children' = children
  BY DEF tree
<1>2. /\ search \in [Searches -> Contexts]
      /\ returned \in [Searches -> SUBSET Objects] /\ steady \in [Searches -> SUBSET Objects]
  BY DEF IInv, Types
<1>3. /\ search' \in [Searches -> Contexts]
      /\ returned' \in [Searches -> SUBSET Objects] /\ steady' \in [Searches -> SUBSET Objects]
  BY <1>2
<1>4. Types'
  BY <1>1, <1>3 DEF IInv, Types
<1>5. OnePlace'
  BY <1>1 DEF IInv, OnePlace, ChildrenOf
<1>6. ASSUME NEW r \in Searches PROVE Goes(children', search'[r], returned'[r], steady'[r])
  <2>1. CASE r = s
    BY <1>1, <1>2, <2>1
  <2>2. CASE r # s
    <3>1. search'[r] = search[r] /\ returned'[r] = returned[r] /\ steady'[r] = steady[r]
      BY <1>2, <2>2
    <3>2. Goes(children, search[r], returned[r], steady[r])
      BY DEF IInv, Going
    <3> QED
      BY <1>1, <3>1, <3>2
  <2> QED
    BY <2>1, <2>2
<1> QED
  BY <1>1, <1>4, <1>5, <1>6 DEF IInv, Going

\* A search of d begins.
LEMMA RewoundKeeps ==
    ASSUME IInv, NEW s \in Searches, NEW d \in Nodes, Rewound(s, d), UNCHANGED <<tree, broken>>
    PROVE  IInv'
<1>1. PICK l \in Seq(Objects) : l = children[d]
  BY DEF IInv, Types
<1>2. PICK f : f = [dirObj |-> d, next |-> FirstChild(d), removed |-> FALSE]
  OBVIOUS
<1>3. f.dirObj = d /\ f.next = FirstChild(d) /\ f.removed = FALSE
  BY <1>2
<1>4. ChildrenOf(d) \in SUBSET Objects
  BY <1>1 DEF ChildrenOf, ToSet
<1>5. CASE l = <<>>
  <2>1. FirstChild(d) = NoObject /\ ChildrenOf(d) = {}
    BY <1>1, <1>5 DEF FirstChild, ChildrenOf, ToSet
  <2>2. Goes(children, f, {}, ChildrenOf(d)) /\ f \in Contexts
    BY <1>2, <1>3, <2>1 DEF Goes, Contexts
  <2> QED
    BY <1>2, <1>4, <2>2, SearchKeeps DEF Rewound
<1>6. CASE l # <<>>
  <2>1. PICK n \in Nat : n = Len(l)
    BY <1>1
  <2>2. n > 0 /\ FirstChild(d) = l[1] /\ l[1] \in Objects
    BY <1>1, <1>6, <2>1 DEF FirstChild
  <2>3. f.next # NoObject /\ f \in Contexts
    BY <1>2, <1>3, <2>2, RootAssumption DEF Contexts
  <2>4. \A o \in ChildrenOf(d) : \E j \in 1..n : l[j] = o
    BY <1>1, <2>1 DEF ChildrenOf, ToSet
  <2>5. 1 \in 1..Len(children[f.dirObj]) /\ children[f.dirObj][1] = f.next
    BY <1>1, <1>3, <2>1, <2>2
  <2>6. \A o \in ChildrenOf(d) \ {} : \E j \in 1..Len(children[f.dirObj]) : children[f.dirObj][j] = o
    BY <1>1, <1>3, <2>1, <2>4
  <2>7. Goes(children, f, {}, ChildrenOf(d))
    <3>1. \E k \in 1..Len(children[f.dirObj]) :
            /\ children[f.dirObj][k] = f.next
            /\ \A j \in k..Len(children[f.dirObj]) : children[f.dirObj][j] \notin {}
            /\ \A o \in ChildrenOf(d) \ {} :
                 \E j \in k..Len(children[f.dirObj]) : children[f.dirObj][j] = o
      BY <2>5, <2>6
    <3> QED
      BY <1>3, <2>3, <3>1 DEF Goes
  <2> QED
    BY <1>2, <1>4, <2>3, <2>7, SearchKeeps DEF Rewound
<1> QED
  BY <1>5, <1>6

\* A search goes one child on.
LEMMA ReaddirKeeps ==
    ASSUME IInv, NEW s \in Searches, readdir(s)
    PROVE  IInv'
<1>1. PICK f, got, ever, o : f = search[s] /\ got = returned[s] /\ ever = steady[s] /\ o = f.next
  OBVIOUS
<1>2. /\ f \in Contexts /\ got \in SUBSET Objects /\ ever \in SUBSET Objects
      /\ Goes(children, f, got, ever) /\ o # NoObject
  BY <1>1 DEF IInv, Types, Going, readdir
<1>3. PICK d \in Nodes : d = f.dirObj /\ ~f.removed
  BY <1>1, <1>2 DEF Goes
<1>4. PICK l \in Seq(Objects) : l = children[d]
  BY DEF IInv, Types
<1>5. PICK n \in Nat : n = Len(l)
  BY <1>4
<1>6. PICK k \in 1..n :
        /\ l[k] = o
        /\ \A j \in k..n : l[j] \notin got
        /\ \A x \in ever \ got : \E j \in k..n : l[j] = x
  BY <1>1, <1>2, <1>3, <1>4, <1>5 DEF Goes
<1>7. \A i, j \in 1..n : l[i] = l[j] => i = j
  BY <1>4, <1>5 DEF IInv, OnePlace
<1>8. o \in Objects /\ got \cup {o} \in SUBSET Objects
  BY <1>2, <1>4, <1>5, <1>6
<1>9. After(children, d, o) = IF k = n THEN NoObject ELSE l[k + 1]
  <2>1. (CHOOSE i \in 1..Len(children[d]) : children[d][i] = o) = k
    BY <1>4, <1>5, <1>6, <1>7
  <2>2. PICK p : p = CHOOSE i \in 1..Len(children[d]) : children[d][i] = o
    OBVIOUS
  <2>3. After(children, d, o) = IF p = Len(children[d]) THEN NoObject ELSE children[d][p + 1]
    BY <2>2 DEF After
  <2> QED
    BY <1>4, <1>5, <2>1, <2>2, <2>3
<1>10. PICK f2 : f2 = [f EXCEPT !.next = After(children, d, o)]
  OBVIOUS
<1>11. f2.dirObj = d /\ f2.next = After(children, d, o) /\ ~f2.removed
  BY <1>2, <1>3, <1>10 DEF Contexts
<1>12. f2 \in Contexts
  <2>1. After(children, d, o) \in Objects \cup {NoObject}
    BY <1>4, <1>5, <1>6, <1>9
  <2> QED
    BY <1>2, <1>10, <2>1 DEF Contexts
<1>13. Goes(children, f2, got \cup {o}, ever)
  <2>1. CASE k = n
    <3>1. f2.next = NoObject
      BY <1>9, <1>11, <2>1
    <3>2. ever \subseteq got \cup {o}
      BY <1>6, <2>1
    <3> QED
      BY <3>1, <3>2 DEF Goes
  <2>2. CASE k # n
    <3>1. k + 1 \in 1..n
      BY <2>2
    <3>2. f2.next = l[k + 1] /\ f2.next # NoObject
      BY <1>4, <1>5, <1>9, <1>11, <2>2, <3>1, RootAssumption
    <3>3. \A j \in (k + 1)..n : l[j] \notin got \cup {o}
      <4> SUFFICES ASSUME NEW j \in (k + 1)..n PROVE l[j] \notin got \cup {o}
        OBVIOUS
      <4>1. j \in k..n /\ j \in 1..n /\ j # k
        OBVIOUS
      <4> QED
        BY <1>6, <1>7, <4>1
    <3>4. \A x \in ever \ (got \cup {o}) : \E j \in (k + 1)..n : l[j] = x
      <4> SUFFICES ASSUME NEW x \in ever \ (got \cup {o}) PROVE \E j \in (k + 1)..n : l[j] = x
        OBVIOUS
      <4>1. PICK j \in k..n : l[j] = x
        BY <1>6
      <4>2. j \in (k + 1)..n
        BY <1>6, <4>1
      <4> QED
        BY <4>1, <4>2
    <3>5. \E i \in 1..n : /\ l[i] = f2.next
                          /\ \A j \in i..n : l[j] \notin got \cup {o}
                          /\ \A x \in ever \ (got \cup {o}) : \E j \in i..n : l[j] = x
      BY <3>1, <3>2, <3>3, <3>4
    <3> QED
      BY <1>4, <1>5, <1>11, <3>2, <3>5 DEF Goes
  <2> QED
    BY <2>1, <2>2
<1>14. /\ search' = [search EXCEPT ![s] = f2] /\ returned' = [returned EXCEPT ![s] = got \cup {o}]
       /\ steady' = [steady EXCEPT ![s] = ever] /\ UNCHANGED <<tree, broken>>
  BY <1>1, <1>3, <1>10 DEF readdir, IInv, Types
<1> QED
  BY <1>2, <1>8, <1>12, <1>13, <1>14, SearchKeeps

\* What a step does not touch stays as it is.
LEMMA Unmoved ==
    ASSUME IInv, UNCHANGED <<tree, search, returned, steady>>, broken' \in BOOLEAN
    PROVE  IInv'
BY DEF IInv, Types, OnePlace, ChildrenOf, Going, tree

\* A search that is not closed and whose directory is there can be rewound.
LEMMA RewinddirKeeps ==
    ASSUME IInv, NEW s \in Searches, rewinddir(s)
    PROVE  IInv'
<1>1. CASE ~search[s].removed /\ Rewound(s, search[s].dirObj) /\ UNCHANGED broken
  <2>1. PICK f : f = search[s]
    OBVIOUS
  <2>2. /\ f \in Contexts /\ f # Closed /\ ~f.removed
        /\ Goes(children, f, returned[s], steady[s])
    BY <1>1, <2>1 DEF IInv, Types, Going, rewinddir
  <2>3. f = [dirObj |-> f.dirObj, next |-> f.next, removed |-> FALSE]
    BY <2>2 DEF Contexts
  <2>4. f.dirObj \in Nodes
    <3>1. CASE f.next # NoObject
      BY <2>2, <3>1 DEF Goes
    <3>2. CASE f.next = NoObject
      <4>1. f.dirObj # NoObject
        BY <2>2, <2>3, <3>2 DEF Closed
      <4> QED
        BY <2>2, <4>1 DEF Contexts
    <3> QED
      BY <3>1, <3>2
  <2>5. Rewound(s, f.dirObj) /\ UNCHANGED <<tree, broken>>
    BY <1>1, <2>1 DEF rewinddir
  <2> QED
    BY <2>4, <2>5, RewoundKeeps
<1>2. CASE UNCHANGED <<search, returned, steady>> /\ broken' = TRUE
  <2>1. UNCHANGED <<tree, search, returned, steady>> /\ broken' \in BOOLEAN
    BY <1>2 DEF rewinddir
  <2> QED
    BY <2>1, Unmoved
<1> QED
  BY <1>1, <1>2 DEF rewinddir

\* A closed context points nowhere.
LEMMA ClosedirKeeps ==
    ASSUME IInv, NEW s \in Searches, closedir(s)
    PROVE  IInv'
<1>1. Closed \in Contexts /\ Goes(children, Closed, {}, {})
  BY DEF Closed, Contexts, Goes
<1> QED
  BY <1>1, SearchKeeps DEF closedir

\* Before any call the invariant holds.
LEMMA InitInv ==
    ASSUME Init
    PROVE  IInv
<1>1. Types
  <2>1. kind \in [Nodes -> Kinds] /\ children \in [Nodes -> Seq(Objects)]
    BY DEF Init, Kinds
  <2>2. /\ name \in [Objects -> Names \cup {NoName}] /\ alias \in [Objects -> Aliases \cup {NoAlias}]
        /\ kind[Root] = "dir" /\ broken \in BOOLEAN
    BY DEF Init, Nodes
  <2>3. Closed \in Contexts
    BY DEF Closed, Contexts
  <2> QED
    BY <2>1, <2>2, <2>3 DEF Init, Types
<1>2. \A d \in Nodes : children[d] = <<>> /\ Len(children[d]) = 0 /\ ChildrenOf(d) = {}
  BY DEF Init, ChildrenOf, ToSet
<1>3. \A o \in Objects : kind[o] = "absent"
  BY RootAssumption DEF Init, Nodes
<1>4. OnePlace
  BY <1>2, <1>3 DEF OnePlace
<1>5. \A s \in Searches : search[s].next = NoObject /\ steady[s] = {}
  BY DEF Init, Closed
<1>6. Going
  BY <1>5 DEF Going, Goes
<1>7. Grounded(children)
  BY <1>2 DEF Grounded, Hangs, ChildrenOf, Nodes
<1> QED
  BY <1>1, <1>4, <1>6, <1>7 DEF IInv

\* Every call keeps the invariant.
LEMMA NextInv ==
    ASSUME IInv, [Next]_vars
    PROVE  IInv'
<1>1. ASSUME NEW o \in Objects, NEW path \in Paths, creat(o, path) PROVE IInv'
  BY <1>1, VacantKeeps DEF creat, Kinds
<1>2. ASSUME NEW o \in Objects, NEW path \in Paths, mkdir(o, path) PROVE IInv'
  BY <1>2, VacantKeeps DEF mkdir, Kinds
<1>3. ASSUME NEW o \in Objects, NEW path \in Paths, NEW to \in Aliases, symlink(o, to, path)
      PROVE  IInv'
  BY <1>3, VacantKeeps DEF symlink, Kinds
<1>4. ASSUME NEW path \in Paths, unlink(path) PROVE IInv'
  BY <1>4, UnlinkKeeps DEF unlink
<1>5. ASSUME NEW path \in Paths, rmdir(path) PROVE IInv'
  BY <1>5, UnlinkKeeps DEF rmdir
<1>6. ASSUME NEW oldPath \in Paths, NEW newPath \in Paths, rename(oldPath, newPath) PROVE IInv'
  BY <1>6, RenameKeeps
<1>7. ASSUME NEW s \in Searches, NEW path \in Paths, opendir(s, path) PROVE IInv'
  <2>1. PICK d : d = ObjectOf(path)
    OBVIOUS
  <2>2. d \in Nodes /\ Rewound(s, d) /\ UNCHANGED <<tree, broken>>
    BY <1>7, <2>1 DEF opendir, Directory
  <2> QED
    BY <2>2, RewoundKeeps
<1>8. ASSUME NEW s \in Searches, readdir(s) PROVE IInv'
  BY <1>8, ReaddirKeeps
<1>9. ASSUME NEW s \in Searches, rewinddir(s) PROVE IInv'
  BY <1>9, RewinddirKeeps
<1>10. ASSUME NEW s \in Searches, closedir(s) PROVE IInv'
  BY <1>10, ClosedirKeeps
<1>11. CASE UNCHANGED vars
  <2>1. UNCHANGED <<tree, search, returned, steady>> /\ broken' \in BOOLEAN
    BY <1>11 DEF vars, IInv, Types
  <2> QED
    BY <2>1, Unmoved
<1> QED
  BY <1>1, <1>2, <1>3, <1>4, <1>5, <1>6, <1>7, <1>8, <1>9, <1>10, <1>11 DEF Next

(***************************************************************************)
(* What can be reached from the root.                                      *)
(***************************************************************************)

\* The children of the members of S.
Descend(S) == UNION {ChildrenOf(d) : d \in S}

\* f is what the definition of Below says, from the root.
Levels(f, n) == f = [k \in 0..n |-> IF k = 0 THEN {Root} ELSE f[k - 1] \cup Descend(f[k - 1])]

\* A way of k steps down from the root, on each of which one may stay.
Ways(k) == {s \in [0..k -> Nodes] :
              s[0] = Root /\ \A i \in 1..k : s[i] = s[i - 1] \/ s[i] \in ChildrenOf(s[i - 1])}
Ends(k) == {s[k] : s \in Ways(k)}

\* One step further.
LEMMA EndsStep ==
    ASSUME IInv, NEW k \in Nat, k # 0
    PROVE  Ends(k) = Ends(k - 1) \cup Descend(Ends(k - 1))
<1>1. ASSUME NEW s \in Ways(k)
      PROVE  s[k] \in Ends(k - 1) \cup Descend(Ends(k - 1))
  <2>1. PICK t : t = [i \in 0..(k - 1) |-> s[i]]
    OBVIOUS
  <2>2. s \in [0..k -> Nodes] /\ s[0] = Root
        /\ \A i \in 1..k : s[i] = s[i - 1] \/ s[i] \in ChildrenOf(s[i - 1])
    BY DEF Ways
  <2>3. t \in Ways(k - 1)
    BY <2>1, <2>2 DEF Ways
  <2>4. t[k - 1] = s[k - 1]
    BY <2>1
  <2>5. s[k - 1] \in Ends(k - 1)
    BY <2>3, <2>4 DEF Ends
  <2>6. s[k] = s[k - 1] \/ s[k] \in ChildrenOf(s[k - 1])
    BY <2>2
  <2> QED
    BY <2>5, <2>6 DEF Descend
<1>2. ASSUME NEW s \in Ways(k - 1), NEW x \in Nodes, x = s[k - 1] \/ x \in ChildrenOf(s[k - 1])
      PROVE  x \in Ends(k)
  <2>1. PICK t : t = [i \in 0..k |-> IF i = k THEN x ELSE s[i]]
    OBVIOUS
  <2>2. s \in [0..(k - 1) -> Nodes] /\ s[0] = Root
        /\ \A i \in 1..(k - 1) : s[i] = s[i - 1] \/ s[i] \in ChildrenOf(s[i - 1])
    BY DEF Ways
  <2>3. t \in [0..k -> Nodes] /\ t[0] = Root /\ t[k] = x
    BY <2>1, <2>2
  <2>4. ASSUME NEW i \in 1..k PROVE t[i] = t[i - 1] \/ t[i] \in ChildrenOf(t[i - 1])
    <3>1. t[i - 1] = s[i - 1]
      BY <2>1
    <3>2. CASE i = k
      BY <1>2, <2>3, <3>1, <3>2
    <3>3. CASE i # k
      <4>1. i \in 1..(k - 1) /\ t[i] = s[i]
        BY <2>1, <3>3
      <4> QED
        BY <2>2, <3>1, <4>1
    <3> QED
      BY <3>2, <3>3
  <2>5. t \in Ways(k)
    BY <2>3, <2>4 DEF Ways
  <2> QED
    BY <2>3, <2>5 DEF Ends
<1>3. ASSUME NEW s \in Ways(k - 1) PROVE s[k - 1] \in Nodes
  BY DEF Ways
<1>4. ASSUME NEW d \in Nodes, NEW x \in ChildrenOf(d) PROVE x \in Nodes
  BY Listed
<1>5. Ends(k) \subseteq Ends(k - 1) \cup Descend(Ends(k - 1))
  BY <1>1 DEF Ends
<1>6. Ends(k - 1) \subseteq Ends(k)
  BY <1>2, <1>3 DEF Ends
<1>7. Descend(Ends(k - 1)) \subseteq Ends(k)
  <2> SUFFICES ASSUME NEW d \in Ends(k - 1), NEW x \in ChildrenOf(d) PROVE x \in Ends(k)
    BY DEF Descend
  <2>1. PICK s \in Ways(k - 1) : d = s[k - 1]
    BY DEF Ends
  <2> QED
    BY <1>2, <1>3, <1>4, <2>1
<1> QED
  BY <1>5, <1>6, <1>7

\* The definition of Below has a solution.
LEMMA LevelsExist ==
    ASSUME IInv, NEW n \in Nat
    PROVE  \E f : Levels(f, n)
<1>1. PICK f : f = [k \in 0..n |-> Ends(k)]
  OBVIOUS
<1>2. Ends(0) = {Root}
  <2>1. \A s \in Ways(0) : s[0] = Root
    BY DEF Ways
  <2>2. [i \in 0..0 |-> Root] \in Ways(0)
    BY DEF Ways, Nodes
  <2> QED
    BY <2>1, <2>2 DEF Ends
<1>3. ASSUME NEW k \in 0..n
      PROVE  f[k] = IF k = 0 THEN {Root} ELSE f[k - 1] \cup Descend(f[k - 1])
  <2>1. CASE k = 0
    BY <1>1, <1>2, <2>1
  <2>2. CASE k # 0
    <3>1. k \in Nat /\ k - 1 \in 0..n
      BY <2>2
    <3>2. f[k] = Ends(k) /\ f[k - 1] = Ends(k - 1)
      BY <1>1, <3>1
    <3> QED
      BY <2>2, <3>1, <3>2, EndsStep
  <2> QED
    BY <2>1, <2>2
<1>4. Levels(f, n)
  BY <1>1, <1>3 DEF Levels
<1> QED
  BY <1>4

\* As many levels as there are objects hold all that the root leads to.
LEMMA LevelsClose ==
    ASSUME IInv, NEW n \in Nat, n = Cardinality(Objects), NEW f, Levels(f, n)
    PROVE  Root \in f[n] /\ f[n] \subseteq {m \in Nodes : kind[m] # "absent"} /\ Descend(f[n]) \subseteq f[n]
<1> DEFINE Good(k) == /\ f[k] \subseteq {m \in Nodes : kind[m] # "absent"} /\ Root \in f[k]
                      /\ Descend(f[k]) \subseteq f[k] \/ Cardinality(f[k]) >= k + 1
<1>1. IsFiniteSet(Nodes) /\ Cardinality(Nodes) = n + 1
  BY ObjectsAssumption, RootAssumption, FS_AddElement DEF Nodes
<1>2. f[0] = {Root} /\ \A k \in 1..n : f[k] = f[k - 1] \cup Descend(f[k - 1])
  <2>1. \A k \in 0..n : f[k] = IF k = 0 THEN {Root} ELSE f[k - 1] \cup Descend(f[k - 1])
    BY DEF Levels
  <2>2. f[0] = {Root}
    <3>1. 0 \in 0..n
      OBVIOUS
    <3> QED
      BY <2>1, <3>1
  <2>3. ASSUME NEW k \in 1..n PROVE f[k] = f[k - 1] \cup Descend(f[k - 1])
    <3>1. k \in 0..n /\ k # 0
      OBVIOUS
    <3> QED
      BY <2>1, <3>1
  <2> QED
    BY <2>2, <2>3
<1>3. Good(0)
  <2>1. Cardinality(f[0]) = 1
    BY <1>2, FS_Singleton
  <2>2. Root \in Nodes /\ kind[Root] # "absent"
    BY DEF IInv, Types, Nodes
  <2> QED
    BY <1>2, <2>1, <2>2
<1>4. ASSUME NEW k \in 1..n, Good(k - 1) PROVE Good(k)
  <2>1. f[k] = f[k - 1] \cup Descend(f[k - 1])
    BY <1>2
  <2>2. Descend(f[k - 1]) \subseteq {m \in Nodes : kind[m] # "absent"}
    <3> SUFFICES ASSUME NEW d \in f[k - 1], NEW x \in ChildrenOf(d)
                 PROVE  x \in {m \in Nodes : kind[m] # "absent"}
      BY DEF Descend
    <3>1. d \in Nodes
      BY <1>4
    <3> QED
      BY <3>1, Listed
  <2>3. f[k] \subseteq {m \in Nodes : kind[m] # "absent"} /\ Root \in f[k]
    BY <1>4, <2>1, <2>2
  <2>4. CASE Descend(f[k - 1]) \subseteq f[k - 1]
    <3>1. f[k] = f[k - 1]
      BY <2>1, <2>4
    <3> QED
      BY <2>3, <2>4, <3>1
  <2>5. ASSUME NEW y \in Descend(f[k - 1]), y \notin f[k - 1] PROVE Good(k)
    <3>1. PICK a : a = f[k - 1]
      OBVIOUS
    <3>2. Cardinality(a) >= k /\ a \in SUBSET Nodes
      BY <1>4, <2>5, <3>1
    <3>3. IsFiniteSet(a) /\ Cardinality(a) \in Nat
      BY <1>1, <3>2, FS_Subset, FS_CardinalityType
    <3>4. Cardinality(a \cup {y}) = Cardinality(a) + 1
      BY <2>5, <3>1, <3>3, FS_AddElement
    <3>5. PICK b : b = f[k]
      OBVIOUS
    <3>6. IsFiniteSet(b) /\ Cardinality(b) \in Nat
      <4>1. b \in SUBSET Nodes
        BY <2>3, <3>5
      <4> QED
        BY <1>1, <4>1, FS_Subset, FS_CardinalityType
    <3>7. Cardinality(a \cup {y}) <= Cardinality(b)
      <4>1. a \cup {y} \in SUBSET b
        BY <2>1, <2>5, <3>1, <3>5
      <4> QED
        BY <3>6, <4>1, FS_Subset
    <3>8. Cardinality(f[k]) >= k + 1
      BY <3>2, <3>3, <3>4, <3>5, <3>6, <3>7
    <3> QED
      BY <2>3, <3>8
  <2> QED
    BY <2>4, <2>5
<1> HIDE DEF Good
<1>5. Good(n)
  <2> SUFFICES ASSUME ~Good(n) PROVE FALSE
    OBVIOUS
  <2>1. PICK B : B = {k \in 0..n : ~Good(k)}
    OBVIOUS
  <2>2. PICK m : m = Min(B)
    OBVIOUS
  <2>3. B \subseteq Nat /\ B # {}
    BY <2>1
  <2>4. m \in B /\ \A k \in B : m <= k
    BY <2>2, <2>3, MinIn
  <2>5. m \in 1..n /\ ~Good(m)
    BY <1>3, <2>1, <2>4
  <2>6. Good(m - 1)
    BY <2>1, <2>4, <2>5
  <2> QED
    BY <1>4, <2>5, <2>6
<1>6. CASE Cardinality(f[n]) >= n + 1 /\ f[n] \subseteq Nodes
  <2>1. PICK a : a = f[n]
    OBVIOUS
  <2>2. a \in SUBSET Nodes
    BY <1>6, <2>1
  <2>3. Cardinality(a) <= Cardinality(Nodes) /\ Cardinality(a) \in Nat /\ (Cardinality(Nodes) = Cardinality(a) => Nodes = a)
    BY <1>1, <2>2, FS_Subset, FS_CardinalityType
  <2>4. f[n] = Nodes
    BY <1>1, <1>6, <2>1, <2>3
  <2>5. Descend(Nodes) \subseteq Nodes
    BY Listed DEF Descend
  <2> QED
    BY <1>5, <2>4, <2>5 DEF Good
<1> QED
  BY <1>5, <1>6 DEF Good

(***************************************************************************)
(* The theorems.                                                           *)
(***************************************************************************)

\* In every state all that exists is once in the list of one directory under a
\* name of its own, and the searches go on (yaffsfs.c).
THEOREM Invariance == Spec => []IInv
<1>1. Init => IInv
  BY InitInv
<1>2. IInv /\ [Next]_vars => IInv'
  BY NextInv
<1> QED
  BY <1>1, <1>2, PTL DEF Spec

\* All that exists is within reach of the root, in as many steps as there are objects
\* at most, in one directory and under a name of its own there: a directory is never
\* moved below itself, none is removed that is not empty, and what has the new name is
\* removed before a rename (the checks of yaffs_rename and yaffsfs_DoUnlink).
THEOREM TreeHasItsShape == Spec => []TreeShape
<1>1. IInv => TypeOK
  <2> SUFFICES ASSUME IInv PROVE TypeOK
    OBVIOUS
  <2>1. /\ kind \in [Nodes -> {"absent", "file", "dir", "symlink"}]
        /\ name \in [Objects -> Names \cup {NoName}]
        /\ alias \in [Objects -> Aliases \cup {NoAlias}] /\ broken \in BOOLEAN
    BY DEF IInv, Types, Kinds
  <2>2. \A n \in Nodes : ChildrenOf(n) \subseteq Objects
    BY Listed
  <2>3. ASSUME NEW s \in Searches
        PROVE  /\ search[s].dirObj \in Nodes \cup {NoObject}
               /\ search[s].next \in Objects \cup {NoObject}
               /\ search[s].removed \in BOOLEAN
               /\ returned[s] \subseteq Objects
               /\ steady[s] \subseteq Objects
    BY DEF IInv, Types, Contexts
  <2> QED
    BY <2>1, <2>2, <2>3 DEF TypeOK
<1>2. IInv => {n \in Nodes : kind[n] # "absent"} = Below({Root}, Cardinality(Objects))
  <2> SUFFICES ASSUME IInv
               PROVE  {n \in Nodes : kind[n] # "absent"} = Below({Root}, Cardinality(Objects))
    OBVIOUS
  <2>1. PICK n \in Nat : n = Cardinality(Objects)
    BY ObjectsAssumption, FS_CardinalityType
  <2> DEFINE W == CHOOSE f : f = [k \in 0..n |-> IF k = 0 THEN {Root}
                                  ELSE f[k - 1] \cup UNION {ChildrenOf(d) : d \in f[k - 1]}]
  <2>2. Below({Root}, n) = W[n]
    BY DEF Below
  <2>3. Levels(W, n)
    BY LevelsExist DEF Levels, Descend
  <2> HIDE DEF W
  <2>4. PICK f : f = W
    OBVIOUS
  <2>5. Root \in f[n] /\ f[n] \subseteq {m \in Nodes : kind[m] # "absent"} /\ Descend(f[n]) \subseteq f[n]
    BY <2>1, <2>3, <2>4, LevelsClose
  <2>6. PICK S : S = {o \in Objects : kind[o] # "absent" /\ o \notin f[n]}
    OBVIOUS
  <2>7. Hangs(children, S)
    <3> SUFFICES ASSUME NEW o \in S PROVE \E d \in S : o \in ToSet(children[d])
      BY DEF Hangs
    <3>1. PICK d \in Nodes : o \in ChildrenOf(d)
      BY <2>6 DEF IInv, OnePlace
    <3>2. d \notin f[n]
      BY <2>5, <2>6, <3>1 DEF Descend
    <3>3. d \in Objects
      BY <2>5, <3>2 DEF Nodes
    <3>4. kind[d] = "dir"
      <4>1. children[d] # <<>>
        BY <3>1 DEF ChildrenOf, ToSet
      <4> QED
        BY <4>1 DEF IInv, OnePlace
    <3> QED
      BY <2>6, <3>1, <3>2, <3>3, <3>4 DEF ChildrenOf
  <2>8. S = {}
    BY <2>6, <2>7 DEF IInv, Grounded
  <2>9. {m \in Nodes : kind[m] # "absent"} = f[n]
    BY <2>5, <2>6, <2>8 DEF Nodes
  <2> QED
    BY <2>1, <2>2, <2>4, <2>9
<1>3. IInv => TreeShape
  BY <1>1, <1>2 DEF TreeShape, IInv
<1> QED
  BY <1>3, Invariance, PTL

\* What a search points at is a child of its directory, which is still there: the
\* callback reaches every context (yaffsfs_RemoveObjectCallback).
THEOREM SearchesPointInside == Spec => []SearchInside
<1>1. IInv => SearchInside
  <2> SUFFICES ASSUME IInv, NEW s \in Searches, search[s].next # NoObject
               PROVE  ~search[s].removed /\ search[s].next \in ChildrenOf(search[s].dirObj)
    BY DEF SearchInside
  <2>1. PICK f : f = search[s]
    OBVIOUS
  <2>2. f.next # NoObject /\ Goes(children, f, returned[s], steady[s])
    BY <2>1 DEF IInv, Going
  <2>3. /\ ~f.removed /\ f.dirObj \in Nodes
        /\ \E k \in 1..Len(children[f.dirObj]) : children[f.dirObj][k] = f.next
    BY <2>2 DEF Goes
  <2>4. children[f.dirObj] \in Seq(Objects)
    BY <2>3 DEF IInv, Types
  <2>5. f.next \in ChildrenOf(f.dirObj)
    BY <2>3, <2>4 DEF ChildrenOf, ToSet
  <2> QED
    BY <2>1, <2>3, <2>5
<1> QED
  BY <1>1, Invariance, PTL

\* A search that has ended has returned all that was in its directory from its
\* beginning on, whatever was removed and moved meanwhile (yaffsfs_DirAdvance).
THEOREM SearchesComplete == Spec => []SearchComplete
<1>1. IInv => SearchComplete
  BY DEF IInv, Going, Goes, SearchComplete
<1> QED
  BY <1>1, Invariance, PTL

\* readdir returns nothing for the second time before a rewind, also what has been
\* moved: it comes back at the head of a list, behind the search (yaffs_readdir).
THEOREM ChildrenReturnedOnce == Spec => ReturnedOnce
<1>1. IInv /\ [Next]_vars => [\A s \in Searches : readdir(s) => search[s].next \notin returned[s]]_vars
  <2> SUFFICES ASSUME IInv, NEW s \in Searches, readdir(s)
               PROVE  search[s].next \notin returned[s]
    OBVIOUS
  <2>1. PICK f, got : f = search[s] /\ got = returned[s]
    OBVIOUS
  <2>2. f.next # NoObject /\ Goes(children, f, got, steady[s])
    BY <2>1 DEF IInv, Going, readdir
  <2>3. PICK k \in 1..Len(children[f.dirObj]) :
          /\ children[f.dirObj][k] = f.next
          /\ \A j \in k..Len(children[f.dirObj]) : children[f.dirObj][j] \notin got
    BY <2>2 DEF Goes
  <2>4. children[f.dirObj] \in Seq(Objects)
    BY <2>2 DEF Goes, IInv, Types
  <2>5. Len(children[f.dirObj]) \in Nat
    BY <2>4
  <2>6. k \in k..Len(children[f.dirObj])
    BY <2>5
  <2> QED
    BY <2>1, <2>3, <2>6
<1> QED
  BY <1>1, Invariance, PTL DEF Spec, ReturnedOnce
=============================================================================
