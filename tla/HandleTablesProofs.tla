------------------------- MODULE HandleTablesProofs -------------------------
(***************************************************************************)
(* Proofs about the handles of the YAFFS direct interface, for any number  *)
(* of table entries, threads, objects and open modes.                      *)
(*                                                                         *)
(* The tables agree only while no transfer goes on with a handle that was  *)
(* taken away from it, so the inductive invariant has two layers: the      *)
(* types, always; and, until broken, how handles, file descriptors, inode  *)
(* entries and objects lead to one another.                                *)
(*                                                                         *)
(* The last part proves that the tables implement the descriptions of      *)
(* OpenFiles: the counts of the tables stand for sets of references, which *)
(* the inductive invariant ties together.                                  *)
(***************************************************************************)
EXTENDS HandleTables, FiniteSetTheorems, FunctionTheorems, WellFoundedInduction,
        TLAPS

HandleUsed(h) == handle[h].useCount > 0
FdUsed(f) == fd[f].handleCount > 0

-----------------------------------------------------------------------------
(* The inductive invariant. *)

\* A handle in use leads to a file descriptor in use, one that is free to none.
HandlesLead == \A h \in Slots : HandleUsed(h) => handle[h].fdId \in Slots

\* A file descriptor counts its handles; one in use leads to an inode entry,
\* one that is free is cleared.
FdsLead ==
    \A f \in Slots :
      /\ fd[f].handleCount = Cardinality(Users(f))
      /\ IF FdUsed(f) THEN fd[f].inodeId \in Slots ELSE fd[f] = FreeFd

\* An inode entry counts its file descriptors and has an object while there
\* are any.
InodesLead ==
    \A i \in Slots :
      /\ inode[i].count = Cardinality(Openings(i))
      /\ inode[i].count > 0 <=> inode[i].iObj # NoObject

\* An object is hooked to the one inode entry that has it, and an unlinked
\* object lives only there.
ObjectsHooked ==
    \A o \in Objects :
      /\ \A i \in Slots : inode[i].iObj = o <=> object[o].my_inode = i
      /\ object[o].place = "unlinked" => object[o].my_inode >= 0

\* The open file descriptors of an inode entry respect one another's modes.
ModesFit ==
    \A f, g \in Slots :
      f # g /\ FdUsed(f) /\ FdUsed(g) /\ fd[f].inodeId = fd[g].inodeId =>
        /\ fd[f].mode.reading => fd[g].mode.shareRead
        /\ fd[f].mode.writing => fd[g].mode.shareWrite

Tables == FdsLead /\ InodesLead /\ ObjectsHooked /\ ModesFit

\* A handle counts the program and the transfers that hold on to it.
HandlesHeld ==
    \A h \in Slots :
      handle[h].useCount = Cardinality(TransfersOn(h)) + (IF mine[h] # NoObject THEN 1 ELSE 0)

\* What the program opened is what its handle still leads to.
MineLead == \A h \in Slots : mine[h] # NoObject => HandleToObject(h) = mine[h]

\* A call under way whose handle was not taken away has the descriptor of its
\* handle; idle is told by the kind.
CallsLead ==
    \A t \in Threads :
      call[t] # Idle =>
        /\ call[t].kind # "none"
        /\ ~call[t].void => handle[call[t].handle].fdId = call[t].fdId

Holders == HandlesHeld /\ MineLead /\ CallsLead

\* The types and what holds whether or not a transfer went astray.
Typed == TypeOK /\ HandlesLead

IInv == Typed /\ (~broken => Tables /\ Holders)

-----------------------------------------------------------------------------
(* Sets of table entries. *)

\* The scans of the tables find an entry whenever there is one: a set of entry
\* numbers that is not empty has a least element (the loops of
\* yaffsfs_NewHandle and yaffsfs_NewHandleAndFileDes).
LEMMA LeastEntry ==
  ASSUME NEW S \in SUBSET Slots, S # {}
  PROVE  Min(S) \in S
<1> DEFINE R == {ss \in Nat \X Nat : ss[1] < ss[2]}
<1>1. IsWellFoundedOn(R, Nat)
  BY NatLessThanWellFounded DEF OpToRel
<1>2. S \subseteq Nat
  BY DEF Slots
<1>3. \A x, y \in S : y < x => <<y, x>> \in R
  BY <1>2
<1> HIDE DEF R
<1>4. PICK x \in S : \A y \in S : ~ (<<y, x>> \in R)
  BY <1>1, <1>2, WFMin
<1>5. \A y \in S : ~ (y < x)
  BY <1>3, <1>4
<1>6. \A y \in S : x =< y
  BY <1>2, <1>5
<1>7. QED
  BY <1>6 DEF Min

\* What a scan returns: an entry of the set, or -1 when it is empty.
LEMMA FirstFreeFound ==
  ASSUME NEW S \in SUBSET Slots
  PROVE  /\ FirstFree(S) \in -1 .. YAFFSFS_N_HANDLES - 1
         /\ FirstFree(S) >= 0 => FirstFree(S) \in S
         /\ S # {} => FirstFree(S) \in S /\ FirstFree(S) \in Slots
<1>1. CASE S = {}
  BY <1>1, NHandlesAssumption DEF FirstFree
<1>2. CASE S # {}
  <2>1. FirstFree(S) = Min(S)
    BY <1>2 DEF FirstFree
  <2>2. FirstFree(S) \in S
    BY <1>2, <2>1, LeastEntry
  <2>3. FirstFree(S) \in Slots
    BY <2>2
  <2>4. QED
    BY <1>2, <2>2, <2>3, NHandlesAssumption DEF Slots
<1>3. QED
  BY <1>1, <1>2

\* Sets of entries and of threads are finite, so that counting them means
\* something (the use counts of the three tables).
LEMMA SmallSet ==
  ASSUME NEW S, S \in SUBSET Slots \/ S \in SUBSET Threads
  PROVE  /\ IsFiniteSet(S)
         /\ Cardinality(S) \in Nat
         /\ Cardinality(S) = 0 <=> S = {}
<1>1. IsFiniteSet(Slots)
  BY NHandlesAssumption, FS_Interval DEF Slots
<1>2. IsFiniteSet(Threads)
  BY ThreadsAssumption
<1>3. IsFiniteSet(S)
  BY <1>1, <1>2, FS_Subset
<1>4. QED
  BY <1>3, FS_CardinalityType, FS_EmptySet

\* The number of table entries (YAFFSFS_N_HANDLES).
LEMMA SlotsCount == Cardinality(Slots) = YAFFSFS_N_HANDLES
BY NHandlesAssumption, FS_Interval DEF Slots

\* One more user counts one more (handleCount++ in yaffs_dup, useCount++ in
\* yaffsfs_GetHandle).
LEMMA CountOneMore ==
  ASSUME NEW S, S \in SUBSET Slots \/ S \in SUBSET Threads, NEW x, x \notin S
  PROVE  Cardinality(S \cup {x}) = Cardinality(S) + 1
BY SmallSet, FS_AddElement

\* One user less counts one less (the decrements of yaffsfs_PutHandle,
\* yaffsfs_PutFileDes and yaffsfs_PutInode).
LEMMA CountOneLess ==
  ASSUME NEW S, S \in SUBSET Slots \/ S \in SUBSET Threads, NEW x \in S
  PROVE  Cardinality(S \ {x}) = Cardinality(S) - 1
BY SmallSet, FS_RemoveElement

-----------------------------------------------------------------------------
(* Types. *)

\* The way through the tables stays inside them (yaffsfs_HandleToFileDes and
\* the lookups built on it).
LEMMA LookupTyped ==
  ASSUME TypeOK, NEW h \in Slots
  PROVE  /\ HandleToFileDes(h) \in -1 .. YAFFSFS_N_HANDLES - 1
         /\ HandleToInode(h) \in -1 .. YAFFSFS_N_HANDLES - 1
         /\ HandleToObject(h) \in Objects \cup {NoObject}
         /\ HandleToObject(h) # NoObject =>
              HandleToFileDes(h) \in Slots /\ HandleToInode(h) \in Slots
<1>1. HandleToFileDes(h) \in -1 .. YAFFSFS_N_HANDLES - 1
  BY NHandlesAssumption DEF TypeOK, HandleToFileDes
<1>2. /\ HandleToInode(h) \in -1 .. YAFFSFS_N_HANDLES - 1
      /\ HandleToInode(h) >= 0 => HandleToFileDes(h) \in Slots /\ HandleToInode(h) \in Slots
  <2>1. CASE HandleToFileDes(h) >= 0
    <3>1. HandleToFileDes(h) \in Slots
      BY <1>1, <2>1, NHandlesAssumption DEF Slots
    <3>2. fd[HandleToFileDes(h)].inodeId \in -1 .. YAFFSFS_N_HANDLES - 1
      BY <3>1 DEF TypeOK
    <3>3. QED
      BY <3>1, <3>2, NHandlesAssumption DEF HandleToInode, Slots
  <2>2. CASE ~ (HandleToFileDes(h) >= 0)
    BY <2>2, NHandlesAssumption DEF HandleToInode
  <2>3. QED
    BY <2>1, <2>2
<1>3. HandleToInode(h) >= 0 => inode[HandleToInode(h)].iObj \in Objects \cup {NoObject}
  BY <1>2 DEF TypeOK
<1>4. QED
  BY <1>1, <1>2, <1>3 DEF HandleToObject

\* Letting go of an inode entry keeps the types of inodes and objects, whatever
\* entry it is (yaffsfs_PutInode).
LEMMA PutInodeTyped ==
  ASSUME TypeOK, NEW i \in -1 .. YAFFSFS_N_HANDLES - 1, PutInode(i)
  PROVE  /\ inode' \in [Slots -> [count : Nat, iObj : Objects \cup {NoObject}]]
         /\ object' \in [Objects -> [place : {"absent", "linked", "unlinked"},
                                     my_inode : -1 .. YAFFSFS_N_HANDLES - 1]]
<1>1. FreeInode \in [count : Nat, iObj : Objects \cup {NoObject}]
  BY DEF FreeInode
<1>2. CASE inode[i].count > 1
  <2>1. inode' = [inode EXCEPT ![i].count = @ - 1] /\ UNCHANGED object
    BY <1>2 DEF PutInode
  <2>2. ASSUME NEW j \in Slots
        PROVE  inode'[j] \in [count : Nat, iObj : Objects \cup {NoObject}]
    <3>1. inode[j] \in [count : Nat, iObj : Objects \cup {NoObject}]
      BY DEF TypeOK
    <3>2. CASE j = i
      <4>1. inode'[j] = [inode[j] EXCEPT !.count = inode[j].count - 1]
        BY <2>1, <3>2 DEF TypeOK
      <4>2. inode[j].count - 1 \in Nat
        BY <1>2, <3>1, <3>2
      <4>3. QED
        BY <3>1, <4>1, <4>2
    <3>3. CASE j # i
      BY <2>1, <3>1, <3>3 DEF TypeOK
    <3>4. QED
      BY <3>2, <3>3
  <2>3. QED
    BY <2>1, <2>2 DEF TypeOK
<1>3. CASE ~ (inode[i].count > 1)
  <2>1. inode' = [inode EXCEPT ![i] = FreeInode] /\ ReleaseInode(inode[i].iObj)
    BY <1>3 DEF PutInode
  <2>2. inode' \in [Slots -> [count : Nat, iObj : Objects \cup {NoObject}]]
    BY <1>1, <2>1 DEF TypeOK
  <2>3. QED
    <3>1. PICK o : o = inode[i].iObj
      OBVIOUS
    <3>2. object' = [object EXCEPT ![o].my_inode = -1,
                                   ![o].place = IF @ = "unlinked" THEN "absent" ELSE @]
      BY <2>1, <3>1 DEF ReleaseInode
    <3>3. ASSUME NEW p \in Objects
          PROVE  object'[p] \in [place : {"absent", "linked", "unlinked"},
                                 my_inode : -1 .. YAFFSFS_N_HANDLES - 1]
      <4>1. object[p] \in [place : {"absent", "linked", "unlinked"},
                           my_inode : -1 .. YAFFSFS_N_HANDLES - 1]
        BY DEF TypeOK
      <4>2. -1 \in -1 .. YAFFSFS_N_HANDLES - 1
        BY NHandlesAssumption
      <4>3. CASE p = o
        <5>1. object'[p] = [object[p] EXCEPT !.my_inode = -1,
                              !.place = IF @ = "unlinked" THEN "absent" ELSE @]
          BY <3>2, <4>3 DEF TypeOK
        <5>2. QED
          BY <4>1, <4>2, <5>1
      <4>4. CASE p # o
        BY <3>2, <4>1, <4>4 DEF TypeOK
      <4>5. QED
        BY <4>3, <4>4
    <3>4. QED
      BY <2>2, <3>2, <3>3 DEF TypeOK
<1>4. QED
  BY <1>2, <1>3

\* Letting go of a file descriptor keeps the types (yaffsfs_PutFileDes).
LEMMA PutFileDesTyped ==
  ASSUME TypeOK, NEW f \in -1 .. YAFFSFS_N_HANDLES - 1, PutFileDes(f),
         f \in Slots
  PROVE  /\ fd' \in [Slots -> [handleCount : Nat, inodeId : -1 .. YAFFSFS_N_HANDLES - 1,
                               mode : OpenModes \cup {NoMode}]]
         /\ inode' \in [Slots -> [count : Nat, iObj : Objects \cup {NoObject}]]
         /\ object' \in [Objects -> [place : {"absent", "linked", "unlinked"},
                                     my_inode : -1 .. YAFFSFS_N_HANDLES - 1]]
<1>1. FreeFd \in [handleCount : Nat, inodeId : -1 .. YAFFSFS_N_HANDLES - 1,
                  mode : OpenModes \cup {NoMode}]
  BY NHandlesAssumption DEF FreeFd
<1>2. CASE fd[f].handleCount > 1
  <2>1. fd' = [fd EXCEPT ![f].handleCount = @ - 1] /\ UNCHANGED <<inode, object>>
    BY <1>2 DEF PutFileDes
  <2>2. fd[f].handleCount - 1 \in Nat
    BY <1>2 DEF TypeOK
  <2>3. fd' \in [Slots -> [handleCount : Nat, inodeId : -1 .. YAFFSFS_N_HANDLES - 1,
                           mode : OpenModes \cup {NoMode}]]
    <3>1. \A g \in Slots : fd[g] \in [handleCount : Nat,
             inodeId : -1 .. YAFFSFS_N_HANDLES - 1, mode : OpenModes \cup {NoMode}]
      BY DEF TypeOK
    <3>2. \A g \in Slots : fd'[g] = IF g = f THEN [fd[f] EXCEPT !.handleCount = @ - 1] ELSE fd[g]
      BY <2>1 DEF TypeOK
    <3>3. fd' = [g \in Slots |-> fd'[g]]
      BY <2>1 DEF TypeOK
    <3>4. \A g \in Slots : fd'[g] \in [handleCount : Nat,
             inodeId : -1 .. YAFFSFS_N_HANDLES - 1, mode : OpenModes \cup {NoMode}]
      BY <2>2, <3>1, <3>2
    <3>5. QED
      BY <3>3, <3>4
  <2>4. QED
    BY <2>1, <2>3 DEF TypeOK
<1>3. CASE ~ (fd[f].handleCount > 1)
  <2>1. fd' = [fd EXCEPT ![f] = FreeFd] /\ PutInode(fd[f].inodeId)
    BY <1>3 DEF PutFileDes
  <2>2. fd[f].inodeId \in -1 .. YAFFSFS_N_HANDLES - 1
    BY DEF TypeOK
  <2>3. fd' \in [Slots -> [handleCount : Nat, inodeId : -1 .. YAFFSFS_N_HANDLES - 1,
                           mode : OpenModes \cup {NoMode}]]
    BY <1>1, <2>1 DEF TypeOK
  <2>4. QED
    BY <2>1, <2>2, <2>3, PutInodeTyped
<1>4. QED
  BY <1>2, <1>3

\* Letting go of a handle keeps the types.  A handle in use leads to a file
\* descriptor even when the tables no longer agree (yaffsfs_PutHandle).
LEMMA PutHandleTyped ==
  ASSUME TypeOK, HandlesLead, NEW h \in Slots, PutHandle(h),
         UNCHANGED device, call' \in [Threads -> [kind : {"none", "read", "write"},
            handle : Slots, fdId : Slots, left : 0 .. MaxChunks, void : BOOLEAN]],
         mine' \in [Slots -> Objects \cup {NoObject}], broken' \in BOOLEAN
  PROVE  TypeOK' /\ HandlesLead'
<1>1. handle[h] \in [fdId : -1 .. YAFFSFS_N_HANDLES - 1, useCount : Nat]
  BY DEF TypeOK
<1>2. CASE handle[h].useCount > 1
  <2>1. handle' = [handle EXCEPT ![h].useCount = @ - 1] /\ UNCHANGED <<fd, inode, object>>
    BY <1>2 DEF PutHandle
  <2>2. handle[h].useCount - 1 \in Nat
    BY <1>1, <1>2
  <2>3. handle' \in [Slots -> [fdId : -1 .. YAFFSFS_N_HANDLES - 1, useCount : Nat]]
    BY <2>1, <2>2 DEF TypeOK
  <2>4. \A k \in Slots : handle'[k].fdId = handle[k].fdId
                         /\ (handle'[k].useCount > 0 => handle[k].useCount > 0)
    BY <1>2, <2>1 DEF TypeOK
  <2>5. QED
    BY <2>1, <2>3, <2>4 DEF TypeOK, HandlesLead, HandleUsed
<1>3. CASE handle[h].useCount = 1
  <2>1. handle' = [handle EXCEPT ![h] = FreeHandle] /\ PutFileDes(handle[h].fdId)
    BY <1>3 DEF PutHandle
  <2>2. handle[h].fdId \in Slots
    BY <1>3 DEF HandlesLead, HandleUsed
  <2>3. FreeHandle \in [fdId : -1 .. YAFFSFS_N_HANDLES - 1, useCount : Nat]
    BY NHandlesAssumption DEF FreeHandle
  <2>4. handle' \in [Slots -> [fdId : -1 .. YAFFSFS_N_HANDLES - 1, useCount : Nat]]
    BY <2>1, <2>3 DEF TypeOK
  <2>5. \A k \in Slots : handle'[k].useCount > 0 => handle'[k] = handle[k]
    BY <2>1 DEF TypeOK, FreeHandle
  <2>6. HandlesLead'
    BY <2>5 DEF HandlesLead, HandleUsed
  <2>7. QED
    BY <1>1, <2>1, <2>2, <2>4, <2>6, PutFileDesTyped DEF TypeOK
<1>4. CASE ~ (handle[h].useCount > 0)
  BY <1>1, <1>4 DEF PutHandle, TypeOK, HandlesLead, HandleUsed
<1>5. QED
  BY <1>1, <1>2, <1>3, <1>4

\* The types are inductive together with the fact that a handle in use has a
\* file descriptor; at first all entries are free.
LEMMA InitTyped == Init => Typed
<1> SUFFICES ASSUME Init PROVE Typed
  OBVIOUS
<1>1. /\ FreeHandle \in [fdId : -1 .. YAFFSFS_N_HANDLES - 1, useCount : Nat]
      /\ FreeFd \in [handleCount : Nat, inodeId : -1 .. YAFFSFS_N_HANDLES - 1,
                     mode : OpenModes \cup {NoMode}]
      /\ FreeInode \in [count : Nat, iObj : Objects \cup {NoObject}]
  BY NHandlesAssumption DEF FreeHandle, FreeFd, FreeInode
<1>2. Idle \in [kind : {"none", "read", "write"}, handle : Slots, fdId : Slots,
                left : 0 .. MaxChunks, void : BOOLEAN]
  BY NHandlesAssumption, MaxChunksAssumption DEF Idle, Slots
<1>3. object \in [Objects -> [place : {"absent", "linked", "unlinked"},
                              my_inode : -1 .. YAFFSFS_N_HANDLES - 1]]
  <2>1. -1 \in -1 .. YAFFSFS_N_HANDLES - 1
    BY NHandlesAssumption
  <2>2. QED
    BY <2>1 DEF Init
<1>4. TypeOK
  BY <1>1, <1>2, <1>3 DEF Init, TypeOK
<1>5. HandlesLead
  BY DEF Init, HandlesLead, HandleUsed, FreeHandle
<1>6. QED
  BY <1>4, <1>5 DEF Typed

\* yaffs_open_sharing fills free entries with entries of the right kind.
LEMMA OpenTyped ==
  ASSUME Typed, NEW o \in Objects, NEW m \in OpenModes, Open(o, m)
  PROVE  Typed'
<1> USE DEF Typed
<1> DEFINE h == FirstFree(FreeHandles)
           f == FirstFree(FreeFds)
           i == InodeIdForObject(o)
<1>1. h \in Slots /\ f \in Slots
  BY FirstFreeFound, NHandlesAssumption DEF Open, FreeHandles, FreeFds, Slots
<1>2. i \in -1 .. YAFFSFS_N_HANDLES - 1
  <2>1. CASE {k \in Slots : inode[k].iObj = o} # {}
    BY <2>1, LeastEntry, NHandlesAssumption DEF InodeIdForObject, Slots
  <2>2. CASE {k \in Slots : inode[k].iObj = o} = {}
    BY <2>2, FirstFreeFound DEF InodeIdForObject
  <2>3. QED
    BY <2>1, <2>2
<1>3. /\ handle' = [handle EXCEPT ![h] = [fdId |-> f, useCount |-> 1]]
      /\ fd' = [fd EXCEPT ![f] = [handleCount |-> 1, inodeId |-> i, mode |-> m]]
      /\ inode' = IF i < 0 THEN inode
                  ELSE [inode EXCEPT ![i] = [count |-> inode[i].count + 1, iObj |-> o]]
      /\ object' = [object EXCEPT ![o] = [place |-> "linked", my_inode |-> i]]
      /\ mine' = [mine EXCEPT ![h] = o]
      /\ UNCHANGED <<device, call, broken>>
  BY DEF Open
<1> HIDE DEF h, f, i
<1>4. handle' \in [Slots -> [fdId : -1 .. YAFFSFS_N_HANDLES - 1, useCount : Nat]]
  <2>1. [fdId |-> f, useCount |-> 1] \in [fdId : -1 .. YAFFSFS_N_HANDLES - 1, useCount : Nat]
    BY <1>1, NHandlesAssumption DEF Slots
  <2>2. QED
    BY <1>3, <2>1 DEF TypeOK
<1>5. fd' \in [Slots -> [handleCount : Nat, inodeId : -1 .. YAFFSFS_N_HANDLES - 1,
                         mode : OpenModes \cup {NoMode}]]
  BY <1>2, <1>3 DEF TypeOK
<1>6. inode' \in [Slots -> [count : Nat, iObj : Objects \cup {NoObject}]]
  <2>1. CASE i < 0
    BY <1>3, <2>1 DEF TypeOK
  <2>2. CASE ~ (i < 0)
    <3>1. i \in Slots
      BY <1>2, <2>2, NHandlesAssumption DEF Slots
    <3>2. inode[i].count + 1 \in Nat
      BY <3>1 DEF TypeOK
    <3>3. [count |-> inode[i].count + 1, iObj |-> o] \in [count : Nat, iObj : Objects \cup {NoObject}]
      BY <3>2
    <3>4. inode' = [inode EXCEPT ![i] = [count |-> inode[i].count + 1, iObj |-> o]]
      BY <1>3, <2>2
    <3>5. QED
      BY <3>3, <3>4 DEF TypeOK
  <2>3. QED
    BY <2>1, <2>2
<1>7. object' \in [Objects -> [place : {"absent", "linked", "unlinked"},
                               my_inode : -1 .. YAFFSFS_N_HANDLES - 1]]
  BY <1>2, <1>3 DEF TypeOK
<1>8. mine' \in [Slots -> Objects \cup {NoObject}] /\ device' = device /\ call' = call
      /\ broken' = broken
  BY <1>3 DEF TypeOK
<1>9. HandlesLead'
  BY <1>1, <1>3 DEF TypeOK, HandlesLead, HandleUsed
<1>10. QED
  BY <1>4, <1>5, <1>6, <1>7, <1>8, <1>9 DEF TypeOK

\* yaffs_dup.
LEMMA DupTyped ==
  ASSUME Typed, NEW h \in Slots, Dup(h)
  PROVE  Typed'
<1> USE DEF Typed
<1> DEFINE h2 == FirstFree(FreeHandles)
           f == HandleToFileDes(h)
<1>1. h2 \in Slots
  BY FirstFreeFound, NHandlesAssumption DEF Dup, FreeHandles, Slots
<1>2. f \in Slots
  BY LookupTyped, NHandlesAssumption DEF Dup, Slots
<1>3. /\ handle' = [handle EXCEPT ![h2] = [fdId |-> f, useCount |-> 1]]
      /\ fd' = [fd EXCEPT ![f].handleCount = @ + 1]
      /\ mine' = [mine EXCEPT ![h2] = mine[h]]
      /\ UNCHANGED <<inode, object, device, call, broken>>
  BY DEF Dup
<1> HIDE DEF h2, f
<1>4. handle' \in [Slots -> [fdId : -1 .. YAFFSFS_N_HANDLES - 1, useCount : Nat]]
  <2>1. [fdId |-> f, useCount |-> 1] \in [fdId : -1 .. YAFFSFS_N_HANDLES - 1, useCount : Nat]
    BY <1>2, NHandlesAssumption DEF Slots
  <2>2. QED
    BY <1>3, <2>1 DEF TypeOK
<1>5. fd' \in [Slots -> [handleCount : Nat, inodeId : -1 .. YAFFSFS_N_HANDLES - 1,
                         mode : OpenModes \cup {NoMode}]]
  <2>1. \A g \in Slots : fd[g] \in [handleCount : Nat,
           inodeId : -1 .. YAFFSFS_N_HANDLES - 1, mode : OpenModes \cup {NoMode}]
    BY DEF TypeOK
  <2>2. \A g \in Slots : fd'[g] = IF g = f THEN [fd[f] EXCEPT !.handleCount = @ + 1] ELSE fd[g]
    BY <1>3 DEF TypeOK
  <2>3. fd' = [g \in Slots |-> fd'[g]]
    BY <1>3 DEF TypeOK
  <2>4. \A g \in Slots : fd'[g] \in [handleCount : Nat,
           inodeId : -1 .. YAFFSFS_N_HANDLES - 1, mode : OpenModes \cup {NoMode}]
    BY <2>1, <2>2
  <2>5. QED
    BY <2>3, <2>4
<1>6. mine' \in [Slots -> Objects \cup {NoObject}]
  BY <1>3 DEF TypeOK
<1>7. HandlesLead'
  BY <1>2, <1>3 DEF TypeOK, HandlesLead, HandleUsed
<1>8. QED
  BY <1>3, <1>4, <1>5, <1>6, <1>7 DEF TypeOK

\* yaffs_close and the end of a transfer let go of a handle.
LEMMA CloseTyped ==
  ASSUME Typed, NEW h \in Slots, Close(h)
  PROVE  Typed'
<1>1. mine' \in [Slots -> Objects \cup {NoObject}]
  BY DEF Close, Typed, TypeOK
<1>2. QED
  BY <1>1, PutHandleTyped DEF Close, Typed, TypeOK

\* yaffs_read or yaffs_write returns, and its thread is idle.
LEMMA EndTyped ==
  ASSUME Typed, NEW t \in Threads, End(t)
  PROVE  Typed'
<1>1. Idle \in [kind : {"none", "read", "write"}, handle : Slots, fdId : Slots,
                left : 0 .. MaxChunks, void : BOOLEAN]
  BY NHandlesAssumption, MaxChunksAssumption DEF Idle, Slots
<1>2. call' \in [Threads -> [kind : {"none", "read", "write"}, handle : Slots, fdId : Slots,
                left : 0 .. MaxChunks, void : BOOLEAN]]
  BY <1>1 DEF End, Typed, TypeOK
<1>3. call[t].handle \in Slots /\ broken' \in BOOLEAN
  BY DEF End, Typed, TypeOK
<1>4. QED
  BY <1>2, <1>3, PutHandleTyped DEF End, Typed, TypeOK

\* The beginning and the chunks of yaffsfs_do_read and yaffsfs_do_write.
LEMMA BeginTyped ==
  ASSUME Typed, NEW t \in Threads, NEW h \in Slots, NEW kind \in {"read", "write"},
         NEW n \in 0 .. MaxChunks, Begin(t, h, kind, n)
  PROVE  Typed'
<1>1. HandleToFileDes(h) \in Slots
  BY LookupTyped DEF Begin, Typed
<1>2. call' \in [Threads -> [kind : {"none", "read", "write"}, handle : Slots, fdId : Slots,
                left : 0 .. MaxChunks, void : BOOLEAN]]
  <2>1. [kind |-> kind, handle |-> h, fdId |-> HandleToFileDes(h), left |-> n, void |-> FALSE]
          \in [kind : {"none", "read", "write"}, handle : Slots, fdId : Slots,
               left : 0 .. MaxChunks, void : BOOLEAN]
    BY <1>1
  <2>2. call' = [call EXCEPT ![t] = [kind |-> kind, handle |-> h,
                   fdId |-> HandleToFileDes(h), left |-> n, void |-> FALSE]]
    BY DEF Begin
  <2>3. QED
    BY <2>1, <2>2 DEF Typed, TypeOK
<1>3. handle' \in [Slots -> [fdId : -1 .. YAFFSFS_N_HANDLES - 1, useCount : Nat]]
      /\ \A k \in Slots : handle'[k].fdId = handle[k].fdId
  BY DEF Begin, Typed, TypeOK
<1>4. HandleUsed(h)
  BY <1>1, NHandlesAssumption DEF HandleToFileDes, HandleUsed, Slots
<1>5. \A k \in Slots : handle'[k].useCount > 0 => handle[k].useCount > 0
  BY <1>4 DEF Begin, Typed, TypeOK, HandleUsed
<1>6. QED
  BY <1>2, <1>3, <1>5 DEF Begin, Typed, TypeOK, HandlesLead, HandleUsed

\* A read or write goes on to its next chunk with the mutex let go in between.
LEMMA ChunkTyped ==
  ASSUME Typed, NEW t \in Threads, NEW done \in BOOLEAN, Chunk(t, done)
  PROVE  Typed'
<1>1. call[t] \in [kind : {"none", "read", "write"}, handle : Slots, fdId : Slots,
                   left : 0 .. MaxChunks, void : BOOLEAN]
  BY DEF Typed, TypeOK
<1>2. PICK n : n = IF done THEN call[t].left - 1 ELSE 0
  OBVIOUS
<1>3. n \in 0 .. MaxChunks
  BY <1>1, <1>2, MaxChunksAssumption DEF Chunk
<1>4. call' = [call EXCEPT ![t].left = n]
  BY <1>2 DEF Chunk
<1>5. call' \in [Threads -> [kind : {"none", "read", "write"}, handle : Slots, fdId : Slots,
                left : 0 .. MaxChunks, void : BOOLEAN]]
  BY <1>1, <1>3, <1>4 DEF Typed, TypeOK
<1>6. QED
  BY <1>5 DEF Chunk, Typed, TypeOK, HandlesLead, HandleUsed

\* yaffs_unlink and the calls on the device.
LEMMA UnlinkTyped ==
  ASSUME Typed, NEW o \in Objects, Unlink(o)
  PROVE  Typed'
BY DEF Unlink, Typed, TypeOK, HandlesLead, HandleUsed

\* A forced unmount (yaffsfs_BreakDeviceHandles).
LEMMA BreakTyped ==
  ASSUME Typed, BreakDeviceHandles
  PROVE  /\ handle' \in [Slots -> [fdId : -1 .. YAFFSFS_N_HANDLES - 1, useCount : Nat]]
         /\ fd' \in [Slots -> [handleCount : Nat, inodeId : -1 .. YAFFSFS_N_HANDLES - 1,
                               mode : OpenModes \cup {NoMode}]]
         /\ inode' \in [Slots -> [count : Nat, iObj : Objects \cup {NoObject}]]
         /\ object' \in [Objects -> [place : {"absent", "linked", "unlinked"},
                                     my_inode : -1 .. YAFFSFS_N_HANDLES - 1]]
         /\ HandlesLead'
<1> USE DEF Typed
<1> DEFINE gone == {HandleToFileDes(h) : h \in {k \in Slots : HandleToObject(k) # NoObject}}
           Left(i) == inode[i].count - Cardinality({f \in gone : fd[f].inodeId = i})
           released == {inode[i].iObj : i \in {k \in Slots : inode[k].count > 0 /\ Left(k) <= 0}}
<1>1. /\ handle' = [h \in Slots |-> IF handle[h].useCount > 0
                                   THEN [fdId |-> 0, useCount |-> 0] ELSE handle[h]]
      /\ fd' = [f \in Slots |-> IF f \in gone THEN FreeFd ELSE fd[f]]
      /\ inode' = [i \in Slots |-> IF Left(i) <= 0 THEN FreeInode
                                   ELSE [inode[i] EXCEPT !.count = Left(i)]]
      /\ object' = [o \in Objects |->
            IF o \notin released THEN object[o]
            ELSE [object[o] EXCEPT !.my_inode = -1,
                                   !.place = IF @ = "unlinked" THEN "absent" ELSE @]]
  BY DEF BreakDeviceHandles
<1>2. ASSUME NEW i \in Slots
      PROVE  Left(i) \in Int
  <2>1. gone \in SUBSET Slots
    BY LookupTyped
  <2>2. {f \in gone : fd[f].inodeId = i} \in SUBSET Slots
    BY <2>1
  <2>3. Cardinality({f \in gone : fd[f].inodeId = i}) \in Nat
    BY <2>2, SmallSet
  <2>4. inode[i].count \in Nat
    BY DEF TypeOK
  <2> HIDE DEF gone
  <2>5. QED
    BY <2>3, <2>4
<1> HIDE DEF gone, Left, released
<1>3. handle' \in [Slots -> [fdId : -1 .. YAFFSFS_N_HANDLES - 1, useCount : Nat]]
  <2>1. 0 \in -1 .. YAFFSFS_N_HANDLES - 1
    BY NHandlesAssumption
  <2>2. QED
    BY <1>1, <2>1 DEF TypeOK
<1>4. fd' \in [Slots -> [handleCount : Nat, inodeId : -1 .. YAFFSFS_N_HANDLES - 1,
                         mode : OpenModes \cup {NoMode}]]
  <2>1. FreeFd \in [handleCount : Nat, inodeId : -1 .. YAFFSFS_N_HANDLES - 1,
                    mode : OpenModes \cup {NoMode}]
    BY NHandlesAssumption DEF FreeFd
  <2>2. QED
    BY <1>1, <2>1 DEF TypeOK
<1>5. inode' \in [Slots -> [count : Nat, iObj : Objects \cup {NoObject}]]
  <2>1. ASSUME NEW i \in Slots, ~ (Left(i) <= 0)
        PROVE  [inode[i] EXCEPT !.count = Left(i)] \in [count : Nat, iObj : Objects \cup {NoObject}]
    <3>1. inode[i] \in [count : Nat, iObj : Objects \cup {NoObject}]
      BY DEF TypeOK
    <3>2. Left(i) \in Nat
      BY <1>2, <2>1
    <3>3. QED
      BY <3>1, <3>2
  <2>2. FreeInode \in [count : Nat, iObj : Objects \cup {NoObject}]
    BY DEF FreeInode
  <2>3. QED
    BY <1>1, <2>1, <2>2
<1>6. object' \in [Objects -> [place : {"absent", "linked", "unlinked"},
                               my_inode : -1 .. YAFFSFS_N_HANDLES - 1]]
  <2>1. -1 \in -1 .. YAFFSFS_N_HANDLES - 1
    BY NHandlesAssumption
  <2>2. ASSUME NEW o \in Objects
        PROVE  [object[o] EXCEPT !.my_inode = -1,
                                 !.place = IF @ = "unlinked" THEN "absent" ELSE @]
                 \in [place : {"absent", "linked", "unlinked"}, my_inode : -1 .. YAFFSFS_N_HANDLES - 1]
    <3>1. object[o] \in [place : {"absent", "linked", "unlinked"},
                         my_inode : -1 .. YAFFSFS_N_HANDLES - 1]
      BY DEF TypeOK
    <3>2. QED
      BY <2>1, <3>1
  <2>3. \A o \in Objects : object[o] \in [place : {"absent", "linked", "unlinked"},
                                          my_inode : -1 .. YAFFSFS_N_HANDLES - 1]
    BY DEF TypeOK
  <2>4. QED
    BY <1>1, <2>2, <2>3
<1>7. HandlesLead'
  <2>1. ASSUME NEW h \in Slots
        PROVE  ~ (handle'[h].useCount > 0)
    <3>1. CASE handle[h].useCount > 0
      <4>1. handle'[h] = [fdId |-> 0, useCount |-> 0]
        BY <1>1, <3>1
      <4>2. QED
        BY <4>1
    <3>2. CASE ~ (handle[h].useCount > 0)
      BY <1>1, <3>2
    <3>3. QED
      BY <3>1, <3>2
  <2>2. QED
    BY <2>1 DEF HandlesLead, HandleUsed
<1>8. QED
  BY <1>3, <1>4, <1>5, <1>6, <1>7

\* yaffs_unmount2 closes what it finds open, or refuses.
LEMMA UnmountTyped ==
  ASSUME Typed, NEW force \in BOOLEAN, Unmount(force)
  PROVE  Typed'
<1>1. device' \in [is_mounted : BOOLEAN, read_only : BOOLEAN] /\ broken' = broken
  BY DEF Unmount, Typed, TypeOK
<1>2. CASE UNCHANGED <<handle, fd, inode, object, call, mine>>
  BY <1>1, <1>2 DEF Typed, TypeOK, HandlesLead, HandleUsed
<1>3. CASE /\ BreakDeviceHandles
           /\ call' = [t \in Threads |->
                IF call[t] = Idle THEN Idle ELSE [call[t] EXCEPT !.void = TRUE]]
           /\ mine' = [h \in Slots |-> NoObject]
  <2>1. call' \in [Threads -> [kind : {"none", "read", "write"}, handle : Slots, fdId : Slots,
                left : 0 .. MaxChunks, void : BOOLEAN]]
    <3>1. Idle \in [kind : {"none", "read", "write"}, handle : Slots, fdId : Slots,
                    left : 0 .. MaxChunks, void : BOOLEAN]
      BY NHandlesAssumption, MaxChunksAssumption DEF Idle, Slots
    <3>2. \A t \in Threads : call[t] \in [kind : {"none", "read", "write"}, handle : Slots,
                    fdId : Slots, left : 0 .. MaxChunks, void : BOOLEAN]
      BY DEF Typed, TypeOK
    <3>3. QED
      BY <1>3, <3>1, <3>2
  <2>2. mine' \in [Slots -> Objects \cup {NoObject}]
    BY <1>3
  <2>3. QED
    BY <1>1, <1>3, <2>1, <2>2, BreakTyped DEF Typed, TypeOK
<1>4. QED
  BY <1>2, <1>3 DEF Unmount

\* yaffs_remount changes the device only.
LEMMA RemountTyped ==
  ASSUME Typed, NEW force \in BOOLEAN, NEW read_only \in BOOLEAN, Remount(force, read_only)
  PROVE  Typed'
BY DEF Remount, Typed, TypeOK, HandlesLead, HandleUsed

\* yaffs_mount2 finds the device unmounted.
LEMMA MountTyped ==
  ASSUME Typed, NEW read_only \in BOOLEAN, Mount(read_only)
  PROVE  Typed'
<1>1. /\ FreeHandle \in [fdId : -1 .. YAFFSFS_N_HANDLES - 1, useCount : Nat]
      /\ FreeFd \in [handleCount : Nat, inodeId : -1 .. YAFFSFS_N_HANDLES - 1,
                     mode : OpenModes \cup {NoMode}]
      /\ FreeInode \in [count : Nat, iObj : Objects \cup {NoObject}]
  BY NHandlesAssumption DEF FreeHandle, FreeFd, FreeInode
<1>2. broken' \in BOOLEAN /\ device' \in [is_mounted : BOOLEAN, read_only : BOOLEAN]
  BY DEF Mount, Typed, TypeOK, IsDevBusy
<1>3. HandlesLead'
  BY DEF Mount, HandlesLead, HandleUsed, FreeHandle
<1>4. QED
  BY <1>1, <1>2, <1>3 DEF Mount, Typed, TypeOK

\* The types hold over every call and every chunk of one.
LEMMA StepTyped == Typed /\ [Next]_vars => Typed'
<1> SUFFICES ASSUME Typed, [Next]_vars PROVE Typed'
  OBVIOUS
<1>1. CASE \E o \in Objects, m \in OpenModes : Open(o, m)
  BY <1>1, OpenTyped
<1>2. CASE \E h \in Slots : Dup(h) \/ Close(h)
  BY <1>2, DupTyped, CloseTyped
<1>3. CASE \E t \in Threads, h \in Slots, kind \in {"read", "write"}, n \in 0 .. MaxChunks :
             Begin(t, h, kind, n)
  BY <1>3, BeginTyped
<1>4. CASE \E t \in Threads : (\E done \in BOOLEAN : Chunk(t, done)) \/ End(t)
  BY <1>4, ChunkTyped, EndTyped
<1>5. CASE \E o \in Objects : Unlink(o)
  BY <1>5, UnlinkTyped
<1>6. CASE \E force, read_only \in BOOLEAN : Remount(force, read_only)
  BY <1>6, RemountTyped
<1>7. CASE \E force \in BOOLEAN : Unmount(force)
  BY <1>7, UnmountTyped
<1>8. CASE \E read_only \in BOOLEAN : Mount(read_only)
  BY <1>8, MountTyped
<1>9. CASE UNCHANGED vars
  BY <1>9 DEF vars, Typed, TypeOK, HandlesLead, HandleUsed
<1>10. QED
  BY <1>1, <1>2, <1>3, <1>4, <1>5, <1>6, <1>7, <1>8, <1>9 DEF Next

\* The variables keep their types, with the bounds of the three tables, even
\* after a transfer went on with a handle that was taken away from it.
THEOREM TypesHold == Spec => []TypeOK
<1>1. Typed => TypeOK
  BY DEF Typed
<1>2. QED
  BY InitTyped, StepTyped, <1>1, PTL DEF Spec

-----------------------------------------------------------------------------
(* Letting go. *)

\* An inode entry that loses one of its file descriptors still counts the
\* others, keeps its object while there are any and unhooks it with the last
\* (yaffsfs_PutInode, yaffsfs_ReleaseInode).
LEMMA PutInodeLeads ==
  ASSUME TypeOK, InodesLead, ObjectsHooked,
         NEW i \in Slots, NEW f \in Openings(i),
         \A j \in Slots : Openings(j)' = IF j = i THEN Openings(i) \ {f} ELSE Openings(j),
         PutInode(i)
  PROVE  /\ InodesLead' /\ ObjectsHooked'
         /\ \A j \in Slots : Openings(j)' # {} => inode'[j].iObj = inode[j].iObj
<1>1. \A j \in Slots : Openings(j) \in SUBSET Slots
  BY DEF Openings
<1>2. /\ Cardinality(Openings(i)') = Cardinality(Openings(i)) - 1
      /\ Cardinality(Openings(i)) \in Nat \ {0}
      /\ inode[i].count = Cardinality(Openings(i))
  BY <1>1, CountOneLess, SmallSet DEF InodesLead
<1>3. \A j \in Slots \ {i} : inode'[j] = inode[j]
  BY DEF PutInode, TypeOK
<1>4. CASE inode[i].count > 1
  <2>1. inode'[i].count = inode[i].count - 1 /\ inode'[i].iObj = inode[i].iObj
    BY <1>4 DEF PutInode, TypeOK
  <2>2. UNCHANGED object
    BY <1>4 DEF PutInode
  <2>3. \A j \in Slots : inode'[j].iObj = inode[j].iObj
    BY <1>3, <2>1
  <2>4. \A j \in Slots \ {i} : inode'[j].count = Cardinality(Openings(j)')
    BY <1>3 DEF InodesLead
  <2>5. InodesLead'
    BY <1>2, <1>3, <1>4, <2>1, <2>4 DEF InodesLead
  <2>6. ObjectsHooked'
    BY <2>2, <2>3 DEF ObjectsHooked
  <2>7. QED
    BY <2>3, <2>5, <2>6
<1>5. CASE ~ (inode[i].count > 1)
  <2>1. PICK p : p = inode[i].iObj
    OBVIOUS
  <2>2. /\ inode'[i] = FreeInode
        /\ object' = [object EXCEPT ![p].my_inode = -1,
                                    ![p].place = IF @ = "unlinked" THEN "absent" ELSE @]
    BY <1>5, <2>1 DEF PutInode, ReleaseInode, TypeOK
  <2>3. inode[i].count = 1 /\ Cardinality(Openings(i)') = 0
    BY <1>2, <1>5
  <2>4. p \in Objects /\ object[p].my_inode = i
    BY <2>1, <2>3 DEF TypeOK, InodesLead, ObjectsHooked
  <2>5. InodesLead'
    <3>1. \A j \in Slots \ {i} : inode'[j].count = Cardinality(Openings(j)')
      BY <1>3 DEF InodesLead
    <3>2. QED
      BY <1>3, <2>2, <2>3, <3>1 DEF InodesLead, FreeInode
  <2>6. Openings(i)' = {}
    BY <1>1, <2>3, SmallSet
  <2>7. ObjectsHooked'
    <3>1. object'[p].my_inode = -1 /\ object'[p].place # "unlinked"
      BY <2>2, <2>4 DEF TypeOK
    <3>2. \A o \in Objects \ {p} : object'[o] = object[o]
      BY <2>2, <2>4 DEF TypeOK
    <3>3. \A j \in Slots : inode'[j].iObj # p
      BY <1>3, <2>2, <2>4, NoObjectAssumption DEF ObjectsHooked, FreeInode
    <3>4. inode'[i].iObj \notin Objects
      BY <2>2, NoObjectAssumption DEF FreeInode
    <3>5. ASSUME NEW o \in Objects \ {p}, NEW j \in Slots
          PROVE  inode'[j].iObj = o <=> object'[o].my_inode = j
      <4>1. CASE j = i
        BY <2>1, <3>2, <3>4, <4>1 DEF ObjectsHooked
      <4>2. CASE j # i
        BY <1>3, <3>2, <4>2 DEF ObjectsHooked
      <4>3. QED
        BY <4>1, <4>2
    <3>6. \A j \in Slots : object'[p].my_inode # j
      BY <3>1, NHandlesAssumption DEF Slots
    <3>7. QED
      BY <3>1, <3>2, <3>3, <3>5, <3>6 DEF ObjectsHooked
  <2>8. QED
    BY <1>3, <2>5, <2>6, <2>7
<1>6. QED
  BY <1>4, <1>5

\* A file descriptor that loses one of its handles still counts the others and
\* keeps its inode while there are any (yaffsfs_PutFileDes).
LEMMA PutFileDesLeads ==
  ASSUME TypeOK, Tables, NEW f \in Slots, NEW h \in Users(f),
         \A g \in Slots : Users(g)' = IF g = f THEN Users(f) \ {h} ELSE Users(g),
         PutFileDes(f)
  PROVE  /\ Tables'
         /\ \A g \in Slots : Users(g)' # {} =>
               /\ FdUsed(g) /\ fd'[g].inodeId = fd[g].inodeId
               /\ inode'[fd[g].inodeId].iObj = inode[fd[g].inodeId].iObj
<1> USE DEF Tables
<1>1. \A g \in Slots : Users(g) \in SUBSET Slots
  BY DEF Users
<1>2. /\ Cardinality(Users(f)') = Cardinality(Users(f)) - 1
      /\ Cardinality(Users(f)) \in Nat \ {0}
      /\ fd[f].handleCount = Cardinality(Users(f))
  BY <1>1, CountOneLess, SmallSet DEF FdsLead
<1>3. \A g \in Slots : Users(g)' # {} => FdUsed(g)
  <2>1. ASSUME NEW g \in Slots, Users(g) # {}
        PROVE  FdUsed(g)
    BY <1>1, <2>1, SmallSet DEF FdsLead, FdUsed
  <2>2. QED
    BY <2>1
<1>4. \A g \in Slots \ {f} : fd'[g] = fd[g]
  BY DEF PutFileDes, TypeOK
<1>5. fd[f].inodeId \in Slots
  BY <1>2 DEF FdsLead, FdUsed
<1>6. CASE fd[f].handleCount > 1
  <2>1. /\ fd' = [fd EXCEPT ![f].handleCount = @ - 1]
        /\ UNCHANGED <<inode, object>>
    BY <1>6 DEF PutFileDes
  <2>2. /\ fd'[f].handleCount = fd[f].handleCount - 1
        /\ fd'[f].inodeId = fd[f].inodeId /\ fd'[f].mode = fd[f].mode
    BY <2>1 DEF TypeOK
  <2>3. \A g \in Slots : /\ fd'[g].inodeId = fd[g].inodeId /\ fd'[g].mode = fd[g].mode
                         /\ FdUsed(g)' <=> FdUsed(g)
    BY <1>2, <1>4, <1>6, <2>2 DEF FdUsed
  <2>4. FdsLead'
    <3>1. \A g \in Slots \ {f} : fd'[g].handleCount = Cardinality(Users(g)')
      BY <1>4 DEF FdsLead
    <3>2. fd'[f].handleCount = Cardinality(Users(f)')
      BY <1>2, <2>2
    <3>3. \A g \in Slots : IF FdUsed(g)' THEN fd'[g].inodeId \in Slots ELSE fd'[g] = FreeFd
      BY <1>2, <1>4, <1>6, <2>3 DEF FdsLead, FdUsed
    <3>4. QED
      BY <3>1, <3>2, <3>3 DEF FdsLead
  <2>5. \A i \in Slots : Openings(i)' = Openings(i)
    BY <2>3 DEF Openings, FdUsed
  <2>6. InodesLead'
    BY <2>1, <2>5 DEF InodesLead
  <2>7. ObjectsHooked'
    BY <2>1 DEF ObjectsHooked
  <2>8. ModesFit'
    BY <2>3 DEF ModesFit
  <2>9. QED
    BY <1>3, <2>1, <2>3, <2>4, <2>6, <2>7, <2>8
<1>7. CASE ~ (fd[f].handleCount > 1)
  <2>1. PICK i \in Slots : i = fd[f].inodeId
    BY <1>5
  <2>2. fd' = [fd EXCEPT ![f] = FreeFd] /\ PutInode(i)
    BY <1>7, <2>1 DEF PutFileDes
  <2>3. fd'[f] = FreeFd
    BY <2>2 DEF TypeOK
  <2>4. f \in Openings(i)
    BY <1>2, <2>1 DEF Openings
  <2>5. \A j \in Slots : Openings(j)' = IF j = i THEN Openings(i) \ {f} ELSE Openings(j)
    <3>1. \A j \in Slots, g \in Slots :
            g \in Openings(j)' <=> g # f /\ g \in Openings(j)
      <4>1. \A j \in Slots, g \in Slots \ {f} : g \in Openings(j)' <=> g \in Openings(j)
        BY <1>4 DEF Openings
      <4>2. \A j \in Slots : f \notin Openings(j)'
        BY <2>3 DEF Openings, FreeFd
      <4>3. QED
        BY <4>1, <4>2
    <3>2. \A j \in Slots : j # i => f \notin Openings(j)
      BY <2>1 DEF Openings
    <3>3. \A j \in Slots : Openings(j)' \in SUBSET Slots /\ Openings(j) \in SUBSET Slots
      BY DEF Openings
    <3>4. QED
      BY <3>1, <3>2, <3>3
  <2>6. /\ InodesLead' /\ ObjectsHooked'
        /\ \A j \in Slots : Openings(j)' # {} => inode'[j].iObj = inode[j].iObj
    BY <2>2, <2>4, <2>5, PutInodeLeads
  <2>7. Users(f)' = {} /\ Cardinality(Users(f)') = 0
    <3>1. Cardinality(Users(f)') = 0 /\ Users(f)' \in SUBSET Slots
      BY <1>1, <1>2, <1>7
    <3>2. QED
      BY <3>1, SmallSet
  <2>8. FdsLead'
    <3>1. \A g \in Slots \ {f} : fd'[g].handleCount = Cardinality(Users(g)')
      BY <1>4 DEF FdsLead
    <3>2. \A g \in Slots \ {f} :
            IF FdUsed(g)' THEN fd'[g].inodeId \in Slots ELSE fd'[g] = FreeFd
      BY <1>4 DEF FdsLead, FdUsed
    <3>3. fd'[f].handleCount = Cardinality(Users(f)')
      BY <2>3, <2>7 DEF FreeFd
    <3>4. ~ FdUsed(f)'
      BY <2>3 DEF FdUsed, FreeFd
    <3>5. QED
      BY <2>3, <3>1, <3>2, <3>3, <3>4 DEF FdsLead
  <2>9. ModesFit'
    BY <1>4, <2>3 DEF ModesFit, FdUsed, FreeFd
  <2>10. ASSUME NEW g \in Slots, Users(g)' # {}
         PROVE  /\ FdUsed(g) /\ fd'[g].inodeId = fd[g].inodeId
                /\ inode'[fd[g].inodeId].iObj = inode[fd[g].inodeId].iObj
    <3>1. g # f /\ FdUsed(g) /\ fd'[g] = fd[g]
      BY <1>3, <1>4, <2>7, <2>10
    <3>2. PICK j \in Slots : j = fd[g].inodeId
      BY <3>1 DEF FdsLead
    <3>3. g \in Openings(j)'
      BY <3>1, <3>2 DEF Openings, FdUsed
    <3>4. QED
      BY <2>6, <3>1, <3>2, <3>3
  <2>11. QED
    BY <2>6, <2>8, <2>9, <2>10
<1>8. QED
  BY <1>6, <1>7

\* A handle in use leads all the way to an object (yaffsfs_HandleToObject).
LEMMA UsedLeads ==
  ASSUME TypeOK, HandlesLead, Tables, NEW h \in Slots, HandleUsed(h)
  PROVE  LET f == handle[h].fdId
             i == fd[f].inodeId
         IN  /\ f \in Slots /\ h \in Users(f) /\ FdUsed(f)
             /\ i \in Slots /\ f \in Openings(i)
             /\ HandleToFileDes(h) = f /\ HandleToInode(h) = i
             /\ HandleToObject(h) = inode[i].iObj
             /\ HandleToObject(h) \in Objects /\ HandleToObject(h) # NoObject
<1> DEFINE f == handle[h].fdId
           i == fd[f].inodeId
<1>1. f \in Slots /\ h \in Users(f)
  BY DEF HandlesLead, HandleUsed, Users
<1>2. FdUsed(f)
  <2>1. Users(f) \in SUBSET Slots /\ Users(f) # {}
    BY <1>1 DEF Users
  <2>2. Cardinality(Users(f)) \in Nat \ {0}
    BY <2>1, SmallSet
  <2>3. QED
    BY <1>1, <2>2 DEF Tables, FdsLead, FdUsed
<1>3. i \in Slots /\ f \in Openings(i)
  BY <1>1, <1>2 DEF Tables, FdsLead, FdUsed, Openings
<1>4. inode[i].iObj # NoObject /\ inode[i].iObj \in Objects
  <2>1. Openings(i) \in SUBSET Slots /\ Openings(i) # {}
    BY <1>3 DEF Openings
  <2>2. Cardinality(Openings(i)) \in Nat \ {0}
    BY <2>1, SmallSet
  <2>3. inode[i].iObj # NoObject
    BY <1>3, <2>2 DEF Tables, InodesLead
  <2>4. QED
    BY <1>3, <2>3 DEF TypeOK
<1>5. HandleToFileDes(h) = f
  BY DEF HandleToFileDes, HandleUsed
<1>6. HandleToInode(h) = i
  BY <1>1, <1>2, <1>5, NHandlesAssumption DEF HandleToInode, FdUsed, Slots
<1>7. HandleToObject(h) = inode[i].iObj
  BY <1>3, <1>6, NHandlesAssumption DEF HandleToObject, Slots
<1>8. QED
  BY <1>1, <1>2, <1>3, <1>4, <1>5, <1>6, <1>7

\* The way from a handle in use to its object, in one step.
ObjectsReached ==
    \A h \in Slots :
      HandleUsed(h) => HandleToObject(h) = inode[fd[handle[h].fdId].inodeId].iObj

\* yaffsfs_HandleToObject finds what the entries lead to.
LEMMA EveryUsedLeads == TypeOK /\ HandlesLead /\ Tables => ObjectsReached
BY UsedLeads DEF ObjectsReached

\* The tables stay in agreement when the same handles use the same file
\* descriptors and nothing else of them changes.
LEMMA TablesKept ==
  ASSUME Tables, \A f \in Slots : Users(f)' = Users(f), UNCHANGED <<fd, inode, object>>
  PROVE  Tables'
<1>1. \A i \in Slots : Openings(i)' = Openings(i)
  BY DEF Openings
<1>2. FdsLead'
  BY DEF Tables, FdsLead, FdUsed
<1>3. InodesLead'
  BY <1>1 DEF Tables, InodesLead
<1>4. ObjectsHooked' /\ ModesFit'
  BY DEF Tables, ObjectsHooked, ModesFit, FdUsed
<1>5. QED
  BY <1>2, <1>3, <1>4 DEF Tables

\* Letting go of a handle in use takes one from its count, leaves the other
\* handles alone, and every handle still in use leads to the object it led to
\* before (yaffsfs_PutHandle).
LEMMA PutHandleLeads ==
  ASSUME TypeOK, HandlesLead, Tables, NEW h \in Slots, HandleUsed(h), PutHandle(h),
         TypeOK', HandlesLead'
  PROVE  /\ Tables'
         /\ handle'[h].useCount = handle[h].useCount - 1
         /\ handle[h].useCount > 1 => handle'[h].fdId = handle[h].fdId
         /\ \A k \in Slots \ {h} : handle'[k] = handle[k]
         /\ \A k \in Slots : HandleUsed(k)' =>
               HandleUsed(k) /\ HandleToObject(k)' = HandleToObject(k)
<1>1. CASE handle[h].useCount > 1
  <2>1. handle' = [handle EXCEPT ![h].useCount = @ - 1] /\ UNCHANGED <<fd, inode, object>>
    BY <1>1 DEF PutHandle
  <2>2. /\ handle'[h].useCount = handle[h].useCount - 1
        /\ handle'[h].fdId = handle[h].fdId
        /\ \A k \in Slots \ {h} : handle'[k] = handle[k]
    BY <2>1 DEF TypeOK
  <2>3. \A k \in Slots : handle'[k].fdId = handle[k].fdId /\ (HandleUsed(k)' <=> HandleUsed(k))
    <3>1. HandleUsed(h)' /\ HandleUsed(h)
      <4>1. handle[h].useCount \in Nat
        BY DEF TypeOK
      <4>2. QED
        BY <1>1, <2>2, <4>1 DEF HandleUsed
    <3>2. QED
      BY <2>2, <3>1 DEF HandleUsed
  <2>4. \A f \in Slots : Users(f)' = Users(f)
    BY <2>3 DEF Users, HandleUsed
  <2>5. Tables'
    BY <2>1, <2>4, TablesKept
  <2>6. \A k \in Slots : HandleToObject(k)' = HandleToObject(k)
    BY <2>1, <2>3 DEF HandleToObject, HandleToInode, HandleToFileDes, HandleUsed
  <2>7. QED
    BY <2>2, <2>3, <2>5, <2>6
<1>2. CASE ~ (handle[h].useCount > 1)
  <2>1. PICK f \in Slots : f = handle[h].fdId
    BY DEF HandlesLead
  <2>2. handle[h].useCount = 1
    BY <1>2 DEF HandleUsed, TypeOK
  <2>3. handle' = [handle EXCEPT ![h] = FreeHandle] /\ PutFileDes(f)
    BY <2>1, <2>2 DEF PutHandle
  <2>4. handle'[h] = FreeHandle /\ \A k \in Slots \ {h} : handle'[k] = handle[k]
    BY <2>3 DEF TypeOK
  <2>5. h \in Users(f)
    BY <2>1 DEF Users, HandleUsed
  <2>6. \A g \in Slots : Users(g)' = IF g = f THEN Users(f) \ {h} ELSE Users(g)
    <3>1. \A g \in Slots, k \in Slots \ {h} : k \in Users(g)' <=> k \in Users(g)
      BY <2>4 DEF Users
    <3>2. \A g \in Slots : h \notin Users(g)'
      BY <2>4 DEF Users, FreeHandle
    <3>3. \A g \in Slots : g # f => h \notin Users(g)
      BY <2>1 DEF Users
    <3>4. \A g \in Slots : Users(g)' \in SUBSET Slots /\ Users(g) \in SUBSET Slots
      BY DEF Users
    <3>5. ASSUME NEW g \in Slots
          PROVE  Users(g)' = IF g = f THEN Users(f) \ {h} ELSE Users(g)
      <4>1. CASE g = f
        <5>1. Users(g)' = Users(g) \ {h}
          BY <3>1, <3>2, <3>4
        <5>2. Users(g) = Users(f)
          BY <4>1
        <5>3. QED
          BY <4>1, <5>1, <5>2
      <4>2. CASE g # f
        <5>1. \A k \in Slots : k \in Users(g)' <=> k \in Users(g)
          BY <3>1, <3>2, <3>3, <4>2
        <5>2. Users(g)' \in SUBSET Slots /\ Users(g) \in SUBSET Slots
          BY <3>4
        <5>3. Users(g)' = Users(g)
          BY <5>1, <5>2
        <5>4. QED
          BY <4>2, <5>3
      <4>3. QED
        BY <4>1, <4>2
    <3>6. QED
      BY <3>5
  <2>7. /\ Tables'
        /\ \A g \in Slots : Users(g)' # {} =>
               /\ FdUsed(g) /\ fd'[g].inodeId = fd[g].inodeId
               /\ inode'[fd[g].inodeId].iObj = inode[fd[g].inodeId].iObj
    BY <2>3, <2>5, <2>6, PutFileDesLeads
  <2>8. ASSUME NEW k \in Slots, HandleUsed(k)'
        PROVE  HandleUsed(k) /\ HandleToObject(k)' = HandleToObject(k)
    <3>1. k # h /\ handle'[k] = handle[k] /\ HandleUsed(k)
      BY <2>4, <2>8 DEF HandleUsed, FreeHandle
    <3>2. PICK g \in Slots : g = handle[k].fdId
      BY <3>1 DEF HandlesLead
    <3>3. k \in Users(g)'
      BY <2>8, <3>1, <3>2 DEF Users, HandleUsed
    <3>4. HandleToObject(k) = inode[fd[g].inodeId].iObj
      BY <3>1, <3>2, UsedLeads
    <3>5. HandleToObject(k)' = inode'[fd'[g].inodeId].iObj
      <4>1. ObjectsReached'
        BY <2>7, EveryUsedLeads, PTL
      <4>2. HandleToObject(k)' = inode'[fd'[handle'[k].fdId].inodeId].iObj
        BY <2>8, <4>1 DEF ObjectsReached
      <4>3. QED
        BY <3>1, <3>2, <4>2
    <3>6. QED
      BY <2>7, <3>1, <3>3, <3>4, <3>5
  <2>9. QED
    BY <1>2, <2>2, <2>4, <2>7, <2>8 DEF FreeHandle
<1>3. QED
  BY <1>1, <1>2

\* Whoever holds on to a handle is counted: the program once, and every
\* transfer (useCount in yaffsfs_GetHandle and yaffsfs_NewHandle).
LEMMA HolderCounts ==
  ASSUME TypeOK, HandlesHeld, NEW h \in Slots
  PROVE  /\ TransfersOn(h) \in SUBSET Threads
         /\ Cardinality(TransfersOn(h)) \in Nat
         /\ mine[h] # NoObject => HandleUsed(h)
         /\ \A t \in TransfersOn(h) :
              /\ HandleUsed(h)
              /\ mine[h] # NoObject => handle[h].useCount > 1
              /\ \A u \in TransfersOn(h) \ {t} : handle[h].useCount > 1
         /\ ~ HandleUsed(h) => mine[h] = NoObject /\ TransfersOn(h) = {}
<1>1. /\ TransfersOn(h) \in SUBSET Threads
      /\ Cardinality(TransfersOn(h)) \in Nat
      /\ Cardinality(TransfersOn(h)) = 0 <=> TransfersOn(h) = {}
  BY SmallSet DEF TransfersOn
<1>2. handle[h].useCount =
        Cardinality(TransfersOn(h)) + (IF mine[h] # NoObject THEN 1 ELSE 0)
  BY DEF HandlesHeld
<1>3. ASSUME NEW t \in TransfersOn(h), NEW u \in TransfersOn(h) \ {t}
      PROVE  Cardinality(TransfersOn(h)) > 1
  <2>1. Cardinality(TransfersOn(h) \ {t}) = Cardinality(TransfersOn(h)) - 1
    BY <1>1, CountOneLess
  <2>2. TransfersOn(h) \ {t} \in SUBSET Threads /\ TransfersOn(h) \ {t} # {}
    BY <1>1, <1>3
  <2>3. Cardinality(TransfersOn(h) \ {t}) \in Nat \ {0}
    BY <2>2, SmallSet
  <2>4. QED
    BY <1>1, <2>1, <2>3
<1>4. QED
  BY <1>1, <1>2, <1>3 DEF HandleUsed

\* Closing a handle leaves the tables in agreement.
LEMMA CloseAgrees ==
  ASSUME IInv, ~broken, NEW h \in Slots, Close(h)
  PROVE  Tables' /\ Holders'
<1> USE DEF IInv, Typed, Holders
<1>1. Typed'
  BY CloseTyped
<1>2. mine[h] # NoObject /\ HandleUsed(h) /\ PutHandle(h)
  BY HolderCounts DEF Close
<1>3. /\ mine' = [mine EXCEPT ![h] = NoObject]
      /\ call' = call
  BY DEF Close
<1>4. /\ Tables'
      /\ handle'[h].useCount = handle[h].useCount - 1
      /\ handle[h].useCount > 1 => handle'[h].fdId = handle[h].fdId
      /\ \A k \in Slots \ {h} : handle'[k] = handle[k]
      /\ \A k \in Slots : HandleUsed(k)' =>
            HandleUsed(k) /\ HandleToObject(k)' = HandleToObject(k)
  BY <1>1, <1>2, PutHandleLeads
<1>5. \A k \in Slots : TransfersOn(k)' = TransfersOn(k)
  BY <1>3 DEF TransfersOn
<1>6. mine'[h] = NoObject /\ \A k \in Slots \ {h} : mine'[k] = mine[k]
  BY <1>3 DEF TypeOK
<1>7. HandlesHeld'
  <2>1. handle'[h].useCount = Cardinality(TransfersOn(h)')
    BY <1>2, <1>4, <1>5, HolderCounts DEF HandlesHeld
  <2>2. \A k \in Slots \ {h} : handle'[k].useCount =
          Cardinality(TransfersOn(k)') + (IF mine'[k] # NoObject THEN 1 ELSE 0)
    BY <1>4, <1>5, <1>6 DEF HandlesHeld
  <2>3. Cardinality(TransfersOn(h)') \in Nat
    BY <1>5, HolderCounts
  <2>4. QED
    BY <1>6, <2>1, <2>2, <2>3 DEF HandlesHeld
<1>8. MineLead'
  <2>1. ASSUME NEW k \in Slots, mine'[k] # NoObject
        PROVE  HandleToObject(k)' = mine'[k]
    <3>1. k # h /\ mine'[k] = mine[k] /\ handle'[k] = handle[k]
      BY <1>4, <1>6, <2>1
    <3>2. HandleUsed(k)'
      BY <2>1, <3>1, HolderCounts DEF HandleUsed
    <3>3. QED
      BY <1>4, <2>1, <3>1, <3>2 DEF MineLead
  <2>2. QED
    BY <2>1 DEF MineLead
<1>9. CallsLead'
  <2>1. ASSUME NEW t \in Threads, call[t] # Idle, ~call[t].void
        PROVE  handle'[call[t].handle].fdId = call[t].fdId
    <3>1. PICK k \in Slots : k = call[t].handle
      BY DEF TypeOK
    <3>2. t \in TransfersOn(k)
      BY <2>1, <3>1 DEF TransfersOn
    <3>3. handle'[k].fdId = handle[k].fdId
      BY <1>2, <1>4, <3>2, HolderCounts
    <3>4. QED
      BY <2>1, <3>1, <3>3 DEF CallsLead
  <2>2. QED
    BY <1>3, <2>1 DEF CallsLead
<1>10. QED
  BY <1>4, <1>7, <1>8, <1>9

\* Ending a transfer leaves the tables in agreement: it lets go of the handle it
\* held, and when that was taken away from it, of nothing.
LEMMA EndAgrees ==
  ASSUME IInv, ~broken, NEW t \in Threads, End(t), ~broken'
  PROVE  Tables' /\ Holders'
<1> USE DEF IInv, Typed, Holders
<1>1. Typed'
  BY EndTyped
<1>2. PICK h \in Slots : h = call[t].handle
  BY DEF TypeOK
<1>3. /\ call[t] # Idle /\ PutHandle(h)
      /\ call' = [call EXCEPT ![t] = Idle]
      /\ mine' = mine
      /\ ~ Reused(call[t])
  BY <1>2 DEF End
<1>4. call'[t] = Idle /\ \A u \in Threads \ {t} : call'[u] = call[u]
  BY <1>3 DEF TypeOK
<1>5. CASE call[t].void
  <2>1. ~ HandleUsed(h)
    BY <1>2, <1>3, <1>5 DEF Reused, HandleUsed
  <2>2. UNCHANGED <<handle, fd, inode, object>>
    BY <1>3, <2>1 DEF PutHandle, HandleUsed, TypeOK
  <2>3. \A k \in Slots : TransfersOn(k)' = TransfersOn(k)
    <3>1. ASSUME NEW k \in Slots, NEW u \in Threads
          PROVE  u \in TransfersOn(k)' <=> u \in TransfersOn(k)
      BY <1>4, <1>5 DEF TransfersOn
    <3>2. \A k \in Slots : TransfersOn(k)' \in SUBSET Threads /\ TransfersOn(k) \in SUBSET Threads
      BY DEF TransfersOn
    <3>3. QED
      BY <3>1, <3>2
  <2>4. \A f \in Slots : Users(f)' = Users(f)
    BY <2>2 DEF Users
  <2>5. Tables'
    BY <2>2, <2>4, TablesKept
  <2>6. HandlesHeld'
    BY <1>3, <2>2, <2>3 DEF HandlesHeld
  <2>7. MineLead'
    BY <1>3, <2>2 DEF MineLead, HandleToObject, HandleToInode, HandleToFileDes
  <2>8. CallsLead'
    BY <1>4, <2>2 DEF CallsLead
  <2>9. QED
    BY <2>5, <2>6, <2>7, <2>8
<1>6. CASE ~ call[t].void
  <2>1. t \in TransfersOn(h)
    BY <1>2, <1>3, <1>6 DEF TransfersOn
  <2>2. HandleUsed(h)
    BY <2>1, HolderCounts
  <2>3. /\ Tables'
        /\ handle'[h].useCount = handle[h].useCount - 1
        /\ handle[h].useCount > 1 => handle'[h].fdId = handle[h].fdId
        /\ \A k \in Slots \ {h} : handle'[k] = handle[k]
        /\ \A k \in Slots : HandleUsed(k)' =>
              HandleUsed(k) /\ HandleToObject(k)' = HandleToObject(k)
    BY <1>1, <1>3, <2>2, PutHandleLeads
  <2>4. TransfersOn(h)' = TransfersOn(h) \ {t}
    <3>1. \A u \in Threads : u \in TransfersOn(h)' <=> u \in TransfersOn(h) \ {t}
      BY <1>4 DEF TransfersOn
    <3>2. TransfersOn(h)' \in SUBSET Threads /\ TransfersOn(h) \in SUBSET Threads
      BY DEF TransfersOn
    <3>3. QED
      BY <3>1, <3>2
  <2>5. \A k \in Slots \ {h} : TransfersOn(k)' = TransfersOn(k)
    <3>1. ASSUME NEW k \in Slots \ {h}, NEW u \in Threads
          PROVE  u \in TransfersOn(k)' <=> u \in TransfersOn(k)
      BY <1>2, <1>4 DEF TransfersOn
    <3>2. \A k \in Slots : TransfersOn(k)' \in SUBSET Threads /\ TransfersOn(k) \in SUBSET Threads
      BY DEF TransfersOn
    <3>3. QED
      BY <3>1, <3>2
  <2>6. HandlesHeld'
    <3>1. Cardinality(TransfersOn(h)') = Cardinality(TransfersOn(h)) - 1
      BY <2>1, <2>4, HolderCounts, CountOneLess
    <3>2. handle[h].useCount =
            Cardinality(TransfersOn(h)) + (IF mine[h] # NoObject THEN 1 ELSE 0)
      BY DEF HandlesHeld
    <3>3. handle'[h].useCount =
            Cardinality(TransfersOn(h)') + (IF mine[h] # NoObject THEN 1 ELSE 0)
      BY <2>3, <3>1, <3>2, HolderCounts
    <3>4. \A k \in Slots \ {h} : handle'[k].useCount =
            Cardinality(TransfersOn(k)') + (IF mine[k] # NoObject THEN 1 ELSE 0)
      BY <2>3, <2>5 DEF HandlesHeld
    <3>5. QED
      BY <1>3, <3>3, <3>4 DEF HandlesHeld
  <2>7. MineLead'
    <3>1. ASSUME NEW k \in Slots, mine[k] # NoObject
          PROVE  HandleToObject(k)' = mine[k]
      <4>1. HandleUsed(k)'
        <5>1. CASE k = h
          <6>1. handle[h].useCount > 1 /\ handle[h].useCount \in Nat
            BY <2>1, <3>1, <5>1, HolderCounts DEF TypeOK
          <6>2. QED
            BY <2>3, <5>1, <6>1 DEF HandleUsed
        <5>2. CASE k # h
          BY <2>3, <3>1, <5>2, HolderCounts DEF HandleUsed
        <5>3. QED
          BY <5>1, <5>2
      <4>2. QED
        BY <2>3, <3>1, <4>1 DEF MineLead
    <3>2. QED
      BY <1>3, <3>1 DEF MineLead
  <2>8. CallsLead'
    <3>1. ASSUME NEW u \in Threads \ {t}, call[u] # Idle, ~call[u].void
          PROVE  handle'[call[u].handle].fdId = call[u].fdId
      <4>1. PICK k \in Slots : k = call[u].handle
        BY DEF TypeOK
      <4>2. u \in TransfersOn(k)
        BY <3>1, <4>1 DEF TransfersOn
      <4>3. handle'[k].fdId = handle[k].fdId
        BY <2>1, <2>3, <4>2, HolderCounts
      <4>4. QED
        BY <3>1, <4>1, <4>3 DEF CallsLead
    <3>2. \A u \in Threads \ {t} : call[u] # Idle => call[u].kind # "none"
      BY DEF CallsLead
    <3>3. QED
      BY <1>4, <3>1, <3>2 DEF CallsLead
  <2>9. QED
    BY <2>3, <2>6, <2>7, <2>8
<1>7. QED
  BY <1>5, <1>6

-----------------------------------------------------------------------------
(* Opening. *)

\* What yaffs_open_sharing leaves open as a case that can't happen: while a file
\* descriptor is free, so is an inode entry.  Every inode entry that has an
\* object has a file descriptor of its own, so there are not enough of them.
LEMMA InodesSuffice ==
  ASSUME TypeOK, Tables, FreeFds # {}
  PROVE  \E i \in Slots : inode[i].iObj = NoObject
<1> SUFFICES ASSUME \A i \in Slots : inode[i].iObj # NoObject
             PROVE  FALSE
  OBVIOUS
<1> DEFINE U == Slots \ FreeFds
           g == [f \in U |-> fd[f].inodeId]
<1>1. \A f \in U : FdUsed(f)
  BY DEF FreeFds, FdUsed, TypeOK
<1>2. g \in [U -> Slots]
  BY <1>1 DEF Tables, FdsLead
<1>3. \A i \in Slots : \E f \in U : g[f] = i
  <2>1. SUFFICES ASSUME NEW i \in Slots
                 PROVE  \E f \in U : g[f] = i
    OBVIOUS
  <2>2. Openings(i) \in SUBSET Slots /\ Cardinality(Openings(i)) > 0
    BY DEF Tables, InodesLead, Openings
  <2>3. PICK f \in Openings(i) : TRUE
    BY <2>2, SmallSet
  <2>4. f \in U /\ fd[f].inodeId = i
    BY <2>3 DEF Openings, FreeFds, TypeOK
  <2>5. QED
    BY <2>4
<1>4. g \in Surjection(U, Slots)
  BY <1>2, <1>3, Fun_IsSurj
<1>5. PICK x \in Slots : x \in FreeFds
  BY DEF FreeFds
<1>6. Cardinality(Slots) <= Cardinality(U)
  <2>1. IsFiniteSet(U)
    BY SmallSet
  <2> HIDE DEF U, g
  <2>2. QED
    BY <1>4, <2>1, FS_Surjection
<1>7. Cardinality(U) <= Cardinality(Slots \ {x})
  <2>1. U \in SUBSET (Slots \ {x}) /\ IsFiniteSet(Slots \ {x})
    BY <1>5, SmallSet
  <2> HIDE DEF U
  <2>2. QED
    BY <2>1, FS_Subset
<1>8. Cardinality(Slots \ {x}) = Cardinality(Slots) - 1
  BY <1>5, CountOneLess
<1>9. /\ Cardinality(U) \in Nat /\ Cardinality(Slots) \in Nat
      /\ Cardinality(Slots \ {x}) \in Nat
  BY SmallSet
<1> HIDE DEF U, g
<1>10. QED
  BY <1>6, <1>7, <1>8, <1>9

\* The inode entry yaffs_open_sharing goes on with: the one of the object, or a
\* free one when no entry has the object (yaffsfs_GetInodeIdForObject).
LEMMA InodeFound ==
  ASSUME TypeOK, Tables, FreeFds # {}, NEW o \in Objects
  PROVE  LET i == InodeIdForObject(o)
         IN  /\ i \in Slots
             /\ \/ inode[i].iObj = o
                \/ inode[i].iObj = NoObject /\ \A j \in Slots : inode[j].iObj # o
<1> DEFINE found == {i \in Slots : inode[i].iObj = o}
           free == {i \in Slots : inode[i].iObj = NoObject}
<1>1. CASE found # {}
  <2>1. InodeIdForObject(o) = Min(found) /\ Min(found) \in found
    BY <1>1, LeastEntry DEF InodeIdForObject
  <2>2. QED
    BY <2>1
<1>2. CASE found = {}
  <2>1. free # {}
    BY InodesSuffice
  <2>2. InodeIdForObject(o) = FirstFree(free) /\ FirstFree(free) \in free
    BY <1>2, <2>1, FirstFreeFound DEF InodeIdForObject
  <2>3. QED
    BY <1>2, <2>2
<1>3. QED
  BY <1>1, <1>2

\* What an open finds and leaves: three entries that nobody uses, except that
\* the inode entry may have the object already (yaffs_open_sharing).
OpenTakes(o, m, h, f, i) ==
    /\ h \in Slots /\ ~ HandleUsed(h) /\ mine[h] = NoObject /\ TransfersOn(h) = {}
    /\ f \in Slots /\ ~ FdUsed(f) /\ Users(f) = {}
    /\ i \in Slots
    /\ inode[i].iObj = o \/ inode[i].iObj = NoObject
    /\ \A j \in Slots \ {i} : inode[j].iObj # o
    /\ handle' = [handle EXCEPT ![h] = [fdId |-> f, useCount |-> 1]]
    /\ fd' = [fd EXCEPT ![f] = [handleCount |-> 1, inodeId |-> i, mode |-> m]]
    /\ inode' = [inode EXCEPT ![i] = [count |-> inode[i].count + 1, iObj |-> o]]
    /\ object' = [object EXCEPT ![o] = [place |-> "linked", my_inode |-> i]]
    /\ mine' = [mine EXCEPT ![h] = o]
    /\ UNCHANGED <<device, call, broken>>

\* yaffs_open_sharing always finds the three entries it goes on with.
LEMMA OpenFinds ==
  ASSUME IInv, ~broken, NEW o \in Objects, NEW m \in OpenModes, Open(o, m)
  PROVE  OpenTakes(o, m, FirstFree(FreeHandles), FirstFree(FreeFds), InodeIdForObject(o))
<1> USE DEF IInv, Typed, Holders
<1> DEFINE h == FirstFree(FreeHandles)
           f == FirstFree(FreeFds)
           i == InodeIdForObject(o)
<1>1. h \in FreeHandles /\ f \in FreeFds
  BY FirstFreeFound DEF Open, FreeHandles, FreeFds
<1>2. h \in Slots /\ f \in Slots /\ FreeFds # {}
  BY <1>1 DEF FreeHandles, FreeFds
<1>3. /\ i \in Slots
      /\ \/ inode[i].iObj = o
         \/ inode[i].iObj = NoObject /\ \A j \in Slots : inode[j].iObj # o
  BY <1>2, InodeFound
<1>4. i >= 0 /\ ~ (i < 0)
  BY <1>3, NHandlesAssumption DEF Slots
<1>5. /\ handle' = [handle EXCEPT ![h] = [fdId |-> f, useCount |-> 1]]
      /\ fd' = [fd EXCEPT ![f] = [handleCount |-> 1, inodeId |-> i, mode |-> m]]
      /\ inode' = [inode EXCEPT ![i] = [count |-> inode[i].count + 1, iObj |-> o]]
      /\ object' = [object EXCEPT ![o] = [place |-> "linked", my_inode |-> i]]
      /\ mine' = [mine EXCEPT ![h] = o]
      /\ UNCHANGED <<device, call, broken>>
  BY <1>4 DEF Open
<1> HIDE DEF h, f, i
<1>6. ~ HandleUsed(h)
  BY <1>1, <1>2 DEF FreeHandles, HandleUsed, TypeOK
<1>7. mine[h] = NoObject /\ TransfersOn(h) = {}
  BY <1>2, <1>6, HolderCounts
<1>8. ~ FdUsed(f) /\ fd[f].handleCount = 0
  BY <1>1, <1>2 DEF FreeFds, FdUsed, TypeOK
<1>9. Users(f) = {}
  BY <1>2, <1>8, SmallSet DEF Tables, FdsLead, Users
<1>10. \A j \in Slots \ {i} : inode[j].iObj # o
  <2>1. CASE inode[i].iObj = o
    <3>1. object[o].my_inode = i
      BY <1>3, <2>1 DEF Tables, ObjectsHooked
    <3>2. QED
      BY <3>1 DEF Tables, ObjectsHooked
  <2>2. QED
    BY <1>3, <2>1
<1>11. OpenTakes(o, m, h, f, i)
  BY <1>2, <1>3, <1>5, <1>6, <1>7, <1>8, <1>9, <1>10 DEF OpenTakes
<1>12. QED
  BY <1>11 DEF h, f, i

\* An open leaves the tables in agreement.
LEMMA OpenAgrees ==
  ASSUME IInv, ~broken, NEW o \in Objects, NEW m \in OpenModes, Open(o, m)
  PROVE  Tables' /\ Holders'
<1> USE DEF IInv, Typed, Holders
<1>1. Typed'
  BY OpenTyped
<1>2. PICK h, f, i : OpenTakes(o, m, h, f, i)
  BY OpenFinds
<1>3. /\ h \in Slots /\ f \in Slots /\ i \in Slots
      /\ ~ HandleUsed(h) /\ ~ FdUsed(f)
      /\ inode[i].iObj = o \/ inode[i].iObj = NoObject
  BY <1>2 DEF OpenTakes
<1>4. /\ handle'[h] = [fdId |-> f, useCount |-> 1]
      /\ \A k \in Slots \ {h} : handle'[k] = handle[k]
  BY <1>2, <1>3 DEF OpenTakes, TypeOK
<1>5. /\ fd'[f] = [handleCount |-> 1, inodeId |-> i, mode |-> m]
      /\ \A g \in Slots \ {f} : fd'[g] = fd[g]
  BY <1>2, <1>3 DEF OpenTakes, TypeOK
<1>6. /\ inode'[i].count = inode[i].count + 1 /\ inode'[i].iObj = o
      /\ \A j \in Slots \ {i} : inode'[j] = inode[j]
  BY <1>2, <1>3 DEF OpenTakes, TypeOK
<1>7. /\ object'[o].my_inode = i /\ object'[o].place = "linked"
      /\ \A p \in Objects \ {o} : object'[p] = object[p]
  BY <1>2 DEF OpenTakes, TypeOK
<1>8. /\ mine'[h] = o
      /\ \A k \in Slots \ {h} : mine'[k] = mine[k]
      /\ call' = call
  BY <1>2, <1>3 DEF OpenTakes, TypeOK
<1>9. FdsLead'
  <2>1. Users(f)' = {h}
    <3>1. \A k \in Slots : k \in Users(f)' <=> k = h
      <4>1. h \in Users(f)'
        BY <1>3, <1>4 DEF Users
      <4>2. \A k \in Slots \ {h} : k \in Users(f)' <=> k \in Users(f)
        BY <1>4 DEF Users
      <4>3. QED
        BY <1>2, <4>1, <4>2 DEF OpenTakes
    <3>2. Users(f)' \in SUBSET Slots
      BY DEF Users
    <3>3. QED
      BY <1>3, <3>1, <3>2
  <2>2. \A g \in Slots \ {f} : Users(g)' = Users(g)
    <3>1. ASSUME NEW g \in Slots \ {f}, NEW k \in Slots
          PROVE  k \in Users(g)' <=> k \in Users(g)
      <4>1. CASE k = h
        BY <1>3, <1>4, <4>1 DEF Users, HandleUsed
      <4>2. CASE k # h
        BY <1>4, <4>2 DEF Users
      <4>3. QED
        BY <4>1, <4>2
    <3>2. \A g \in Slots : Users(g)' \in SUBSET Slots /\ Users(g) \in SUBSET Slots
      BY DEF Users
    <3>3. QED
      BY <3>1, <3>2
  <2>3. Cardinality(Users(f)') = 1
    BY <2>1, FS_Singleton
  <2>4. \A g \in Slots \ {f} : fd'[g].handleCount = Cardinality(Users(g)')
    BY <1>5, <2>2 DEF Tables, FdsLead
  <2>5. \A g \in Slots \ {f} : IF FdUsed(g)' THEN fd'[g].inodeId \in Slots ELSE fd'[g] = FreeFd
    BY <1>5 DEF Tables, FdsLead, FdUsed
  <2>6. fd'[f].handleCount = 1 /\ FdUsed(f)' /\ fd'[f].inodeId \in Slots
    BY <1>3, <1>5 DEF FdUsed
  <2>7. QED
    BY <2>3, <2>4, <2>5, <2>6 DEF FdsLead
<1>10. InodesLead'
  <2>1. Openings(i)' = Openings(i) \cup {f} /\ f \notin Openings(i)
    <3>1. f \in Openings(i)' /\ f \notin Openings(i)
      BY <1>3, <1>5 DEF Openings, FdUsed
    <3>2. \A g \in Slots \ {f} : g \in Openings(i)' <=> g \in Openings(i)
      BY <1>5 DEF Openings
    <3>3. Openings(i)' \in SUBSET Slots /\ Openings(i) \in SUBSET Slots
      BY DEF Openings
    <3>4. QED
      BY <1>3, <3>1, <3>2, <3>3
  <2>2. \A j \in Slots \ {i} : Openings(j)' = Openings(j)
    <3>1. ASSUME NEW j \in Slots \ {i}, NEW g \in Slots
          PROVE  g \in Openings(j)' <=> g \in Openings(j)
      <4>1. CASE g = f
        BY <1>3, <1>5, <4>1 DEF Openings, FdUsed
      <4>2. CASE g # f
        BY <1>5, <4>2 DEF Openings
      <4>3. QED
        BY <4>1, <4>2
    <3>2. \A j \in Slots : Openings(j)' \in SUBSET Slots /\ Openings(j) \in SUBSET Slots
      BY DEF Openings
    <3>3. QED
      BY <3>1, <3>2
  <2>3. Openings(i) \in SUBSET Slots
    BY DEF Openings
  <2>4. /\ Cardinality(Openings(i)') = Cardinality(Openings(i)) + 1
        /\ Cardinality(Openings(i)) \in Nat
    BY <2>1, <2>3, CountOneMore, SmallSet
  <2>5. inode'[i].count = Cardinality(Openings(i)') /\ inode'[i].count > 0
    BY <1>3, <1>6, <2>4 DEF Tables, InodesLead
  <2>6. \A j \in Slots \ {i} : inode'[j].count = Cardinality(Openings(j)')
    BY <1>6, <2>2 DEF Tables, InodesLead
  <2>7. o # NoObject
    BY NoObjectAssumption
  <2>8. \A j \in Slots \ {i} : inode'[j].count > 0 <=> inode'[j].iObj # NoObject
    BY <1>6 DEF Tables, InodesLead
  <2>9. QED
    BY <1>6, <2>5, <2>6, <2>7, <2>8 DEF InodesLead
<1>11. ObjectsHooked'
  <2>1. ASSUME NEW p \in Objects \ {o}
        PROVE  /\ \A j \in Slots : inode'[j].iObj = p <=> object'[p].my_inode = j
               /\ object'[p].place = "unlinked" => object'[p].my_inode >= 0
    <3>1. object'[p] = object[p]
      BY <1>7
    <3>2. inode'[i].iObj # p /\ inode[i].iObj # p
      BY <1>3, <1>6, NoObjectAssumption
    <3>3. \A j \in Slots : inode'[j].iObj = p <=> inode[j].iObj = p
      BY <1>6, <3>2
    <3>4. QED
      BY <3>1, <3>3 DEF Tables, ObjectsHooked
  <2>2. \A j \in Slots : inode'[j].iObj = o <=> j = i
    BY <1>2, <1>6 DEF OpenTakes
  <2>3. QED
    BY <1>7, <2>1, <2>2 DEF ObjectsHooked
<1>12. ModesFit'
  <2>1. ASSUME NEW g \in Slots \ {f}, FdUsed(g), fd[g].inodeId = i
        PROVE  /\ m.reading => fd[g].mode.shareRead
               /\ fd[g].mode.reading => m.shareRead
               /\ m.writing => fd[g].mode.shareWrite
               /\ fd[g].mode.writing => m.shareWrite
    <3>1. g \in Openings(i) /\ Openings(i) \in SUBSET Slots
      BY <2>1 DEF Openings, FdUsed
    <3>2. inode[i].count > 0
      <4>1. Openings(i) # {} /\ Cardinality(Openings(i)) \in Nat \ {0}
        BY <3>1, SmallSet
      <4>2. QED
        BY <1>3, <4>1 DEF Tables, InodesLead
    <3>3. inode[i].iObj = o
      BY <1>3, <3>2 DEF Tables, InodesLead
    <3>4. i >= 0
      BY <1>3, NHandlesAssumption DEF Slots
    <3>5. SharingAllowed(o, m)
      BY DEF Open
    <3>6. QED
      BY <2>1, <3>3, <3>4, <3>5 DEF SharingAllowed, FdUsed
  <2>2. ASSUME NEW g \in Slots, NEW e \in Slots, g # e, FdUsed(g)', FdUsed(e)',
               fd'[g].inodeId = fd'[e].inodeId
        PROVE  /\ fd'[g].mode.reading => fd'[e].mode.shareRead
               /\ fd'[g].mode.writing => fd'[e].mode.shareWrite
    <3>1. CASE g = f
      <4>1. e # f /\ fd'[e] = fd[e] /\ FdUsed(e) /\ fd[e].inodeId = i
        BY <1>5, <2>2, <3>1 DEF FdUsed
      <4>2. QED
        BY <1>5, <2>1, <3>1, <4>1
    <3>2. CASE e = f
      <4>1. g # f /\ fd'[g] = fd[g] /\ FdUsed(g) /\ fd[g].inodeId = i
        BY <1>5, <2>2, <3>2 DEF FdUsed
      <4>2. QED
        BY <1>5, <2>1, <3>2, <4>1
    <3>3. CASE g # f /\ e # f
      BY <1>5, <2>2, <3>3 DEF Tables, ModesFit, FdUsed
    <3>4. QED
      BY <3>1, <3>2, <3>3
  <2>3. QED
    BY <2>2 DEF ModesFit
<1>13. Tables'
  BY <1>9, <1>10, <1>11, <1>12 DEF Tables
<1>14. \A k \in Slots : TransfersOn(k)' = TransfersOn(k)
  BY <1>8 DEF TransfersOn
<1>15. HandlesHeld'
  <2>1. Cardinality(TransfersOn(h)') = 0
    <3>1. TransfersOn(h)' = {}
      BY <1>2, <1>3, <1>14 DEF OpenTakes
    <3>2. QED
      BY <3>1, FS_EmptySet
  <2>2. \A k \in Slots \ {h} : handle'[k].useCount =
          Cardinality(TransfersOn(k)') + (IF mine'[k] # NoObject THEN 1 ELSE 0)
    BY <1>4, <1>8, <1>14 DEF HandlesHeld
  <2>3. handle'[h].useCount = 1 /\ mine'[h] # NoObject
    BY <1>4, <1>8, NoObjectAssumption
  <2>4. QED
    BY <2>1, <2>2, <2>3 DEF HandlesHeld
<1>16. MineLead'
  <2>1. ObjectsReached'
    BY <1>1, <1>13, EveryUsedLeads, PTL
  <2>2. HandleToObject(h)' = o
    <3>1. HandleToObject(h)' = inode'[fd'[handle'[h].fdId].inodeId].iObj
      BY <1>3, <1>4, <2>1 DEF ObjectsReached, HandleUsed
    <3>2. QED
      BY <1>4, <1>5, <1>6, <3>1
  <2>3. ASSUME NEW k \in Slots \ {h}, mine[k] # NoObject
        PROVE  HandleToObject(k)' = mine[k]
    <3>1. HandleUsed(k) /\ handle'[k] = handle[k] /\ HandleUsed(k)'
      BY <1>4, <2>3, HolderCounts DEF HandleUsed
    <3>2. PICK g \in Slots : g = handle[k].fdId /\ FdUsed(g)
      BY <3>1, UsedLeads
    <3>3. g # f /\ fd'[g] = fd[g]
      BY <1>3, <1>5, <3>2
    <3>4. PICK j \in Slots : j = fd[g].inodeId
      BY <3>2 DEF Tables, FdsLead
    <3>5. inode[j].iObj = mine[k]
      BY <2>3, <3>1, <3>2, <3>4, UsedLeads DEF MineLead
    <3>6. inode'[j].iObj = inode[j].iObj
      BY <1>3, <1>6, <2>3, <3>5
    <3>7. HandleToObject(k)' = inode'[fd'[handle'[k].fdId].inodeId].iObj
      BY <2>1, <3>1 DEF ObjectsReached
    <3>8. QED
      BY <3>1, <3>2, <3>3, <3>4, <3>5, <3>6, <3>7
  <2>4. QED
    BY <1>8, <2>2, <2>3 DEF MineLead
<1>17. CallsLead'
  <2>1. ASSUME NEW t \in Threads, call[t] # Idle, ~call[t].void
        PROVE  handle'[call[t].handle].fdId = call[t].fdId
    <3>1. PICK k \in Slots : k = call[t].handle
      BY DEF TypeOK
    <3>2. t \in TransfersOn(k)
      BY <2>1, <3>1 DEF TransfersOn
    <3>3. k # h
      BY <1>2, <3>2 DEF OpenTakes
    <3>4. QED
      BY <1>4, <2>1, <3>1, <3>3 DEF CallsLead
  <2>2. QED
    BY <1>8, <2>1 DEF CallsLead
<1>18. QED
  BY <1>13, <1>15, <1>16, <1>17

-----------------------------------------------------------------------------
(* One more holder, and the calls that change no handle. *)

\* A duplicate leaves the tables in agreement: its file descriptor has one more
\* handle (yaffs_dup).
LEMMA DupAgrees ==
  ASSUME IInv, ~broken, NEW h \in Slots, Dup(h)
  PROVE  Tables' /\ Holders'
<1> USE DEF IInv, Typed, Holders
<1>1. Typed'
  BY DupTyped
<1>2. PICK h2 : h2 = FirstFree(FreeHandles)
  OBVIOUS
<1>3. h2 \in Slots /\ ~ HandleUsed(h2)
  BY <1>2, FirstFreeFound DEF Dup, FreeHandles, HandleUsed, TypeOK
<1>4. mine[h] # NoObject /\ HandleUsed(h) /\ h # h2
  BY <1>3, HolderCounts DEF Dup
<1>5. PICK f \in Slots : f = handle[h].fdId /\ FdUsed(f) /\ HandleToFileDes(h) = f
  BY <1>4, UsedLeads
<1>6. /\ handle' = [handle EXCEPT ![h2] = [fdId |-> f, useCount |-> 1]]
      /\ fd' = [fd EXCEPT ![f].handleCount = @ + 1]
      /\ mine' = [mine EXCEPT ![h2] = mine[h]]
      /\ UNCHANGED <<inode, object, device, call, broken>>
  BY <1>2, <1>5 DEF Dup
<1>7. mine[h2] = NoObject /\ TransfersOn(h2) = {}
  BY <1>3, HolderCounts
<1>8. /\ handle'[h2] = [fdId |-> f, useCount |-> 1]
      /\ \A k \in Slots \ {h2} : handle'[k] = handle[k]
  BY <1>3, <1>6 DEF TypeOK
<1>9. /\ fd'[f].handleCount = fd[f].handleCount + 1
      /\ fd'[f].inodeId = fd[f].inodeId /\ fd'[f].mode = fd[f].mode
      /\ \A g \in Slots \ {f} : fd'[g] = fd[g]
  BY <1>6 DEF TypeOK
<1>10. /\ mine'[h2] = mine[h]
       /\ \A k \in Slots \ {h2} : mine'[k] = mine[k]
  BY <1>3, <1>6 DEF TypeOK
<1>11. FdUsed(f)'
  <2>1. fd[f].handleCount \in Nat
    BY DEF TypeOK
  <2>2. QED
    BY <1>9, <2>1 DEF FdUsed
<1>12. \A g \in Slots : /\ FdUsed(g)' <=> FdUsed(g)
                        /\ fd'[g].inodeId = fd[g].inodeId /\ fd'[g].mode = fd[g].mode
  BY <1>5, <1>9, <1>11 DEF FdUsed
<1>13. FdsLead'
  <2>1. Users(f)' = Users(f) \cup {h2} /\ h2 \notin Users(f)
    <3>1. h2 \in Users(f)' /\ h2 \notin Users(f)
      BY <1>3, <1>8 DEF Users, HandleUsed
    <3>2. \A k \in Slots \ {h2} : k \in Users(f)' <=> k \in Users(f)
      BY <1>8 DEF Users
    <3>3. Users(f)' \in SUBSET Slots /\ Users(f) \in SUBSET Slots
      BY DEF Users
    <3>4. QED
      BY <1>3, <3>1, <3>2, <3>3
  <2>2. \A g \in Slots \ {f} : Users(g)' = Users(g)
    <3>1. ASSUME NEW g \in Slots \ {f}, NEW k \in Slots
          PROVE  k \in Users(g)' <=> k \in Users(g)
      <4>1. CASE k = h2
        BY <1>3, <1>8, <4>1 DEF Users, HandleUsed
      <4>2. CASE k # h2
        BY <1>8, <4>2 DEF Users
      <4>3. QED
        BY <4>1, <4>2
    <3>2. \A g \in Slots : Users(g)' \in SUBSET Slots /\ Users(g) \in SUBSET Slots
      BY DEF Users
    <3>3. QED
      BY <3>1, <3>2
  <2>3. Users(f) \in SUBSET Slots
    BY DEF Users
  <2>4. Cardinality(Users(f)') = Cardinality(Users(f)) + 1
    BY <2>1, <2>3, CountOneMore
  <2>5. fd'[f].handleCount = Cardinality(Users(f)')
    BY <1>9, <2>4 DEF Tables, FdsLead
  <2>6. \A g \in Slots \ {f} : fd'[g].handleCount = Cardinality(Users(g)')
    BY <1>9, <2>2 DEF Tables, FdsLead
  <2>7. \A g \in Slots : IF FdUsed(g)' THEN fd'[g].inodeId \in Slots ELSE fd'[g] = FreeFd
    BY <1>5, <1>9, <1>12 DEF Tables, FdsLead
  <2>8. QED
    BY <2>5, <2>6, <2>7 DEF FdsLead
<1>14. InodesLead'
  <2>1. \A i \in Slots : Openings(i)' = Openings(i)
    BY <1>12 DEF Openings, FdUsed
  <2>2. QED
    BY <1>6, <2>1 DEF Tables, InodesLead
<1>15. ObjectsHooked' /\ ModesFit'
  BY <1>6, <1>12 DEF Tables, ObjectsHooked, ModesFit
<1>16. Tables'
  BY <1>13, <1>14, <1>15 DEF Tables
<1>17. \A k \in Slots : TransfersOn(k)' = TransfersOn(k)
  BY <1>6 DEF TransfersOn
<1>18. HandlesHeld'
  <2>1. TransfersOn(h2)' = {} /\ Cardinality(TransfersOn(h2)') = 0
    <3>1. TransfersOn(h2)' = {}
      BY <1>3, <1>7, <1>17
    <3>2. QED
      BY <3>1, FS_EmptySet
  <2>2. \A k \in Slots \ {h2} : handle'[k].useCount =
          Cardinality(TransfersOn(k)') + (IF mine'[k] # NoObject THEN 1 ELSE 0)
    BY <1>8, <1>10, <1>17 DEF HandlesHeld
  <2>3. handle'[h2].useCount = 1 /\ mine'[h2] # NoObject
    BY <1>4, <1>8, <1>10
  <2>4. QED
    BY <2>1, <2>2, <2>3 DEF HandlesHeld
<1>19. MineLead'
  <2>1. ObjectsReached' /\ ObjectsReached
    BY <1>1, <1>16, EveryUsedLeads, PTL
  <2>2. ASSUME NEW k \in Slots, mine[k] # NoObject, NEW l \in Slots, HandleUsed(l)',
               handle'[l].fdId = handle[k].fdId
        PROVE  HandleToObject(l)' = mine[k]
    <3>1. HandleUsed(k)
      BY <2>2, HolderCounts
    <3>2. PICK g \in Slots : g = handle[k].fdId
      BY <3>1, UsedLeads
    <3>3. mine[k] = inode[fd[g].inodeId].iObj
      BY <2>1, <2>2, <3>1, <3>2 DEF MineLead, ObjectsReached
    <3>4. HandleToObject(l)' = inode'[fd'[handle'[l].fdId].inodeId].iObj
      BY <2>1, <2>2 DEF ObjectsReached
    <3>5. QED
      BY <1>6, <1>12, <2>2, <3>2, <3>3, <3>4
  <2>3. HandleToObject(h2)' = mine'[h2]
    BY <1>3, <1>4, <1>5, <1>8, <1>10, <2>2 DEF HandleUsed
  <2>4. ASSUME NEW k \in Slots \ {h2}, mine'[k] # NoObject
        PROVE  HandleToObject(k)' = mine'[k]
    <3>1. mine[k] = mine'[k] /\ handle'[k] = handle[k]
      BY <1>8, <1>10
    <3>2. HandleUsed(k)'
      BY <2>4, <3>1, HolderCounts DEF HandleUsed
    <3>3. QED
      BY <2>2, <2>4, <3>1, <3>2
  <2>5. QED
    BY <2>3, <2>4 DEF MineLead
<1>20. CallsLead'
  <2>1. ASSUME NEW t \in Threads, call[t] # Idle, ~call[t].void
        PROVE  handle'[call[t].handle].fdId = call[t].fdId
    <3>1. PICK k \in Slots : k = call[t].handle
      BY DEF TypeOK
    <3>2. t \in TransfersOn(k)
      BY <2>1, <3>1 DEF TransfersOn
    <3>3. k # h2
      BY <1>7, <3>2
    <3>4. QED
      BY <1>8, <2>1, <3>1, <3>3 DEF CallsLead
  <2>2. QED
    BY <1>6, <2>1 DEF CallsLead
<1>21. QED
  BY <1>16, <1>18, <1>19, <1>20

\* A transfer that begins is one more holder of its handle (yaffsfs_GetHandle).
LEMMA BeginAgrees ==
  ASSUME IInv, ~broken, NEW t \in Threads, NEW h \in Slots, NEW kind \in {"read", "write"},
         NEW n \in 0 .. MaxChunks, Begin(t, h, kind, n)
  PROVE  Tables' /\ Holders'
<1> USE DEF IInv, Typed, Holders
<1>1. mine[h] # NoObject /\ HandleUsed(h) /\ call[t] = Idle
  BY HolderCounts DEF Begin
<1>2. PICK f \in Slots : f = handle[h].fdId /\ HandleToFileDes(h) = f
  BY <1>1, UsedLeads
<1>3. /\ handle' = [handle EXCEPT ![h].useCount = @ + 1]
      /\ call' = [call EXCEPT
            ![t] = [kind |-> kind, handle |-> h, fdId |-> f, left |-> n, void |-> FALSE]]
      /\ UNCHANGED <<fd, inode, object, device, mine, broken>>
  BY <1>2 DEF Begin
<1>4. /\ handle'[h].useCount = handle[h].useCount + 1
      /\ \A k \in Slots \ {h} : handle'[k] = handle[k]
      /\ \A k \in Slots : handle'[k].fdId = handle[k].fdId
  BY <1>3 DEF TypeOK
<1>5. /\ call'[t] = [kind |-> kind, handle |-> h, fdId |-> f, left |-> n, void |-> FALSE]
      /\ \A u \in Threads \ {t} : call'[u] = call[u]
  BY <1>3 DEF TypeOK
<1>6. call'[t] # Idle
  <2>1. call'[t].kind # "none"
    BY <1>5
  <2>2. QED
    BY <2>1 DEF Idle
<1>7. \A k \in Slots : HandleUsed(k)' <=> HandleUsed(k)
  <2>1. handle[h].useCount \in Nat
    BY DEF TypeOK
  <2>2. HandleUsed(h)'
    BY <1>4, <2>1 DEF HandleUsed
  <2>3. QED
    BY <1>1, <1>4, <2>2 DEF HandleUsed
<1>8. \A g \in Slots : Users(g)' = Users(g)
  BY <1>4, <1>7 DEF Users, HandleUsed
<1>9. Tables'
  BY <1>3, <1>8, TablesKept
<1>10. TransfersOn(h)' = TransfersOn(h) \cup {t} /\ t \notin TransfersOn(h)
  <2>1. t \in TransfersOn(h)' /\ t \notin TransfersOn(h)
    BY <1>1, <1>5, <1>6 DEF TransfersOn
  <2>2. \A u \in Threads \ {t} : u \in TransfersOn(h)' <=> u \in TransfersOn(h)
    BY <1>5 DEF TransfersOn
  <2>3. TransfersOn(h)' \in SUBSET Threads /\ TransfersOn(h) \in SUBSET Threads
    BY DEF TransfersOn
  <2>4. QED
    BY <2>1, <2>2, <2>3
<1>11. \A k \in Slots \ {h} : TransfersOn(k)' = TransfersOn(k)
  <2>1. ASSUME NEW k \in Slots \ {h}, NEW u \in Threads
        PROVE  u \in TransfersOn(k)' <=> u \in TransfersOn(k)
    <3>1. CASE u = t
      BY <1>1, <1>5, <3>1 DEF TransfersOn
    <3>2. CASE u # t
      BY <1>5, <3>2 DEF TransfersOn
    <3>3. QED
      BY <3>1, <3>2
  <2>2. \A k \in Slots : TransfersOn(k)' \in SUBSET Threads /\ TransfersOn(k) \in SUBSET Threads
    BY DEF TransfersOn
  <2>3. QED
    BY <2>1, <2>2
<1>12. HandlesHeld'
  <2>1. Cardinality(TransfersOn(h)') = Cardinality(TransfersOn(h)) + 1
    BY <1>10, HolderCounts, CountOneMore
  <2>2. handle[h].useCount =
          Cardinality(TransfersOn(h)) + (IF mine[h] # NoObject THEN 1 ELSE 0)
    BY DEF HandlesHeld
  <2>3. handle'[h].useCount =
          Cardinality(TransfersOn(h)') + (IF mine[h] # NoObject THEN 1 ELSE 0)
    BY <1>4, <2>1, <2>2, HolderCounts
  <2>4. \A k \in Slots \ {h} : handle'[k].useCount =
          Cardinality(TransfersOn(k)') + (IF mine[k] # NoObject THEN 1 ELSE 0)
    BY <1>4, <1>11 DEF HandlesHeld
  <2>5. QED
    BY <1>3, <2>3, <2>4 DEF HandlesHeld
<1>13. MineLead'
  <2>1. \A k \in Slots : HandleToObject(k)' = HandleToObject(k)
    BY <1>3, <1>4, <1>7 DEF HandleToObject, HandleToInode, HandleToFileDes, HandleUsed
  <2>2. QED
    BY <1>3, <2>1 DEF MineLead
<1>14. CallsLead'
  <2>1. /\ call'[t].kind # "none"
        /\ handle'[call'[t].handle].fdId = call'[t].fdId
    BY <1>2, <1>4, <1>5
  <2>2. ASSUME NEW u \in Threads \ {t}, call[u] # Idle
        PROVE  /\ call[u].kind # "none"
               /\ ~call[u].void => handle'[call[u].handle].fdId = call[u].fdId
    BY <1>4, <2>2 DEF CallsLead, TypeOK
  <2>3. QED
    BY <1>5, <2>1, <2>2 DEF CallsLead
<1>15. QED
  BY <1>9, <1>12, <1>13, <1>14

\* A chunk of a transfer changes who holds what no more than a stutter does.
LEMMA ChunkAgrees ==
  ASSUME IInv, ~broken, NEW t \in Threads, NEW done \in BOOLEAN, Chunk(t, done)
  PROVE  Tables' /\ Holders'
<1> USE DEF IInv, Typed, Holders
<1>1. UNCHANGED <<handle, fd, inode, object, device, mine>>
  BY DEF Chunk
<1>2. PICK n : n = IF done THEN call[t].left - 1 ELSE 0
  OBVIOUS
<1>3. call' = [call EXCEPT ![t].left = n] /\ call[t].left > 0
  BY <1>2 DEF Chunk
<1>4. call[t] # Idle
  BY <1>3 DEF Idle
<1>5. /\ call'[t].kind = call[t].kind /\ call'[t].handle = call[t].handle
      /\ call'[t].fdId = call[t].fdId /\ call'[t].void = call[t].void
      /\ \A u \in Threads \ {t} : call'[u] = call[u]
  BY <1>3 DEF TypeOK
<1>6. call[t].kind # "none"
  BY <1>4 DEF CallsLead
<1>7. call'[t] # Idle
  BY <1>5, <1>6 DEF Idle
<1>8. \A k \in Slots : TransfersOn(k)' = TransfersOn(k)
  <2>1. ASSUME NEW k \in Slots, NEW u \in Threads
        PROVE  u \in TransfersOn(k)' <=> u \in TransfersOn(k)
    <3>1. CASE u = t
      BY <1>4, <1>5, <1>7, <3>1 DEF TransfersOn
    <3>2. CASE u # t
      BY <1>5, <3>2 DEF TransfersOn
    <3>3. QED
      BY <3>1, <3>2
  <2>2. \A k \in Slots : TransfersOn(k)' \in SUBSET Threads /\ TransfersOn(k) \in SUBSET Threads
    BY DEF TransfersOn
  <2>3. QED
    BY <2>1, <2>2
<1>9. Tables'
  <2>1. \A f \in Slots : Users(f)' = Users(f)
    BY <1>1 DEF Users
  <2>2. QED
    BY <1>1, <2>1, TablesKept
<1>10. HandlesHeld'
  BY <1>1, <1>8 DEF HandlesHeld
<1>11. MineLead'
  BY <1>1 DEF MineLead, HandleToObject, HandleToInode, HandleToFileDes
<1>12. CallsLead'
  BY <1>1, <1>4, <1>5 DEF CallsLead
<1>13. QED
  BY <1>9, <1>10, <1>11, <1>12

\* Calls that leave the tables and the holders alone (a remount, an unmount of a
\* device that is not busy).
LEMMA NothingChanges ==
  ASSUME Tables, Holders, UNCHANGED <<handle, fd, inode, object, call, mine>>
  PROVE  Tables' /\ Holders'
<1>1. \A f \in Slots : Users(f)' = Users(f) /\ TransfersOn(f)' = TransfersOn(f)
  BY DEF Users, TransfersOn
<1>2. Tables'
  BY <1>1, TablesKept
<1>3. HandlesHeld'
  BY <1>1 DEF Holders, HandlesHeld
<1>4. MineLead' /\ CallsLead'
  BY DEF Holders, MineLead, CallsLead, HandleToObject, HandleToInode, HandleToFileDes
<1>5. QED
  BY <1>2, <1>3, <1>4 DEF Holders

\* Unlinking an object leaves it hooked to its inode entry (yaffs_unlink).
LEMMA UnlinkAgrees ==
  ASSUME IInv, ~broken, NEW o \in Objects, Unlink(o)
  PROVE  Tables' /\ Holders'
<1> USE DEF IInv, Typed, Holders
<1>1. UNCHANGED <<handle, fd, inode, call, mine>>
  BY DEF Unlink
<1>2. PICK place : place = IF object[o].my_inode >= 0 THEN "unlinked" ELSE "absent"
  OBVIOUS
<1>3. object' = [object EXCEPT ![o].place = place]
  BY <1>2 DEF Unlink
<1>4. /\ object'[o].place = place
      /\ \A p \in Objects : object'[p].my_inode = object[p].my_inode
      /\ \A p \in Objects \ {o} : object'[p].place = object[p].place
  BY <1>3 DEF TypeOK
<1>5. ObjectsHooked'
  <2>1. \A p \in Objects, i \in Slots : inode'[i].iObj = p <=> object'[p].my_inode = i
    BY <1>1, <1>4 DEF Tables, ObjectsHooked
  <2>2. \A p \in Objects : object'[p].place = "unlinked" => object'[p].my_inode >= 0
    BY <1>2, <1>4 DEF Tables, ObjectsHooked
  <2>3. QED
    BY <2>1, <2>2 DEF ObjectsHooked
<1>6. FdsLead'
  <2>1. \A f \in Slots : Users(f)' = Users(f)
    BY <1>1 DEF Users
  <2>2. QED
    BY <1>1, <2>1 DEF Tables, FdsLead, FdUsed
<1>7. InodesLead'
  <2>1. \A i \in Slots : Openings(i)' = Openings(i)
    BY <1>1 DEF Openings
  <2>2. QED
    BY <1>1, <2>1 DEF Tables, InodesLead
<1>8. ModesFit'
  BY <1>1 DEF Tables, ModesFit, FdUsed
<1>9. HandlesHeld'
  <2>1. \A k \in Slots : TransfersOn(k)' = TransfersOn(k)
    BY <1>1 DEF TransfersOn
  <2>2. QED
    BY <1>1, <2>1 DEF HandlesHeld
<1>10. MineLead' /\ CallsLead'
  BY <1>1 DEF MineLead, CallsLead, HandleToObject, HandleToInode, HandleToFileDes
<1>11. QED
  BY <1>5, <1>6, <1>7, <1>8, <1>9, <1>10 DEF Tables

-----------------------------------------------------------------------------
(* Clearing the tables. *)

\* Nothing is open: what yaffsfs_InitHandles sets up, and what a forced unmount
\* leaves.
Cleared ==
    /\ \A h \in Slots : handle[h].useCount = 0 /\ mine[h] = NoObject
    /\ \A f \in Slots : fd[f] = FreeFd
    /\ \A i \in Slots : inode[i] = FreeInode
    /\ \A o \in Objects : object[o].my_inode = -1 /\ object[o].place # "unlinked"
    /\ \A t \in Threads : call[t] # Idle => call[t].void /\ call[t].kind # "none"

\* Empty tables agree with each other (yaffsfs_InitHandles).
LEMMA ClearedAgrees == Cleared => Tables /\ Holders
<1> SUFFICES ASSUME Cleared PROVE Tables /\ Holders
  OBVIOUS
<1>1. \A k \in Slots : Users(k) = {} /\ Openings(k) = {} /\ TransfersOn(k) = {}
  BY DEF Cleared, Users, Openings, TransfersOn, FreeFd
<1>2. \A k \in Slots : /\ Cardinality(Users(k)) = 0 /\ Cardinality(Openings(k)) = 0
                       /\ Cardinality(TransfersOn(k)) = 0
  BY <1>1, FS_EmptySet
<1>3. FdsLead
  BY <1>2 DEF Cleared, FdsLead, FdUsed, FreeFd
<1>4. InodesLead
  BY <1>2 DEF Cleared, InodesLead, FreeInode
<1>5. ObjectsHooked
  BY NoObjectAssumption, NHandlesAssumption DEF Cleared, ObjectsHooked, FreeInode, Slots
<1>6. ModesFit
  BY DEF Cleared, ModesFit, FdUsed, FreeFd
<1>7. HandlesHeld
  BY <1>2 DEF Cleared, HandlesHeld
<1>8. MineLead /\ CallsLead
  BY DEF Cleared, MineLead, CallsLead
<1>9. QED
  BY <1>3, <1>4, <1>5, <1>6, <1>7, <1>8 DEF Tables, Holders

\* A device that is not busy has nothing open (yaffsfs_IsDevBusy).
LEMMA NotBusyIsFree ==
  ASSUME IInv, ~broken, ~IsDevBusy
  PROVE  /\ \A h \in Slots : handle[h].useCount = 0 /\ mine[h] = NoObject /\ TransfersOn(h) = {}
         /\ \A f \in Slots : fd[f] = FreeFd
         /\ \A i \in Slots : inode[i] = FreeInode
         /\ \A o \in Objects : object[o].my_inode = -1 /\ object[o].place # "unlinked"
<1> USE DEF IInv, Typed, Holders
<1>1. \A h \in Slots : ~ HandleUsed(h) /\ handle[h].useCount = 0
  <2>1. \A h \in Slots : ~ HandleUsed(h)
    BY UsedLeads DEF IsDevBusy
  <2>2. QED
    BY <2>1 DEF HandleUsed, TypeOK
<1>2. \A h \in Slots : mine[h] = NoObject /\ TransfersOn(h) = {}
  BY <1>1, HolderCounts
<1>3. ASSUME NEW f \in Slots
      PROVE  fd[f] = FreeFd
  <2>1. Users(f) = {}
    BY <1>1 DEF Users, HandleUsed
  <2>2. fd[f].handleCount = 0
    BY <2>1, FS_EmptySet DEF Tables, FdsLead
  <2>3. QED
    BY <2>2 DEF Tables, FdsLead, FdUsed
<1>4. ASSUME NEW i \in Slots
      PROVE  inode[i] = FreeInode
  <2>1. Openings(i) = {}
    BY <1>3 DEF Openings, FreeFd
  <2>2. inode[i].count = 0
    BY <2>1, FS_EmptySet DEF Tables, InodesLead
  <2>3. inode[i].iObj = NoObject
    BY <2>2 DEF Tables, InodesLead
  <2>4. inode[i] \in [count : Nat, iObj : Objects \cup {NoObject}]
    BY DEF TypeOK
  <2>5. QED
    BY <2>2, <2>3, <2>4 DEF FreeInode
<1>5. ASSUME NEW o \in Objects
      PROVE  object[o].my_inode = -1 /\ object[o].place # "unlinked"
  <2>1. \A i \in Slots : object[o].my_inode # i
    BY <1>4, NoObjectAssumption DEF Tables, ObjectsHooked, FreeInode
  <2>2. object[o].my_inode \in -1 .. YAFFSFS_N_HANDLES - 1
    BY DEF TypeOK
  <2>3. object[o].my_inode = -1
    BY <2>1, <2>2, NHandlesAssumption DEF Slots
  <2>4. QED
    BY <2>3 DEF Tables, ObjectsHooked
<1>6. QED
  BY <1>1, <1>2, <1>3, <1>4, <1>5

\* A forced unmount takes every handle away and clears every entry that a
\* handle leads to, which is every entry (yaffsfs_BreakDeviceHandles).
LEMMA BreakClears ==
  ASSUME IInv, ~broken, BreakDeviceHandles
  PROVE  /\ \A h \in Slots : handle'[h].useCount = 0
         /\ \A f \in Slots : fd'[f] = FreeFd
         /\ \A i \in Slots : inode'[i] = FreeInode
         /\ \A o \in Objects :
              /\ object'[o].my_inode = -1
              /\ object'[o].place = IF object[o].place = "unlinked" THEN "absent" ELSE object[o].place
<1> USE DEF IInv, Typed, Holders
<1> DEFINE gone == {HandleToFileDes(h) : h \in {k \in Slots : HandleToObject(k) # NoObject}}
           Left(i) == inode[i].count - Cardinality({f \in gone : fd[f].inodeId = i})
           released == {inode[i].iObj : i \in {k \in Slots : inode[k].count > 0 /\ Left(k) <= 0}}
<1>1. /\ handle' = [h \in Slots |-> IF handle[h].useCount > 0
                                   THEN [fdId |-> 0, useCount |-> 0] ELSE handle[h]]
      /\ fd' = [f \in Slots |-> IF f \in gone THEN FreeFd ELSE fd[f]]
      /\ inode' = [i \in Slots |-> IF Left(i) <= 0 THEN FreeInode
                                   ELSE [inode[i] EXCEPT !.count = Left(i)]]
      /\ object' = [o \in Objects |->
            IF o \notin released THEN object[o]
            ELSE [object[o] EXCEPT !.my_inode = -1,
                                   !.place = IF @ = "unlinked" THEN "absent" ELSE @]]
  BY DEF BreakDeviceHandles
<1>2. ASSUME NEW f \in Slots
      PROVE  f \in gone <=> FdUsed(f)
  <2>1. ASSUME f \in gone
        PROVE  FdUsed(f)
    <3>1. PICK h \in Slots : HandleToObject(h) # NoObject /\ f = HandleToFileDes(h)
      BY <2>1
    <3>2. HandleUsed(h)
      BY <3>1, NHandlesAssumption DEF HandleToFileDes, HandleUsed, Slots
    <3>3. QED
      BY <3>1, <3>2, UsedLeads
  <2>2. ASSUME FdUsed(f)
        PROVE  f \in gone
    <3>1. Users(f) \in SUBSET Slots /\ Cardinality(Users(f)) > 0
      BY <2>2 DEF Tables, FdsLead, FdUsed, Users
    <3>2. PICK h \in Users(f) : TRUE
      BY <3>1, SmallSet
    <3>3. h \in Slots /\ HandleUsed(h) /\ handle[h].fdId = f
      BY <3>2 DEF Users, HandleUsed
    <3>4. HandleToFileDes(h) = f /\ HandleToObject(h) # NoObject
      BY <3>3, UsedLeads
    <3>5. QED
      BY <3>3, <3>4
  <2>3. QED
    BY <2>1, <2>2
<1>3. gone \in SUBSET Slots
  BY LookupTyped
<1>4. ASSUME NEW i \in Slots
      PROVE  Left(i) = 0
  <2>1. {f \in gone : fd[f].inodeId = i} = Openings(i)
    <3> HIDE DEF gone
    <3>1. QED
      BY <1>2, <1>3 DEF Openings, FdUsed
  <2>2. inode[i].count = Cardinality(Openings(i)) /\ inode[i].count \in Nat
    BY DEF Tables, InodesLead, TypeOK
  <2> HIDE DEF gone
  <2>3. Cardinality({f \in gone : fd[f].inodeId = i}) = inode[i].count
    BY <2>1, <2>2
  <2>4. QED
    BY <2>2, <2>3
<1>5. \A i \in Slots : inode[i].iObj # NoObject => inode[i].iObj \in released
  <2>1. \A i \in Slots : inode[i].iObj # NoObject => inode[i].count > 0 /\ Left(i) <= 0
    <3> HIDE DEF Left
    <3>1. QED
      BY <1>4 DEF Tables, InodesLead
  <2> HIDE DEF Left
  <2>2. QED
    BY <2>1
<1> HIDE DEF gone, Left, released
<1>6. ASSUME NEW h \in Slots
      PROVE  handle'[h].useCount = 0
  <2>1. CASE handle[h].useCount > 0
    <3>1. handle'[h] = [fdId |-> 0, useCount |-> 0]
      BY <1>1, <2>1
    <3>2. QED
      BY <3>1
  <2>2. CASE ~ (handle[h].useCount > 0)
    <3>1. handle'[h] = handle[h]
      BY <1>1, <2>2
    <3>2. handle[h].useCount \in Nat
      BY DEF TypeOK
    <3>3. QED
      BY <2>2, <3>1, <3>2
  <2>3. QED
    BY <2>1, <2>2
<1>7. \A f \in Slots : fd'[f] = FreeFd
  BY <1>1, <1>2 DEF Tables, FdsLead
<1>8. ASSUME NEW i \in Slots
      PROVE  inode'[i] = FreeInode
  <2>1. Left(i) <= 0
    BY <1>4
  <2>2. QED
    BY <1>1, <2>1
<1>9. ASSUME NEW o \in Objects
      PROVE  /\ object'[o].my_inode = -1
             /\ object'[o].place = IF object[o].place = "unlinked" THEN "absent" ELSE object[o].place
  <2>1. object[o] \in [place : {"absent", "linked", "unlinked"},
                       my_inode : -1 .. YAFFSFS_N_HANDLES - 1]
    BY DEF TypeOK
  <2>2. CASE o \in released
    BY <1>1, <2>1, <2>2
  <2>3. CASE o \notin released
    <3>1. object'[o] = object[o]
      BY <1>1, <2>3
    <3>2. \A i \in Slots : object[o].my_inode # i
      BY <1>5, <2>3, NoObjectAssumption DEF Tables, ObjectsHooked
    <3>3. object[o].my_inode = -1
      BY <2>1, <3>2, NHandlesAssumption DEF Slots
    <3>4. object[o].place # "unlinked"
      BY <3>3 DEF Tables, ObjectsHooked
    <3>5. QED
      BY <3>1, <3>3, <3>4
  <2>4. QED
    BY <2>2, <2>3
<1>10. QED
  BY <1>6, <1>7, <1>8, <1>9

\* After an unmount the tables agree: nothing has changed, or nothing is open.
LEMMA UnmountAgrees ==
  ASSUME IInv, ~broken, NEW force \in BOOLEAN, Unmount(force)
  PROVE  Tables' /\ Holders'
<1> USE DEF IInv, Typed
<1>1. CASE UNCHANGED <<handle, fd, inode, object, call, mine>>
  BY <1>1, NothingChanges
<1>2. CASE /\ BreakDeviceHandles
           /\ call' = [t \in Threads |->
                IF call[t] = Idle THEN Idle ELSE [call[t] EXCEPT !.void = TRUE]]
           /\ mine' = [h \in Slots |-> NoObject]
  <2>1. ASSUME NEW t \in Threads, call'[t] # Idle
        PROVE  call'[t].void /\ call'[t].kind # "none"
    <3>1. call[t] # Idle /\ call'[t] = [call[t] EXCEPT !.void = TRUE]
      BY <1>2, <2>1
    <3>2. call[t].kind # "none"
      BY <3>1 DEF Holders, CallsLead
    <3>3. call[t] \in [kind : {"none", "read", "write"}, handle : Slots, fdId : Slots,
                       left : 0 .. MaxChunks, void : BOOLEAN]
      BY DEF TypeOK
    <3>4. QED
      BY <3>1, <3>2, <3>3
  <2>2. Cleared'
    <3>1. \A h \in Slots : handle'[h].useCount = 0 /\ mine'[h] = NoObject
      BY <1>2, BreakClears
    <3>2. \A o \in Objects : object'[o].my_inode = -1 /\ object'[o].place # "unlinked"
      BY <1>2, BreakClears
    <3>3. QED
      BY <1>2, <2>1, <3>1, <3>2, BreakClears DEF Cleared
  <2>3. QED
    BY <2>2, ClearedAgrees, PTL
<1>3. QED
  BY <1>1, <1>2 DEF Unmount

\* A mount clears the tables; unless that breaks a handle they were clear.
LEMMA MountAgrees ==
  ASSUME IInv, ~broken, NEW read_only \in BOOLEAN, Mount(read_only), ~broken'
  PROVE  Tables' /\ Holders'
<1>1. ~IsDevBusy
  BY DEF Mount
<1>2. /\ \A h \in Slots : mine[h] = NoObject /\ TransfersOn(h) = {}
      /\ \A o \in Objects : object[o].my_inode = -1 /\ object[o].place # "unlinked"
  BY <1>1, NotBusyIsFree
<1>3. ASSUME NEW t \in Threads, call[t] # Idle
      PROVE  call[t].void /\ call[t].kind # "none"
  <2>1. call[t].handle \in Slots
    BY DEF IInv, Typed, TypeOK
  <2>2. call[t].void
    BY <1>2, <1>3, <2>1 DEF TransfersOn
  <2>3. QED
    BY <1>3, <2>2 DEF IInv, Holders, CallsLead
<1>4. Cleared'
  BY <1>2, <1>3 DEF Mount, Cleared, FreeHandle
<1>5. QED
  BY <1>4, ClearedAgrees, PTL

-----------------------------------------------------------------------------
(* The invariants of the tables. *)

\* yaffsfs_InitHandles leaves the tables empty.
LEMMA InitAgrees == Init => IInv
<1> SUFFICES ASSUME Init PROVE IInv
  OBVIOUS
<1>1. \A h \in Slots : handle[h].useCount = 0 /\ mine[h] = NoObject
  BY DEF Init, FreeHandle
<1>2. \A o \in Objects : object[o].my_inode = -1 /\ object[o].place # "unlinked"
  BY DEF Init
<1>3. Cleared
  BY <1>1, <1>2 DEF Init, Cleared
<1>4. QED
  BY <1>3, InitTyped, ClearedAgrees DEF IInv

\* Every call takes tables that agree to tables that agree, or breaks them for good.
LEMMA StepAgrees == IInv /\ [Next]_vars => IInv'
<1> SUFFICES ASSUME IInv, [Next]_vars PROVE IInv'
  OBVIOUS
<1>1. Typed'
  BY StepTyped DEF IInv
<1>2. ASSUME broken, [Next]_vars
      PROVE  broken'
  BY <1>2 DEF Next, vars, Open, Dup, Close, Begin, Chunk, End, Unlink, Remount, Unmount, Mount
<1>3. ASSUME ~broken, ~broken'
      PROVE  Tables' /\ Holders'
  <2> USE <1>3
  <2>1. CASE \E o \in Objects, m \in OpenModes : Open(o, m)
    BY <2>1, OpenAgrees
  <2>2. CASE \E h \in Slots : Dup(h) \/ Close(h)
    BY <2>2, DupAgrees, CloseAgrees
  <2>3. CASE \E t \in Threads, h \in Slots, kind \in {"read", "write"}, n \in 0 .. MaxChunks :
               Begin(t, h, kind, n)
    BY <2>3, BeginAgrees
  <2>4. CASE \E t \in Threads : (\E done \in BOOLEAN : Chunk(t, done)) \/ End(t)
    BY <2>4, ChunkAgrees, EndAgrees
  <2>5. CASE \E o \in Objects : Unlink(o)
    BY <2>5, UnlinkAgrees
  <2>6. CASE \E force, read_only \in BOOLEAN : Remount(force, read_only)
    BY <2>6, NothingChanges DEF Remount, IInv
  <2>7. CASE \E force \in BOOLEAN : Unmount(force)
    BY <2>7, UnmountAgrees
  <2>8. CASE \E read_only \in BOOLEAN : Mount(read_only)
    BY <2>8, MountAgrees
  <2>9. CASE UNCHANGED vars
    BY <2>9, NothingChanges DEF vars, IInv
  <2>10. QED
    BY <2>1, <2>2, <2>3, <2>4, <2>5, <2>6, <2>7, <2>8, <2>9 DEF Next
<1>4. QED
  BY <1>1, <1>2, <1>3 DEF IInv

\* The tables agree as long as no call has broken them.
LEMMA IInvHolds == Spec => []IInv
BY InitAgrees, StepAgrees, PTL DEF Spec

\* Each entry of the three tables counts exactly the entries that lead to it, so
\* that none is freed under its user and none is left behind, through any
\* interleaving of opens, dups, closes, transfers, unlinks, mounts and unmounts
\* (yaffsfs_PutHandle, yaffsfs_PutFileDes, yaffsfs_PutInode).
THEOREM CountsHold == Spec => []TablesAgree
<1>1. IInv => TablesAgree
  BY DEF IInv, Tables, Holders, HandlesHeld, FdsLead, InodesLead, TablesAgree
<1>2. QED
  BY IInvHolds, <1>1, PTL

\* The case yaffs_open_sharing does not handle, no inode entry for a file
\* descriptor that is free, does not happen however many entries there are.
THEOREM InodeAlwaysAvailable == Spec => []InodeAvailable
<1>1. IInv => InodeAvailable
  <2>1. SUFFICES ASSUME IInv, ~broken, FreeFds # {}, NEW o \in Objects
                 PROVE  InodeIdForObject(o) >= 0
    BY DEF InodeAvailable
  <2>2. InodeIdForObject(o) \in Slots
    BY <2>1, InodeFound DEF IInv, Typed
  <2>3. QED
    BY <2>2, NHandlesAssumption DEF Slots
<1>2. QED
  BY IInvHolds, <1>1, PTL

\* The sharing modes of the open file descriptors of an object fit one another,
\* whatever was opened, duplicated and closed in between (yaffs_open_sharing).
THEOREM SharesHold == Spec => []SharesRespected
<1>1. IInv => SharesRespected
  BY DEF IInv, Tables, ModesFit, FdUsed, SharesRespected
<1>2. QED
  BY IInvHolds, <1>1, PTL

(***************************************************************************)
(* The handle tables implement the descriptions of OpenFiles.              *)
(***************************************************************************)

\* The object of a description.
FileOf(f) == IF fd[f].inodeId >= 0 THEN inode[fd[f].inodeId].iObj ELSE NoObject

\* A file descriptor is in use while something refers to it, and then has an
\* object.
FdsMapped ==
    \A f \in Slots :
      /\ FdUsed(f) <=> Refs(f) # {}
      /\ FdUsed(f) => FileOf(f) \in Objects
      /\ ~ FdUsed(f) => FileOf(f) = NoObject

\* A handle in use leads to the object of its file descriptor, and every file
\* descriptor in use has a handle.
HandlesMapped ==
    /\ \A h \in Slots : HandleUsed(h) =>
         /\ handle[h].fdId \in Slots /\ FdUsed(handle[h].fdId)
         /\ HandleToObject(h) = FileOf(handle[h].fdId)
    /\ \A f \in Slots : FdUsed(f) => \E h \in Slots : HandleUsed(h) /\ handle[h].fdId = f

\* An object is hooked to an inode entry while some description has it.
ObjectsMapped ==
    \A o \in Objects :
      /\ object[o].my_inode >= 0 <=> \E f \in Slots : FileOf(f) = o
      /\ object[o].place = "unlinked" => object[o].my_inode >= 0

Mapped == FdsMapped /\ HandlesMapped /\ ObjectsMapped

\* What refers to a description: handles of the program and transfers, which
\* are never mistaken for one another.
LEMMA RefsSplit ==
  ASSUME NEW f
  PROVE  /\ \A h \in Slots : h \in Refs(f) <=> mine[h] # NoObject /\ handle[h].fdId = f
         /\ \A t \in Threads :
              t \in Refs(f) <=> call[t] # Idle /\ ~call[t].void /\ call[t].fdId = f
         /\ Refs(f) \in SUBSET (Slots \cup Threads)
BY ThreadsAssumption DEF Refs, Slots

\* The counts of the tables stand for the references (fd[f].handleCount is not
\* 0 exactly when a handle or a transfer refers to f).
LEMMA TablesMapped == IInv /\ ~broken => Mapped
<1> SUFFICES ASSUME IInv, ~broken PROVE Mapped
  OBVIOUS
<1> USE DEF IInv, Typed, Holders
<1>1. ASSUME NEW h \in Slots, HandleUsed(h)
      PROVE  /\ handle[h].fdId \in Slots /\ FdUsed(handle[h].fdId)
             /\ HandleToObject(h) = FileOf(handle[h].fdId)
  <2>1. PICK f \in Slots : f = handle[h].fdId /\ FdUsed(f) /\ fd[f].inodeId \in Slots
                           /\ HandleToObject(h) = inode[fd[f].inodeId].iObj
    BY <1>1, UsedLeads
  <2>2. HandleToObject(h) = FileOf(f)
    BY <2>1, NHandlesAssumption DEF FileOf, Slots
  <2>3. QED
    BY <2>1, <2>2
<1>2. ASSUME NEW f \in Slots, FdUsed(f)
      PROVE  \E h \in Slots : HandleUsed(h) /\ handle[h].fdId = f
  <2>1. Users(f) \in SUBSET Slots /\ Cardinality(Users(f)) > 0
    BY <1>2 DEF Tables, FdsLead, FdUsed, Users
  <2>2. PICK h \in Users(f) : TRUE
    BY <2>1, SmallSet
  <2>3. QED
    BY <2>2 DEF Users, HandleUsed
<1>3. ASSUME NEW f \in Slots, FdUsed(f)
      PROVE  Refs(f) # {} /\ FileOf(f) \in Objects
  <2>1. PICK h \in Slots : HandleUsed(h) /\ handle[h].fdId = f
    BY <1>2, <1>3
  <2>2. FileOf(f) \in Objects
    BY <1>1, <2>1, UsedLeads
  <2>3. mine[h] # NoObject \/ TransfersOn(h) # {}
    <3>1. SUFFICES ASSUME mine[h] = NoObject, TransfersOn(h) = {}
                   PROVE  FALSE
      OBVIOUS
    <3>2. Cardinality(TransfersOn(h)) = 0
      BY <3>1, FS_EmptySet
    <3>3. QED
      BY <2>1, <3>1, <3>2 DEF HandlesHeld, HandleUsed
  <2>4. CASE mine[h] # NoObject
    BY <2>1, <2>2, <2>4, RefsSplit
  <2>5. CASE TransfersOn(h) # {}
    <3>1. PICK t \in Threads : t \in TransfersOn(h)
      BY <2>5 DEF TransfersOn
    <3>2. call[t] # Idle /\ ~call[t].void /\ call[t].handle = h
      BY <3>1 DEF TransfersOn
    <3>3. call[t].fdId = f
      BY <2>1, <3>2 DEF CallsLead
    <3>4. t \in Refs(f)
      BY <3>2, <3>3, RefsSplit
    <3>5. QED
      BY <2>2, <3>4
  <2>6. QED
    BY <2>3, <2>4, <2>5
<1>4. ASSUME NEW f \in Slots, ~ FdUsed(f)
      PROVE  Refs(f) = {} /\ FileOf(f) = NoObject
  <2>1. FileOf(f) = NoObject
    BY <1>4 DEF Tables, FdsLead, FileOf, FreeFd
  <2>2. \A h \in Slots : h \notin Refs(f)
    BY <1>1, <1>4, HolderCounts, RefsSplit
  <2>3. ASSUME NEW t \in Threads, t \in Refs(f)
        PROVE  FALSE
    <3>1. PICK h \in Slots : h = call[t].handle
      BY DEF TypeOK
    <3>2. t \in TransfersOn(h) /\ handle[h].fdId = f
      BY <2>3, <3>1, RefsSplit DEF TransfersOn, CallsLead
    <3>3. QED
      BY <1>1, <1>4, <3>2, HolderCounts
  <2>4. QED
    BY <2>1, <2>2, <2>3, RefsSplit
<1>5. ASSUME NEW o \in Objects
      PROVE  object[o].my_inode >= 0 <=> \E f \in Slots : FileOf(f) = o
  <2>1. ASSUME object[o].my_inode >= 0
        PROVE  \E f \in Slots : FileOf(f) = o
    <3>1. PICK i \in Slots : i = object[o].my_inode
      BY <2>1, NHandlesAssumption DEF TypeOK, Slots
    <3>2. inode[i].iObj = o /\ inode[i].count > 0
      BY <3>1, NoObjectAssumption DEF Tables, ObjectsHooked, InodesLead
    <3>3. Openings(i) \in SUBSET Slots /\ Cardinality(Openings(i)) > 0
      BY <3>2 DEF Tables, InodesLead, Openings
    <3>4. PICK f \in Openings(i) : TRUE
      BY <3>3, SmallSet
    <3>5. FileOf(f) = o
      BY <3>2, <3>4, NHandlesAssumption DEF Openings, FileOf, Slots
    <3>6. QED
      BY <3>3, <3>4, <3>5
  <2>2. ASSUME NEW f \in Slots, FileOf(f) = o
        PROVE  object[o].my_inode >= 0
    <3>1. FdUsed(f)
      BY <1>4, <2>2, NoObjectAssumption
    <3>2. PICK i \in Slots : i = fd[f].inodeId
      BY <3>1 DEF Tables, FdsLead
    <3>3. inode[i].iObj = o
      BY <2>2, <3>2, NHandlesAssumption DEF FileOf, Slots
    <3>4. object[o].my_inode = i
      BY <3>3 DEF Tables, ObjectsHooked
    <3>5. QED
      BY <3>4, NHandlesAssumption DEF Slots
  <2>3. QED
    BY <2>1, <2>2
<1>6. FdsMapped
  BY <1>3, <1>4 DEF FdsMapped
<1>7. HandlesMapped
  BY <1>1, <1>2 DEF HandlesMapped
<1>8. ObjectsMapped
  BY <1>5 DEF ObjectsMapped, Tables, ObjectsHooked
<1>9. QED
  BY <1>6, <1>7, <1>8 DEF Mapped

\* The same for all descriptions, to be used before and after a step.
RefsAre ==
    \A f \in Slots :
      /\ \A h \in Slots : h \in Refs(f) <=> mine[h] # NoObject /\ handle[h].fdId = f
      /\ \A t \in Threads :
           t \in Refs(f) <=> call[t] # Idle /\ ~call[t].void /\ call[t].fdId = f
      /\ Refs(f) \in SUBSET (Slots \cup Threads)

\* RefsAre as a formula, to be primed as a whole.
LEMMA RefsAlways == RefsAre
BY RefsSplit DEF RefsAre

\* The variables of OpenFiles, as the tables stand for them.
RefsMap == [f \in Slots |-> Refs(f)]
FileMap == [f \in Slots |-> FileOf(f)]
PlaceMap == [o \in Objects |-> object[o].place]

-----------------------------------------------------------------------------
(* Each step of the tables is a step of the descriptions. *)

\* yaffs_open_sharing makes a description.
LEMMA OpenMakes ==
  ASSUME IInv, ~broken, NEW o \in Objects, NEW m \in OpenModes, Open(o, m)
  PROVE  \E d \in Slots, h \in Slots : OpenFilesOfTables!OpenFile(d, h, o)
<1> USE DEF IInv, Typed
<1>1. PICK h, d, i : OpenTakes(o, m, h, d, i)
  BY OpenFinds
<1>2. /\ h \in Slots /\ d \in Slots /\ i \in Slots
      /\ ~ HandleUsed(h) /\ mine[h] = NoObject /\ ~ FdUsed(d) /\ call' = call
  BY <1>1 DEF OpenTakes
<1>3. IInv' /\ ~broken'
  BY OpenAgrees, OpenTyped DEF Open
<1>4. Mapped /\ Mapped' /\ RefsAre /\ RefsAre'
  BY <1>3, TablesMapped, RefsAlways, PTL
<1>5. /\ handle'[h] = [fdId |-> d, useCount |-> 1]
      /\ \A k \in Slots \ {h} : handle'[k] = handle[k]
      /\ mine'[h] = o
      /\ \A k \in Slots \ {h} : mine'[k] = mine[k]
  BY <1>1, <1>2 DEF OpenTakes, TypeOK
<1>6. /\ fd'[d].inodeId = i /\ inode'[i].iObj = o
      /\ \A g \in Slots \ {d} : fd'[g] = fd[g]
      /\ \A j \in Slots \ {i} : inode'[j] = inode[j]
      /\ inode[i].iObj = o \/ inode[i].iObj = NoObject
  BY <1>1, <1>2 DEF OpenTakes, TypeOK
<1>7. Refs(d) = {} /\ \A g \in Slots : h \notin Refs(g)
  BY <1>2, <1>4 DEF Mapped, FdsMapped, RefsAre
<1>8. ASSUME NEW g \in Slots
      PROVE  Refs(g)' = IF g = d THEN {h} ELSE Refs(g)
  <2>1. \A t \in Threads : t \in Refs(g)' <=> t \in Refs(g)
    BY <1>2, <1>4 DEF RefsAre
  <2>2. \A k \in Slots \ {h} : k \in Refs(g)' <=> k \in Refs(g)
    BY <1>4, <1>5 DEF RefsAre
  <2>3. h \in Refs(g)' <=> g = d
    BY <1>2, <1>4, <1>5, NoObjectAssumption DEF RefsAre
  <2>4. Refs(g)' \in SUBSET (Slots \cup Threads) /\ Refs(g) \in SUBSET (Slots \cup Threads)
    BY <1>4 DEF RefsAre
  <2>5. CASE g = d
    <3>1. Refs(g) = {}
      BY <1>7, <2>5
    <3>2. Refs(g)' = {h}
      BY <1>2, <2>1, <2>2, <2>3, <2>4, <2>5, <3>1
    <3>3. QED
      BY <2>5, <3>2
  <2>6. CASE g # d
    <3>1. Refs(g)' = Refs(g)
      BY <1>2, <1>7, <2>1, <2>2, <2>3, <2>4, <2>6
    <3>2. QED
      BY <2>6, <3>1
  <2>7. QED
    BY <2>5, <2>6
<1>9. ASSUME NEW g \in Slots
      PROVE  FileOf(g)' = IF g = d THEN o ELSE FileOf(g)
  <2>1. CASE g = d
    BY <1>2, <1>6, <2>1, NHandlesAssumption DEF FileOf, Slots
  <2>2. CASE g # d /\ FdUsed(g)
    <3>1. PICK j \in Slots : j = fd[g].inodeId
      BY <2>2 DEF Tables, FdsLead
    <3>2. FileOf(g) = inode[j].iObj /\ FileOf(g)' = inode'[j].iObj
      BY <1>6, <2>2, <3>1, NHandlesAssumption DEF FileOf, Slots
    <3>3. inode[j].iObj # NoObject
      BY <1>4, <2>2, <3>2, NoObjectAssumption DEF Mapped, FdsMapped
    <3>4. inode'[j].iObj = inode[j].iObj
      BY <1>6, <3>3
    <3>5. QED
      BY <2>2, <3>2, <3>4
  <2>3. CASE g # d /\ ~ FdUsed(g)
    <3>1. ~ FdUsed(g)'
      BY <1>6, <2>3 DEF FdUsed
    <3>2. FileOf(g) = NoObject /\ FileOf(g)' = NoObject
      BY <1>4, <2>3, <3>1 DEF Mapped, FdsMapped
    <3>3. QED
      BY <2>3, <3>2
  <2>4. QED
    BY <2>1, <2>2, <2>3
<1>10. RefsMap' = [RefsMap EXCEPT ![d] = {h}]
  BY <1>8 DEF RefsMap
<1>11. FileMap' = [FileMap EXCEPT ![d] = o]
  BY <1>9 DEF FileMap
<1>12. object' = [object EXCEPT ![o] = [place |-> "linked", my_inode |-> i]]
  BY <1>1 DEF OpenTakes
<1>13. PlaceMap' = [PlaceMap EXCEPT ![o] = "linked"]
  <2>1. /\ object'[o].place = "linked"
        /\ \A p \in Objects \ {o} : object'[p] = object[p]
    BY <1>12 DEF TypeOK
  <2>2. QED
    BY <2>1 DEF PlaceMap
<1>14. object[o].place \in {"linked", "absent"}
  BY DEF Open, TypeOK
<1>15. PlaceMap[o] = "linked" => PlaceMap' = PlaceMap
  BY <1>13 DEF PlaceMap
<1>16. OpenFilesOfTables!OpenFile(d, h, o)
  <2>1. RefsMap[d] = {} /\ \A g \in Slots : h \notin RefsMap[g]
    BY <1>2, <1>7 DEF RefsMap
  <2>2. PlaceMap[o] = object[o].place
    BY DEF PlaceMap
  <2>3. QED
    BY <1>10, <1>11, <1>13, <1>14, <1>15, <2>1, <2>2
    DEF OpenFilesOfTables!OpenFile, OpenFilesOfTables!Unreferenced, RefsMap, FileMap,
        PlaceMap, FileOf
<1>17. QED
  BY <1>2, <1>16

\* One more reference to a description that has one: what a duplicate and the
\* beginning of a transfer have in common.
LEMMA OneMoreReference ==
  ASSUME NEW d \in Slots, Refs(d) # {}, NEW r,
         \A g \in Slots : r \notin Refs(g),
         \A g \in Slots : Refs(g)' = IF g = d THEN Refs(d) \cup {r} ELSE Refs(g),
         \A g \in Slots : FileOf(g)' = FileOf(g),
         UNCHANGED object
  PROVE  OpenFilesOfTables!Share(d, r)
<1>1. RefsMap[d] # {} /\ \A g \in Slots : r \notin RefsMap[g]
  BY DEF RefsMap
<1>2. RefsMap' = [RefsMap EXCEPT ![d] = @ \cup {r}]
  BY DEF RefsMap
<1>3. FileMap' = FileMap /\ PlaceMap' = PlaceMap
  BY DEF FileMap, PlaceMap
<1>4. QED
  BY <1>1, <1>2, <1>3
  DEF OpenFilesOfTables!Share, OpenFilesOfTables!Unreferenced, RefsMap, FileMap, PlaceMap, FileOf

\* yaffs_dup shares a description with a second handle.
LEMMA DupShares ==
  ASSUME IInv, ~broken, NEW h \in Slots, Dup(h)
  PROVE  \E d \in Slots, r \in Slots \cup Threads : OpenFilesOfTables!Share(d, r)
<1> USE DEF IInv, Typed, Holders
<1>1. PICK h2 : h2 = FirstFree(FreeHandles)
  OBVIOUS
<1>2. h2 \in Slots /\ ~ HandleUsed(h2)
  BY <1>1, FirstFreeFound DEF Dup, FreeHandles, HandleUsed, TypeOK
<1>3. mine[h2] = NoObject /\ mine[h] # NoObject /\ HandleUsed(h)
  BY <1>2, HolderCounts DEF Dup
<1>4. PICK d \in Slots : d = handle[h].fdId /\ FdUsed(d) /\ HandleToFileDes(h) = d
  BY <1>3, UsedLeads
<1>5. /\ handle' = [handle EXCEPT ![h2] = [fdId |-> d, useCount |-> 1]]
      /\ fd' = [fd EXCEPT ![d].handleCount = @ + 1]
      /\ mine' = [mine EXCEPT ![h2] = mine[h]]
      /\ UNCHANGED <<inode, object, device, call, broken>>
  BY <1>1, <1>4 DEF Dup
<1>6. /\ handle'[h2] = [fdId |-> d, useCount |-> 1]
      /\ \A k \in Slots \ {h2} : handle'[k] = handle[k]
      /\ mine'[h2] = mine[h]
      /\ \A k \in Slots \ {h2} : mine'[k] = mine[k]
  BY <1>2, <1>5 DEF TypeOK
<1>7. Mapped /\ RefsAre /\ RefsAre'
  BY TablesMapped, RefsAlways, PTL
<1>8. Refs(d) # {} /\ \A g \in Slots : h2 \notin Refs(g)
  BY <1>2, <1>3, <1>4, <1>7 DEF Mapped, FdsMapped, RefsAre
<1>9. ASSUME NEW g \in Slots
      PROVE  Refs(g)' = IF g = d THEN Refs(d) \cup {h2} ELSE Refs(g)
  <2>1. \A t \in Threads : t \in Refs(g)' <=> t \in Refs(g)
    BY <1>5, <1>7 DEF RefsAre
  <2>2. \A k \in Slots \ {h2} : k \in Refs(g)' <=> k \in Refs(g)
    BY <1>6, <1>7 DEF RefsAre
  <2>3. h2 \in Refs(g)' <=> g = d
    BY <1>2, <1>3, <1>6, <1>7 DEF RefsAre
  <2>4. Refs(g)' \in SUBSET (Slots \cup Threads) /\ Refs(g) \in SUBSET (Slots \cup Threads)
    BY <1>7 DEF RefsAre
  <2>5. Refs(g)' = IF g = d THEN Refs(g) \cup {h2} ELSE Refs(g)
    BY <1>2, <1>8, <2>1, <2>2, <2>3, <2>4
  <2>6. g = d => Refs(g) = Refs(d)
    OBVIOUS
  <2>7. QED
    BY <2>5, <2>6
<1>10. \A g \in Slots : FileOf(g)' = FileOf(g)
  <2>1. \A g \in Slots : fd'[g].inodeId = fd[g].inodeId
    BY <1>5 DEF TypeOK
  <2>2. QED
    BY <1>5, <2>1 DEF FileOf
<1>11. QED
  BY <1>2, <1>5, <1>8, <1>9, <1>10, OneMoreReference

\* The beginning of yaffsfs_do_read and yaffsfs_do_write shares a description
\* with the transfer.
LEMMA BeginShares ==
  ASSUME IInv, ~broken, NEW t \in Threads, NEW h \in Slots, NEW kind \in {"read", "write"},
         NEW n \in 0 .. MaxChunks, Begin(t, h, kind, n)
  PROVE  \E d \in Slots, r \in Slots \cup Threads : OpenFilesOfTables!Share(d, r)
<1> USE DEF IInv, Typed, Holders
<1>1. mine[h] # NoObject /\ HandleUsed(h) /\ call[t] = Idle
  BY HolderCounts DEF Begin
<1>2. PICK d \in Slots : d = handle[h].fdId /\ FdUsed(d) /\ HandleToFileDes(h) = d
  BY <1>1, UsedLeads
<1>3. /\ handle' = [handle EXCEPT ![h].useCount = @ + 1]
      /\ call' = [call EXCEPT
            ![t] = [kind |-> kind, handle |-> h, fdId |-> d, left |-> n, void |-> FALSE]]
      /\ UNCHANGED <<fd, inode, object, device, mine, broken>>
  BY <1>2 DEF Begin
<1>4. \A k \in Slots : handle'[k].fdId = handle[k].fdId
  BY <1>3 DEF TypeOK
<1>5. /\ call'[t] = [kind |-> kind, handle |-> h, fdId |-> d, left |-> n, void |-> FALSE]
      /\ \A u \in Threads \ {t} : call'[u] = call[u]
  BY <1>3 DEF TypeOK
<1>6. call'[t] # Idle
  <2>1. call'[t].kind # "none"
    BY <1>5
  <2>2. QED
    BY <2>1 DEF Idle
<1>7. Mapped /\ RefsAre /\ RefsAre'
  BY TablesMapped, RefsAlways, PTL
<1>8. Refs(d) # {} /\ \A g \in Slots : t \notin Refs(g)
  BY <1>1, <1>2, <1>7 DEF Mapped, FdsMapped, RefsAre
<1>9. ASSUME NEW g \in Slots
      PROVE  Refs(g)' = IF g = d THEN Refs(d) \cup {t} ELSE Refs(g)
  <2>1. \A u \in Threads \ {t} : u \in Refs(g)' <=> u \in Refs(g)
    BY <1>5, <1>7 DEF RefsAre
  <2>2. \A k \in Slots : k \in Refs(g)' <=> k \in Refs(g)
    BY <1>3, <1>4, <1>7 DEF RefsAre
  <2>3. t \in Refs(g)' <=> g = d
    BY <1>5, <1>6, <1>7 DEF RefsAre
  <2>4. Refs(g)' \in SUBSET (Slots \cup Threads) /\ Refs(g) \in SUBSET (Slots \cup Threads)
    BY <1>7 DEF RefsAre
  <2>5. Refs(g)' = IF g = d THEN Refs(g) \cup {t} ELSE Refs(g)
    BY <1>8, <2>1, <2>2, <2>3, <2>4
  <2>6. g = d => Refs(g) = Refs(d)
    OBVIOUS
  <2>7. QED
    BY <2>5, <2>6
<1>10. \A g \in Slots : FileOf(g)' = FileOf(g)
  BY <1>3 DEF FileOf
<1>11. QED
  BY <1>3, <1>8, <1>9, <1>10, OneMoreReference

\* Letting go of a handle touches an object only to unhook it, and to delete it
\* when it was unlinked (yaffsfs_ReleaseInode).
LEMMA PutHandlePlaces ==
  ASSUME TypeOK, NEW h \in Slots, PutHandle(h), NEW p \in Objects
  PROVE  \/ object'[p] = object[p]
         \/ /\ object'[p].my_inode = -1
            /\ object'[p].place = IF object[p].place = "unlinked" THEN "absent" ELSE object[p].place
<1>1. \/ UNCHANGED object
      \/ \E q : object' = [object EXCEPT ![q].my_inode = -1,
                                         ![q].place = IF @ = "unlinked" THEN "absent" ELSE @]
  <2>1. \/ UNCHANGED object
        \/ PutFileDes(handle[h].fdId)
    BY DEF PutHandle
  <2>2. PutFileDes(handle[h].fdId) => UNCHANGED object \/ PutInode(fd[handle[h].fdId].inodeId)
    BY DEF PutFileDes
  <2>3. ASSUME NEW i, PutInode(i)
        PROVE  UNCHANGED object \/ ReleaseInode(inode[i].iObj)
    BY <2>3 DEF PutInode
  <2>4. ASSUME NEW q, ReleaseInode(q)
        PROVE  object' = [object EXCEPT ![q].my_inode = -1,
                                        ![q].place = IF @ = "unlinked" THEN "absent" ELSE @]
    BY <2>4 DEF ReleaseInode
  <2>5. QED
    BY <2>1, <2>2, <2>3, <2>4
<1>2. CASE UNCHANGED object
  BY <1>2
<1>3. ASSUME NEW q, object' = [object EXCEPT ![q].my_inode = -1,
                                 ![q].place = IF @ = "unlinked" THEN "absent" ELSE @]
      PROVE  \/ object'[p] = object[p]
             \/ /\ object'[p].my_inode = -1
                /\ object'[p].place =
                     IF object[p].place = "unlinked" THEN "absent" ELSE object[p].place
  <2>1. CASE p = q
    BY <1>3, <2>1 DEF TypeOK
  <2>2. CASE p # q
    BY <1>3, <2>2 DEF TypeOK
  <2>3. QED
    BY <2>1, <2>2
<1>4. QED
  BY <1>1, <1>2, <1>3

\* One reference less: what a close and the end of a transfer have in common.
\* The description goes with its last reference, and an unlinked object with its
\* last description.
LEMMA OneReferenceLess ==
  ASSUME IInv, ~broken, IInv', ~broken', NEW h \in Slots, HandleUsed(h), PutHandle(h),
         NEW d \in Slots, d = handle[h].fdId, NEW r \in Refs(d),
         \A g \in Slots : Refs(g)' = IF g = d THEN Refs(d) \ {r} ELSE Refs(g)
  PROVE  OpenFilesOfTables!Drop(d, r)
<1> USE DEF IInv, Typed
<1>1. Mapped /\ Mapped'
  BY TablesMapped, PTL
<1>2. /\ handle'[h].useCount = handle[h].useCount - 1
      /\ handle[h].useCount > 1 => handle'[h].fdId = handle[h].fdId
      /\ \A k \in Slots \ {h} : handle'[k] = handle[k]
      /\ \A k \in Slots : HandleUsed(k)' =>
            HandleUsed(k) /\ HandleToObject(k)' = HandleToObject(k)
  BY PutHandleLeads
<1>3. ASSUME NEW g \in Slots, FdUsed(g)'
      PROVE  FileOf(g)' = FileOf(g)
  <2>1. PICK k \in Slots : HandleUsed(k)' /\ handle'[k].fdId = g
    BY <1>1, <1>3 DEF Mapped, HandlesMapped
  <2>2. handle[k].fdId = g
    <3>1. CASE k = h
      <4>1. handle[h].useCount \in Nat
        BY DEF TypeOK
      <4>2. handle[h].useCount > 1
        BY <1>2, <2>1, <3>1, <4>1 DEF HandleUsed
      <4>3. QED
        BY <1>2, <2>1, <3>1, <4>2
    <3>2. CASE k # h
      BY <1>2, <2>1, <3>2
    <3>3. QED
      BY <3>1, <3>2
  <2>3. HandleUsed(k) /\ HandleToObject(k)' = HandleToObject(k)
    BY <1>2, <2>1
  <2>4. HandleToObject(k) = FileOf(g)
    BY <1>1, <2>2, <2>3 DEF Mapped, HandlesMapped, FileOf
  <2>5. HandleToObject(k)' = FileOf(g)'
    BY <1>1, <2>1 DEF Mapped, HandlesMapped, FileOf
  <2>6. QED
    BY <2>3, <2>4, <2>5
<1>4. ASSUME NEW g \in Slots
      PROVE  FileOf(g)' = IF g = d /\ Refs(d) = {r} THEN NoObject ELSE FileOf(g)
  <2>1. CASE FdUsed(g)'
    <3>1. Refs(g)' # {}
      BY <1>1, <2>1 DEF Mapped, FdsMapped
    <3>2. ~ (g = d /\ Refs(d) = {r})
      BY <3>1
    <3>3. QED
      BY <1>3, <2>1, <3>2
  <2>2. CASE ~ FdUsed(g)'
    <3>1. Refs(g)' = {} /\ FileOf(g)' = NoObject
      BY <1>1, <2>2 DEF Mapped, FdsMapped
    <3>2. CASE g = d
      <4>1. Refs(d) = {r}
        BY <3>1, <3>2
      <4>2. QED
        BY <3>1, <3>2, <4>1
    <3>3. CASE g # d
      <4>1. Refs(g) = {}
        BY <3>1, <3>3
      <4>2. FileOf(g) = NoObject
        BY <1>1, <4>1 DEF Mapped, FdsMapped
      <4>3. QED
        BY <3>1, <3>3, <4>2
    <3>4. QED
      BY <3>2, <3>3
  <2>3. QED
    BY <2>1, <2>2
<1>5. PICK o : o = FileOf(d)
  OBVIOUS
<1>6. o \in Objects
  BY <1>1, <1>5 DEF Mapped, FdsMapped
<1>7. ASSUME NEW p \in Objects
      PROVE  object'[p].place =
               IF p = o /\ object[p].place = "unlinked" /\ (\A e \in Slots : FileOf(e)' # p)
               THEN "absent" ELSE object[p].place
  <2>1. /\ object[p].my_inode >= 0 <=> \E f \in Slots : FileOf(f) = p
        /\ object[p].place = "unlinked" => object[p].my_inode >= 0
        /\ object'[p].my_inode >= 0 <=> \E f \in Slots : FileOf(f)' = p
    BY <1>1 DEF Mapped, ObjectsMapped
  <2>2. \/ object'[p] = object[p]
        \/ /\ object'[p].my_inode = -1
           /\ object'[p].place = IF object[p].place = "unlinked" THEN "absent" ELSE object[p].place
    BY PutHandlePlaces
  <2>3. CASE \E e \in Slots : FileOf(e)' = p
    BY <2>1, <2>2, <2>3
  <2>4. CASE \A e \in Slots : FileOf(e)' # p
    <3>1. CASE p = o
      BY <1>5, <2>1, <2>2, <2>4, <3>1
    <3>2. CASE p # o
      <4>1. \A f \in Slots : FileOf(f) # p
        BY <1>4, <1>5, <2>4, <3>2
      <4>2. QED
        BY <2>1, <2>2, <3>2, <4>1
    <3>3. QED
      BY <3>1, <3>2
  <2>5. QED
    BY <2>3, <2>4
<1>8. r \in RefsMap[d] /\ RefsMap[d] = Refs(d) /\ FileMap[d] = o
  BY <1>5 DEF RefsMap, FileMap
<1>9. RefsMap' = [RefsMap EXCEPT ![d] = @ \ {r}]
  BY DEF RefsMap
<1>10. FileMap' = IF RefsMap[d] = {r} THEN [FileMap EXCEPT ![d] = NoObject] ELSE FileMap
  BY <1>4, <1>8 DEF FileMap
<1>11. \A e \in Slots : FileMap'[e] = FileOf(e)'
  BY DEF FileMap
<1>12. PlaceMap' = IF PlaceMap[o] = "unlinked" /\ \A e \in Slots : FileMap'[e] # o
                   THEN [PlaceMap EXCEPT ![o] = "absent"] ELSE PlaceMap
  BY <1>6, <1>7, <1>11 DEF PlaceMap
<1>13. QED
  BY <1>8, <1>9, <1>10, <1>12
  DEF OpenFilesOfTables!Drop, RefsMap, FileMap, PlaceMap, FileOf

\* yaffs_close drops the reference of the program.
LEMMA CloseDrops ==
  ASSUME IInv, ~broken, NEW h \in Slots, Close(h)
  PROVE  \E d \in Slots, r \in Slots \cup Threads : OpenFilesOfTables!Drop(d, r)
<1> USE DEF IInv, Typed, Holders
<1>1. IInv' /\ ~broken'
  BY CloseTyped, CloseAgrees DEF Close
<1>2. mine[h] # NoObject /\ HandleUsed(h) /\ PutHandle(h)
  BY HolderCounts DEF Close
<1>3. PICK d \in Slots : d = handle[h].fdId
  BY <1>2, UsedLeads
<1>4. RefsAre /\ RefsAre'
  BY RefsAlways, PTL
<1>5. \A k \in Slots \ {h} : handle'[k] = handle[k]
  BY <1>1, <1>2, PutHandleLeads
<1>6. /\ mine'[h] = NoObject /\ call' = call
      /\ \A k \in Slots \ {h} : mine'[k] = mine[k]
  BY DEF Close, TypeOK
<1>7. h \in Refs(d)
  BY <1>2, <1>3, <1>4 DEF RefsAre
<1>8. ASSUME NEW g \in Slots
      PROVE  Refs(g)' = IF g = d THEN Refs(d) \ {h} ELSE Refs(g)
  <2>1. \A t \in Threads : t \in Refs(g)' <=> t \in Refs(g)
    BY <1>4, <1>6 DEF RefsAre
  <2>2. \A k \in Slots \ {h} : k \in Refs(g)' <=> k \in Refs(g)
    BY <1>4, <1>5, <1>6 DEF RefsAre
  <2>3. h \notin Refs(g)' /\ (h \in Refs(g) => g = d)
    BY <1>3, <1>4, <1>6 DEF RefsAre
  <2>4. Refs(g)' \in SUBSET (Slots \cup Threads) /\ Refs(g) \in SUBSET (Slots \cup Threads)
    BY <1>4 DEF RefsAre
  <2>5. Refs(g)' = IF g = d THEN Refs(g) \ {h} ELSE Refs(g)
    BY <2>1, <2>2, <2>3, <2>4
  <2>6. g = d => Refs(g) = Refs(d)
    OBVIOUS
  <2>7. QED
    BY <2>5, <2>6
<1>9. OpenFilesOfTables!Drop(d, h)
  BY <1>1, <1>2, <1>3, <1>7, <1>8, OneReferenceLess
<1>10. QED
  BY <1>9

\* The end of a transfer drops its reference, or has none left to drop.
LEMMA EndDrops ==
  ASSUME IInv, ~broken, NEW t \in Threads, End(t), ~broken'
  PROVE  \/ \E d \in Slots, r \in Slots \cup Threads : OpenFilesOfTables!Drop(d, r)
         \/ UNCHANGED <<RefsMap, FileMap, PlaceMap>>
<1> USE DEF IInv, Typed, Holders
<1>1. IInv'
  BY EndTyped, EndAgrees
<1>2. PICK h \in Slots : h = call[t].handle
  BY DEF TypeOK
<1>3. /\ call[t] # Idle /\ PutHandle(h) /\ ~ Reused(call[t])
      /\ mine' = mine
      /\ call'[t] = Idle /\ \A u \in Threads \ {t} : call'[u] = call[u]
  BY <1>2 DEF End, TypeOK
<1>4. RefsAre /\ RefsAre'
  BY RefsAlways, PTL
<1>5. CASE call[t].void
  <2>1. ~ HandleUsed(h)
    BY <1>2, <1>3, <1>5 DEF Reused, HandleUsed
  <2>2. UNCHANGED <<handle, fd, inode, object>>
    BY <1>3, <2>1 DEF PutHandle, HandleUsed, TypeOK
  <2>3. ASSUME NEW g \in Slots
        PROVE  Refs(g)' = Refs(g)
    <3>1. \A u \in Threads : u \in Refs(g)' <=> u \in Refs(g)
      BY <1>3, <1>4, <1>5 DEF RefsAre
    <3>2. \A k \in Slots : k \in Refs(g)' <=> k \in Refs(g)
      BY <1>3, <1>4, <2>2 DEF RefsAre
    <3>3. Refs(g)' \in SUBSET (Slots \cup Threads) /\ Refs(g) \in SUBSET (Slots \cup Threads)
      BY <1>4 DEF RefsAre
    <3>4. QED
      BY <3>1, <3>2, <3>3
  <2>4. QED
    BY <2>2, <2>3 DEF RefsMap, FileMap, PlaceMap, FileOf
<1>6. CASE ~ call[t].void
  <2>1. t \in TransfersOn(h)
    BY <1>2, <1>3, <1>6 DEF TransfersOn
  <2>2. HandleUsed(h)
    BY <2>1, HolderCounts
  <2>3. PICK d \in Slots : d = handle[h].fdId
    BY <2>2, UsedLeads
  <2>4. call[t].fdId = d
    BY <1>2, <1>3, <1>6, <2>3 DEF CallsLead
  <2>5. /\ handle[h].useCount > 1 => handle'[h].fdId = handle[h].fdId
        /\ \A k \in Slots \ {h} : handle'[k] = handle[k]
    BY <1>1, <1>3, <2>2, PutHandleLeads
  <2>6. \A k \in Slots : mine[k] # NoObject => handle'[k].fdId = handle[k].fdId
    BY <2>1, <2>5, HolderCounts
  <2>7. t \in Refs(d)
    BY <1>3, <1>4, <1>6, <2>4 DEF RefsAre
  <2>8. ASSUME NEW g \in Slots
        PROVE  Refs(g)' = IF g = d THEN Refs(d) \ {t} ELSE Refs(g)
    <3>1. \A u \in Threads \ {t} : u \in Refs(g)' <=> u \in Refs(g)
      BY <1>3, <1>4 DEF RefsAre
    <3>2. \A k \in Slots : k \in Refs(g)' <=> k \in Refs(g)
      BY <1>3, <1>4, <2>6 DEF RefsAre
    <3>3. t \notin Refs(g)' /\ (t \in Refs(g) => g = d)
      BY <1>3, <1>4, <2>4 DEF RefsAre
    <3>4. Refs(g)' \in SUBSET (Slots \cup Threads) /\ Refs(g) \in SUBSET (Slots \cup Threads)
      BY <1>4 DEF RefsAre
    <3>5. Refs(g)' = IF g = d THEN Refs(g) \ {t} ELSE Refs(g)
      BY <3>1, <3>2, <3>3, <3>4
    <3>6. g = d => Refs(g) = Refs(d)
      OBVIOUS
    <3>7. QED
      BY <3>5, <3>6
  <2>9. OpenFilesOfTables!Drop(d, t)
    BY <1>1, <1>3, <2>2, <2>3, <2>7, <2>8, OneReferenceLess
  <2>10. QED
    BY <2>9
<1>7. QED
  BY <1>5, <1>6

\* A chunk of a transfer changes no reference.
LEMMA ChunkStutters ==
  ASSUME IInv, ~broken, NEW t \in Threads, NEW done \in BOOLEAN, Chunk(t, done)
  PROVE  UNCHANGED <<RefsMap, FileMap, PlaceMap>>
<1> USE DEF IInv, Typed, Holders
<1>1. UNCHANGED <<handle, fd, inode, object, mine>>
  BY DEF Chunk
<1>2. PICK n : n = IF done THEN call[t].left - 1 ELSE 0
  OBVIOUS
<1>3. call' = [call EXCEPT ![t].left = n] /\ call[t].left > 0
  BY <1>2 DEF Chunk
<1>4. call[t] # Idle
  BY <1>3 DEF Idle
<1>5. /\ call'[t].kind = call[t].kind
      /\ call'[t].fdId = call[t].fdId /\ call'[t].void = call[t].void
      /\ \A u \in Threads \ {t} : call'[u] = call[u]
  BY <1>3 DEF TypeOK
<1>6. call[t].kind # "none"
  BY <1>4 DEF CallsLead
<1>7. call'[t] # Idle
  BY <1>5, <1>6 DEF Idle
<1>8. RefsAre /\ RefsAre'
  BY RefsAlways, PTL
<1>9. ASSUME NEW g \in Slots
      PROVE  Refs(g)' = Refs(g)
  <2>1. \A u \in Threads : u \in Refs(g)' <=> u \in Refs(g)
    BY <1>4, <1>5, <1>7, <1>8 DEF RefsAre
  <2>2. \A k \in Slots : k \in Refs(g)' <=> k \in Refs(g)
    BY <1>1, <1>8 DEF RefsAre
  <2>3. Refs(g)' \in SUBSET (Slots \cup Threads) /\ Refs(g) \in SUBSET (Slots \cup Threads)
    BY <1>8 DEF RefsAre
  <2>4. QED
    BY <2>1, <2>2, <2>3
<1>10. QED
  BY <1>1, <1>9 DEF RefsMap, FileMap, PlaceMap, FileOf

\* Unlinking an object removes it: at once, or when the last description of it
\* goes (yaffs_unlink, yaffsfs_PutInode).
LEMMA UnlinkRemoves ==
  ASSUME IInv, ~broken, NEW o \in Objects, Unlink(o)
  PROVE  OpenFilesOfTables!Remove(o)
<1> USE DEF IInv, Typed
<1>1. ObjectsMapped
  BY TablesMapped DEF Mapped
<1>2. UNCHANGED <<handle, fd, inode, call, mine>>
  BY DEF Unlink
<1>3. FileMap' = FileMap /\ RefsMap' = RefsMap
  BY <1>2 DEF FileMap, FileOf, RefsMap, Refs
<1>4. PICK p : p = IF \E f \in Slots : FileMap[f] = o THEN "unlinked" ELSE "absent"
  OBVIOUS
<1>5. p = IF object[o].my_inode >= 0 THEN "unlinked" ELSE "absent"
  BY <1>1, <1>4 DEF ObjectsMapped, FileMap
<1>6. object' = [object EXCEPT ![o].place = p]
  BY <1>5 DEF Unlink
<1>7. PlaceMap' = [PlaceMap EXCEPT ![o] = p]
  <2>1. /\ object'[o].place = p
        /\ \A q \in Objects \ {o} : object'[q] = object[q]
    BY <1>6 DEF TypeOK
  <2>2. QED
    BY <2>1 DEF PlaceMap
<1>8. PlaceMap[o] = "linked"
  BY DEF PlaceMap, Unlink
<1>9. QED
  BY <1>3, <1>4, <1>7, <1>8 DEF OpenFilesOfTables!Remove, RefsMap, FileMap, PlaceMap, FileOf

\* Tables that nothing leads into stand for no description.
Empty ==
    /\ \A h \in Slots : mine[h] = NoObject
    /\ \A t \in Threads : call[t] # Idle => call[t].void
    /\ \A f \in Slots : fd[f] = FreeFd

NothingMapped ==
    /\ RefsMap = [f \in Slots |-> {}]
    /\ FileMap = [f \in Slots |-> NoObject]

\* What yaffsfs_InitHandles leaves, and yaffsfs_BreakDeviceHandles, stands for
\* nothing open.
LEMMA EmptyMapped == Empty => NothingMapped
<1> SUFFICES ASSUME Empty PROVE NothingMapped
  OBVIOUS
<1>1. \A f \in Slots : Refs(f) = {}
  BY RefsSplit DEF Empty
<1>2. \A f \in Slots : FileOf(f) = NoObject
  BY DEF Empty, FileOf, FreeFd
<1>3. QED
  BY <1>1, <1>2 DEF NothingMapped, RefsMap, FileMap

\* Without a device that is busy nothing is open (yaffsfs_IsDevBusy).
LEMMA NotBusyIsEmpty ==
  ASSUME IInv, ~broken, ~IsDevBusy
  PROVE  Empty
<1>1. /\ \A h \in Slots : mine[h] = NoObject /\ TransfersOn(h) = {}
      /\ \A f \in Slots : fd[f] = FreeFd
  BY NotBusyIsFree
<1>2. ASSUME NEW t \in Threads, call[t] # Idle
      PROVE  call[t].void
  <2>1. PICK h \in Slots : h = call[t].handle
    BY DEF IInv, Typed, TypeOK
  <2>2. QED
    BY <1>1, <1>2, <2>1 DEF TransfersOn
<1>3. QED
  BY <1>1, <1>2 DEF Empty

\* An unmount of a device that is not busy changes no description; one that is
\* forced voids them all (yaffs_unmount2, yaffsfs_BreakDeviceHandles).
LEMMA UnmountVoids ==
  ASSUME IInv, ~broken, NEW force \in BOOLEAN, Unmount(force)
  PROVE  OpenFilesOfTables!Void \/ UNCHANGED <<RefsMap, FileMap, PlaceMap>>
<1> USE DEF IInv, Typed
<1>1. CASE UNCHANGED <<handle, fd, inode, object, call, mine>>
  BY <1>1 DEF RefsMap, Refs, FileMap, FileOf, PlaceMap
<1>2. CASE /\ BreakDeviceHandles
           /\ call' = [t \in Threads |->
                IF call[t] = Idle THEN Idle ELSE [call[t] EXCEPT !.void = TRUE]]
           /\ mine' = [h \in Slots |-> NoObject]
  <2>1. /\ \A f \in Slots : fd'[f] = FreeFd
        /\ \A o \in Objects : object'[o].place =
             IF object[o].place = "unlinked" THEN "absent" ELSE object[o].place
    BY <1>2, BreakClears
  <2>2. ASSUME NEW t \in Threads, call'[t] # Idle
        PROVE  call'[t].void
    <3>1. call'[t] = [call[t] EXCEPT !.void = TRUE]
      BY <1>2, <2>2
    <3>2. QED
      BY <3>1 DEF TypeOK
  <2>3. Empty'
    BY <1>2, <2>1, <2>2 DEF Empty
  <2>4. NothingMapped'
    BY <2>3, EmptyMapped, PTL
  <2>5. PlaceMap' = [o \in Objects |->
                       IF PlaceMap[o] = "unlinked" THEN "absent" ELSE PlaceMap[o]]
    BY <2>1 DEF PlaceMap
  <2>6. QED
    BY <2>4, <2>5 DEF NothingMapped, OpenFilesOfTables!Void, RefsMap, FileMap, PlaceMap, FileOf
<1>3. QED
  BY <1>1, <1>2 DEF Unmount

\* A mount that finds no handle in use changes no description
\* (yaffsfs_InitHandles).
LEMMA MountStutters ==
  ASSUME IInv, ~broken, NEW read_only \in BOOLEAN, Mount(read_only), ~broken'
  PROVE  UNCHANGED <<RefsMap, FileMap, PlaceMap>>
<1>1. Empty
  BY NotBusyIsEmpty DEF Mount
<1>2. Empty'
  BY <1>1 DEF Empty, Mount
<1>3. NothingMapped /\ NothingMapped'
  BY <1>1, <1>2, EmptyMapped, PTL
<1>4. QED
  BY <1>3 DEF NothingMapped, Mount, PlaceMap

\* The tables begin as OpenFiles does.
LEMMA InitOpensNothing == Init => OpenFilesOfTables!OpenFilesInit
<1> SUFFICES ASSUME Init PROVE OpenFilesOfTables!OpenFilesInit
  OBVIOUS
<1>1. Empty
  BY DEF Init, Empty
<1>2. NothingMapped
  BY <1>1, EmptyMapped
<1>3. PlaceMap \in [Objects -> {"absent", "linked"}]
  BY DEF Init, PlaceMap
<1>4. QED
  BY <1>2, <1>3 DEF NothingMapped, Init, OpenFilesOfTables!OpenFilesInit, RefsMap, FileMap, PlaceMap, FileOf

\* Every call of yaffsfs.c is a step of the descriptions, or changes none.
LEMMA StepImplements ==
  IInv /\ [Next]_vars =>
    [OpenFilesOfTables!OpenFilesNext]_(OpenFilesOfTables!absVars)
<1> SUFFICES ASSUME IInv, [Next]_vars
             PROVE  [OpenFilesOfTables!OpenFilesNext]_(OpenFilesOfTables!absVars)
  OBVIOUS
<1> DEFINE Stutter == UNCHANGED <<RefsMap, FileMap, PlaceMap>>
           Step == \/ \E d \in Slots, h \in Slots, o \in Objects :
                        OpenFilesOfTables!OpenFile(d, h, o)
                   \/ \E d \in Slots, r \in Slots \cup Threads :
                        OpenFilesOfTables!Share(d, r) \/ OpenFilesOfTables!Drop(d, r)
                   \/ \E o \in Objects : OpenFilesOfTables!Remove(o)
                   \/ OpenFilesOfTables!Void
<1>1. CASE broken'
  BY <1>1 DEF OpenFilesOfTables!OpenFilesNext, IInv, Typed, TypeOK
<1>2. CASE ~broken'
  <2>1. ~broken
    BY <1>2 DEF Next, vars, Open, Dup, Close, Begin, Chunk, End, Unlink, Remount, Unmount, Mount
  <2>2. Step \/ Stutter
    <3>1. ASSUME NEW o \in Objects, NEW m \in OpenModes, Open(o, m)
          PROVE  Step
      BY <2>1, <3>1, OpenMakes
    <3>2. ASSUME NEW h \in Slots, Dup(h)
          PROVE  Step
      BY <2>1, <3>2, DupShares
    <3>3. ASSUME NEW h \in Slots, Close(h)
          PROVE  Step
      BY <2>1, <3>3, CloseDrops
    <3>4. ASSUME NEW t \in Threads, NEW h \in Slots, NEW kind \in {"read", "write"},
                 NEW n \in 0 .. MaxChunks, Begin(t, h, kind, n)
          PROVE  Step
      BY <2>1, <3>4, BeginShares
    <3>5. ASSUME NEW t \in Threads, NEW done \in BOOLEAN, Chunk(t, done)
          PROVE  Stutter
      BY <2>1, <3>5, ChunkStutters
    <3>6. ASSUME NEW t \in Threads, End(t)
          PROVE  Step \/ Stutter
      BY <1>2, <2>1, <3>6, EndDrops
    <3>7. ASSUME NEW o \in Objects, Unlink(o)
          PROVE  Step
      BY <2>1, <3>7, UnlinkRemoves
    <3>8. ASSUME NEW force \in BOOLEAN, NEW read_only \in BOOLEAN, Remount(force, read_only)
          PROVE  Stutter
      BY <3>8 DEF Remount, RefsMap, Refs, FileMap, FileOf, PlaceMap
    <3>9. ASSUME NEW force \in BOOLEAN, Unmount(force)
          PROVE  Step \/ Stutter
      BY <2>1, <3>9, UnmountVoids
    <3>10. ASSUME NEW read_only \in BOOLEAN, Mount(read_only)
           PROVE  Stutter
      BY <1>2, <2>1, <3>10, MountStutters
    <3>11. ASSUME UNCHANGED vars
           PROVE  Stutter
      BY <3>11 DEF vars, RefsMap, Refs, FileMap, FileOf, PlaceMap
    <3> HIDE DEF Step, Stutter
    <3>12. QED
      BY <3>1, <3>2, <3>3, <3>4, <3>5, <3>6, <3>7, <3>8, <3>9, <3>10, <3>11 DEF Next
  <2>3. UNCHANGED broken
    BY <1>2, <2>1 DEF IInv, Typed, TypeOK, Next, vars, Open, Dup, Close, Begin, Chunk, End,
                      Unlink, Remount, Unmount, Mount
  <2>4. CASE Step
    BY <2>1, <2>3, <2>4 DEF OpenFilesOfTables!OpenFilesNext, OpenFilesOfTables!Works
  <2>5. CASE Stutter
    BY <2>3, <2>5 DEF OpenFilesOfTables!absVars, RefsMap, FileMap, FileOf, PlaceMap
  <2> HIDE DEF Step, Stutter
  <2>6. QED
    BY <2>2, <2>4, <2>5
<1>3. QED
  BY <1>1, <1>2

\* The handle tables of yaffsfs.c implement the descriptions of OpenFiles: a
\* description lives exactly as long as a handle of the program or a transfer
\* refers to it, and an unlinked object exactly as long as a description of it
\* (yaffsfs_PutHandle, yaffsfs_PutFileDes, yaffsfs_PutInode, yaffsfs_ReleaseInode).
THEOREM TablesImplementOpenFiles == Spec => ImplementsOpenFiles
<1>1. OpenFilesOfTables!OpenFilesInit
      /\ [][OpenFilesOfTables!OpenFilesNext]_(OpenFilesOfTables!absVars)
      => ImplementsOpenFiles
  BY DEF ImplementsOpenFiles, OpenFilesOfTables!OpenFilesSpec
<1>2. QED
  BY <1>1, InitOpensNothing, StepImplements, IInvHolds, PTL DEF Spec
=============================================================================
