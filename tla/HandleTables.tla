---------------------------- MODULE HandleTables ----------------------------
(***************************************************************************)
(* The handles of the YAFFS direct interface (yaffsfs.c).  A handle leads  *)
(* to a file descriptor, a file descriptor to an open inode, an open inode *)
(* to an object; each entry counts the entries that lead to it.  A read or *)
(* a write holds on to its handle and lets other calls in between the      *)
(* chunks it transfers.                                                    *)
(*                                                                         *)
(* What is read and written, file lengths and file positions are left out: *)
(* a transfer has some number of chunks to go.  What a free entry still    *)
(* holds is left out, as it is cleared when the entry is taken.  A call    *)
(* that fails changes nothing and has no action.                           *)
(***************************************************************************)
EXTENDS Integers, FiniteSets, FiniteSetsExt

CONSTANTS Threads,            \* the threads that call the interface
          Objects,            \* the files of the one device
          NoObject,           \* no file
          YAFFSFS_N_HANDLES,  \* entries of each of the three tables
          OpenModes,          \* [reading, writing, shareRead, shareWrite]
          MaxChunks           \* bound on the chunks of a transfer

ASSUME NHandlesAssumption == YAFFSFS_N_HANDLES \in Nat \ {0}
ASSUME NoObjectAssumption == NoObject \notin Objects
ASSUME MaxChunksAssumption == MaxChunks \in Nat \ {0}
ASSUME OpenModesAssumption ==
    OpenModes \subseteq
      [reading : BOOLEAN, writing : BOOLEAN, shareRead : BOOLEAN, shareWrite : BOOLEAN]
\* A thread is not the number of a handle: both hold on to a file descriptor.
ASSUME ThreadsAssumption ==
    IsFiniteSet(Threads) /\ Threads \cap (0 .. YAFFSFS_N_HANDLES - 1) = {}

VARIABLES handle,  \* yaffsfs_handle
          fd,      \* yaffsfs_fd
          inode,   \* yaffsfs_inode
          object,  \* what the three tables see of struct yaffs_obj
          device,  \* what they see of struct yaffs_dev
          call,    \* a thread's locals in yaffsfs_do_read and yaffsfs_do_write
          mine,    \* the object the program opened a handle for and has not closed
          broken   \* a transfer went on with a handle that was taken away from it

vars == <<handle, fd, inode, object, device, call, mine, broken>>

Slots == 0 .. YAFFSFS_N_HANDLES - 1
NoMode == [reading |-> FALSE, writing |-> FALSE, shareRead |-> FALSE,
           shareWrite |-> FALSE]

FreeHandle == [fdId |-> -1, useCount |-> 0]
FreeFd == [handleCount |-> 0, inodeId |-> -1, mode |-> NoMode]
Idle == [kind |-> "none", handle |-> 0, fdId |-> 0, left |-> 0, void |-> FALSE]
FreeInode == [count |-> 0, iObj |-> NoObject]

Init ==
    /\ handle = [h \in Slots |-> FreeHandle]
    /\ fd = [f \in Slots |-> FreeFd]
    /\ inode = [i \in Slots |-> FreeInode]
    /\ object \in [Objects -> [place : {"absent", "linked"}, my_inode : {-1}]]
    /\ device = [is_mounted |-> TRUE, read_only |-> FALSE]
    /\ call = [t \in Threads |-> Idle]
    /\ mine = [h \in Slots |-> NoObject]
    /\ broken = FALSE

-----------------------------------------------------------------------------
(* Finding one's way through the tables. *)

HandleToFileDes(h) == IF handle[h].useCount > 0 THEN handle[h].fdId ELSE -1

HandleToInode(h) ==
    LET f == HandleToFileDes(h)
    IN  IF f >= 0 /\ fd[f].handleCount > 0 THEN fd[f].inodeId ELSE -1

HandleToObject(h) ==
    LET i == HandleToInode(h) IN IF i >= 0 THEN inode[i].iObj ELSE NoObject

\* The first free entry of a table; the scans all run upwards from 0.
FirstFree(S) == IF S = {} THEN -1 ELSE Min(S)

FreeHandles == {h \in Slots : handle[h].useCount < 1}
FreeFds == {f \in Slots : fd[f].handleCount < 1}

\* Mutant: The scan for a free entry stops one too early.
InodeIdOneShort(o) ==
    LET found == {i \in Slots : inode[i].iObj = o}
    IN  IF found # {} THEN Min(found)
        ELSE FirstFree({i \in Slots : inode[i].iObj = NoObject /\ i + 1 < YAFFSFS_N_HANDLES})

InodeIdForObject(o) ==
    LET found == {i \in Slots : inode[i].iObj = o}
    IN  IF found # {} THEN Min(found) ELSE FirstFree({i \in Slots : inode[i].iObj = NoObject})

-----------------------------------------------------------------------------
(* Letting go of an entry. *)

ReleaseInode(o) ==
    object' = [object EXCEPT ![o].my_inode = -1,
                             ![o].place = IF @ = "unlinked" THEN "absent" ELSE @]

PutInode(i) ==
    IF inode[i].count > 1
    THEN inode' = [inode EXCEPT ![i].count = @ - 1] /\ UNCHANGED object
    ELSE inode' = [inode EXCEPT ![i] = FreeInode] /\ ReleaseInode(inode[i].iObj)

PutFileDes(f) ==
    IF fd[f].handleCount > 1
    THEN fd' = [fd EXCEPT ![f].handleCount = @ - 1] /\ UNCHANGED <<inode, object>>
    ELSE fd' = [fd EXCEPT ![f] = FreeFd] /\ PutInode(fd[f].inodeId)

\* Mutant: The last put does not ask whether the handle is in use.
PutHandleUnchecked(h) ==
    CASE handle[h].useCount = 1 ->
           /\ handle' = [handle EXCEPT ![h] = FreeHandle]
           /\ PutFileDes(handle[h].fdId)
      [] OTHER ->
           /\ handle' = [handle EXCEPT ![h].useCount = @ - 1]
           /\ UNCHANGED <<fd, inode, object>>

PutHandle(h) ==
    CASE handle[h].useCount > 1 ->
           /\ handle' = [handle EXCEPT ![h].useCount = @ - 1]
           /\ UNCHANGED <<fd, inode, object>>
      [] handle[h].useCount = 1 ->
           /\ handle' = [handle EXCEPT ![h] = FreeHandle]
           /\ PutFileDes(handle[h].fdId)
      [] OTHER -> UNCHANGED <<handle, fd, inode, object>>

-----------------------------------------------------------------------------
(* The calls that open and close. *)

\* Mutant: Only the readers are compared.
SharingOfReaders(o, m) ==
    \A f \in Slots :
        fd[f].handleCount > 0 /\ fd[f].inodeId >= 0 /\ inode[fd[f].inodeId].iObj = o =>
            /\ m.reading => fd[f].mode.shareRead
            /\ fd[f].mode.reading => m.shareRead

SharingAllowed(o, m) ==
    \A f \in Slots :
        fd[f].handleCount > 0 /\ fd[f].inodeId >= 0 /\ inode[fd[f].inodeId].iObj = o =>
            /\ m.reading => fd[f].mode.shareRead
            /\ fd[f].mode.reading => m.shareRead
            /\ m.writing => fd[f].mode.shareWrite
            /\ fd[f].mode.writing => m.shareWrite

\* yaffs_open_sharing: an object that is absent is created.
Open(o, m) ==
    LET h == FirstFree(FreeHandles)
        f == FirstFree(FreeFds)
        i == InodeIdForObject(o)
    IN  /\ device.is_mounted
        /\ h >= 0 /\ f >= 0
        /\ object[o].place # "unlinked"
        /\ device.read_only => ~m.writing /\ object[o].place = "linked"
        /\ SharingAllowed(o, m)
        /\ handle' = [handle EXCEPT ![h] = [fdId |-> f, useCount |-> 1]]
        /\ fd' = [fd EXCEPT ![f] = [handleCount |-> 1, inodeId |-> i, mode |-> m]]
        /\ inode' = IF i < 0 THEN inode
                    ELSE [inode EXCEPT ![i] = [count |-> inode[i].count + 1, iObj |-> o]]
        /\ object' = [object EXCEPT ![o] = [place |-> "linked", my_inode |-> i]]
        /\ mine' = [mine EXCEPT ![h] = o]
        /\ UNCHANGED <<device, call, broken>>

\* Mutant: dup does not count the new handle in the file descriptor.
DupUncounted(h) ==
    LET h2 == FirstFree(FreeHandles)
        f == HandleToFileDes(h)
    IN  /\ mine[h] # NoObject
        /\ f >= 0 /\ h2 >= 0
        /\ handle' = [handle EXCEPT ![h2] = [fdId |-> f, useCount |-> 1]]
        /\ mine' = [mine EXCEPT ![h2] = mine[h]]
        /\ UNCHANGED <<fd, inode, object, device, call, broken>>

Dup(h) ==
    LET h2 == FirstFree(FreeHandles)
        f == HandleToFileDes(h)
    IN  /\ mine[h] # NoObject
        /\ f >= 0 /\ h2 >= 0
        /\ handle' = [handle EXCEPT ![h2] = [fdId |-> f, useCount |-> 1]]
        /\ fd' = [fd EXCEPT ![f].handleCount = @ + 1]
        /\ mine' = [mine EXCEPT ![h2] = mine[h]]
        /\ UNCHANGED <<inode, object, device, call, broken>>

\* yaffs_close and yaffs_abort_close; what they flush is not modelled.
Close(h) ==
    /\ mine[h] # NoObject
    /\ HandleToObject(h) # NoObject
    /\ PutHandle(h)
    /\ mine' = [mine EXCEPT ![h] = NoObject]
    /\ UNCHANGED <<device, call, broken>>

-----------------------------------------------------------------------------
(* Transfers: yaffsfs_do_read and yaffsfs_do_write. *)

\* A forced unmount took away the handle of the transfer, and somebody else
\* has its number or its file descriptor by now.
Reused(c) == c.void /\ (handle[c.handle].useCount > 0 \/ fd[c.fdId].handleCount > 0)

Begin(t, h, kind, n) ==
    LET f == HandleToFileDes(h)
    IN  /\ call[t] = Idle
        /\ mine[h] # NoObject
        /\ HandleToObject(h) # NoObject
        /\ \/ kind = "read" /\ fd[f].mode.reading
           \/ kind = "write" /\ fd[f].mode.writing /\ ~device.read_only
        /\ handle' = [handle EXCEPT ![h].useCount = @ + 1]
        /\ call' = [call EXCEPT
              ![t] = [kind |-> kind, handle |-> h, fdId |-> f, left |-> n, void |-> FALSE]]
        /\ UNCHANGED <<fd, inode, object, device, mine, broken>>

\* One chunk; done is FALSE when the layer below transferred less.  The object
\* is looked up again, as the lock was let go in between.
Chunk(t, done) ==
    LET c == call[t]
    IN  /\ c.left > 0
        /\ done => /\ HandleToObject(c.handle) # NoObject
                   /\ c.kind = "write" => ~device.read_only
        /\ call' = [call EXCEPT ![t].left = IF done THEN @ - 1 ELSE 0]
        /\ broken' = (broken \/ Reused(c))
        /\ UNCHANGED <<handle, fd, inode, object, device, mine>>

End(t) ==
    /\ call[t] # Idle /\ call[t].left = 0
    /\ PutHandle(call[t].handle)
    /\ call' = [call EXCEPT ![t] = Idle]
    /\ broken' = (broken \/ Reused(call[t]))
    /\ UNCHANGED <<device, mine>>

-----------------------------------------------------------------------------
(* The other calls. *)

\* Mutant: Unlinking deletes an object that is open.
UnlinkAtOnce(o) ==
    /\ device.is_mounted /\ ~device.read_only
    /\ object[o].place = "linked"
    /\ object' = [object EXCEPT ![o].place = "absent"]
    /\ UNCHANGED <<handle, fd, inode, device, call, mine, broken>>

\* What yaffs_unlinker does below this interface: an object that is hooked to
\* an open inode stays, for ReleaseInode to delete.
Unlink(o) ==
    /\ device.is_mounted /\ ~device.read_only
    /\ object[o].place = "linked"
    /\ object' = [object EXCEPT
           ![o].place = IF object[o].my_inode >= 0 THEN "unlinked" ELSE "absent"]
    /\ UNCHANGED <<handle, fd, inode, device, call, mine, broken>>

IsDevBusy == \E h \in Slots : HandleToObject(h) # NoObject

Remount(force, read_only) ==
    /\ device.is_mounted
    /\ force \/ ~IsDevBusy
    /\ device' = [device EXCEPT !.read_only = read_only]
    /\ UNCHANGED <<handle, fd, inode, object, call, mine, broken>>

\* yaffsfs_BreakDeviceHandles: every handle goes, every file descriptor that a
\* handle leads to, and with the last descriptor of an inode the inode.
BreakDeviceHandles ==
    LET gone == {HandleToFileDes(h) : h \in {k \in Slots : HandleToObject(k) # NoObject}}
        Left(i) == inode[i].count - Cardinality({f \in gone : fd[f].inodeId = i})
        released == {inode[i].iObj : i \in {k \in Slots : inode[k].count > 0 /\ Left(k) <= 0}}
    IN  /\ handle' = [h \in Slots |-> IF handle[h].useCount > 0
                                     THEN [fdId |-> 0, useCount |-> 0] ELSE handle[h]]
        /\ fd' = [f \in Slots |-> IF f \in gone THEN FreeFd ELSE fd[f]]
        /\ inode' = [i \in Slots |-> IF Left(i) <= 0 THEN FreeInode
                                     ELSE [inode[i] EXCEPT !.count = Left(i)]]
        /\ object' = [o \in Objects |->
              IF o \notin released THEN object[o]
              ELSE [object[o] EXCEPT !.my_inode = -1,
                                     !.place = IF @ = "unlinked" THEN "absent" ELSE @]]

Unmount(force) ==
    /\ device.is_mounted
    /\ device' = [device EXCEPT !.is_mounted = FALSE]
    /\ \/ ~IsDevBusy /\ UNCHANGED <<handle, fd, inode, object, call, mine>>
       \/ /\ IsDevBusy /\ force
          /\ BreakDeviceHandles
          /\ call' = [t \in Threads |->
                IF call[t] = Idle THEN Idle ELSE [call[t] EXCEPT !.void = TRUE]]
          /\ mine' = [h \in Slots |-> NoObject]
    /\ UNCHANGED broken

\* yaffsfs_InitHandles runs at every mount: the flag it tests is never set.
Mount(read_only) ==
    /\ handle' = [h \in Slots |-> FreeHandle]
    /\ fd' = [f \in Slots |-> FreeFd]
    /\ inode' = [i \in Slots |-> FreeInode]
    /\ device' = IF device.is_mounted THEN device
                 ELSE [is_mounted |-> TRUE, read_only |-> read_only]
    /\ broken' = (broken \/ IsDevBusy)
    /\ UNCHANGED <<object, call, mine>>

Next ==
    \/ \E o \in Objects, m \in OpenModes : Open(o, m)
    \/ \E h \in Slots : Dup(h) \/ Close(h)
    \/ \E t \in Threads, h \in Slots, kind \in {"read", "write"}, n \in 0 .. MaxChunks :
          Begin(t, h, kind, n)
    \/ \E t \in Threads : (\E done \in BOOLEAN : Chunk(t, done)) \/ End(t)
    \/ \E o \in Objects : Unlink(o)
    \/ \E force, read_only \in BOOLEAN : Remount(force, read_only)
    \/ \E force \in BOOLEAN : Unmount(force)
    \/ \E read_only \in BOOLEAN : Mount(read_only)

Spec == Init /\ [][Next]_vars

-----------------------------------------------------------------------------
(* Properties. *)

Users(f) == {h \in Slots : handle[h].useCount > 0 /\ handle[h].fdId = f}
Openings(i) == {f \in Slots : fd[f].handleCount > 0 /\ fd[f].inodeId = i}
TransfersOn(h) == {t \in Threads : call[t] # Idle /\ ~call[t].void /\ call[t].handle = h}

\* The types of the variables, with the bounds the three tables keep.
TypeOK ==
    /\ handle \in [Slots -> [fdId : -1 .. YAFFSFS_N_HANDLES - 1, useCount : Nat]]
    /\ fd \in [Slots -> [handleCount : Nat, inodeId : -1 .. YAFFSFS_N_HANDLES - 1,
                         mode : OpenModes \cup {NoMode}]]
    /\ inode \in [Slots -> [count : Nat, iObj : Objects \cup {NoObject}]]
    /\ object \in [Objects -> [place : {"absent", "linked", "unlinked"},
                               my_inode : -1 .. YAFFSFS_N_HANDLES - 1]]
    /\ device \in [is_mounted : BOOLEAN, read_only : BOOLEAN]
    /\ call \in [Threads -> [kind : {"none", "read", "write"}, handle : Slots, fdId : Slots,
                             left : 0 .. MaxChunks, void : BOOLEAN]]
    /\ mine \in [Slots -> Objects \cup {NoObject}]
    /\ broken \in BOOLEAN

\* Each entry of the three tables counts exactly the entries that lead to it
\* (handleCount, count, useCount in yaffsfs_NewHandleAndFileDes, yaffs_dup,
\* yaffsfs_GetHandle, yaffsfs_PutHandle, yaffsfs_BreakDeviceHandles): none is
\* freed under its user and none is left behind.
TablesAgree ==
    ~broken =>
      /\ \A h \in Slots : handle[h].useCount =
             Cardinality(TransfersOn(h)) + (IF mine[h] # NoObject THEN 1 ELSE 0)
      /\ \A f \in Slots : fd[f].handleCount = Cardinality(Users(f))
      /\ \A i \in Slots : inode[i].count = Cardinality(Openings(i))

\* The case yaffs_open_sharing leaves open as one that "can't happen": a file
\* descriptor is free and no inode entry is.
InodeAvailable ==
    ~broken /\ FreeFds # {} => \A o \in Objects : InodeIdForObject(o) >= 0

\* Two open file descriptors of one object never break each other's sharing
\* mode, although only the opening compares them.
SharesRespected ==
    ~broken =>
      \A f, g \in Slots :
        /\ f # g /\ fd[f].handleCount > 0 /\ fd[g].handleCount > 0
        /\ fd[f].inodeId = fd[g].inodeId
        => /\ fd[f].mode.reading => fd[g].mode.shareRead
           /\ fd[f].mode.writing => fd[g].mode.shareWrite

-----------------------------------------------------------------------------
(* The tables implement the descriptions of OpenFiles: the counts stand for *)
(* the sets of what refers to a file descriptor.                            *)

Refs(f) ==
    {h \in Slots : mine[h] # NoObject /\ handle[h].fdId = f}
      \cup {t \in Threads : call[t] # Idle /\ ~call[t].void /\ call[t].fdId = f}

OpenFilesOfTables ==
    INSTANCE OpenFiles
      WITH Descriptions <- Slots, Handles <- Slots, Transfers <- Threads,
           refs <- [f \in Slots |-> Refs(f)],
           file <- [f \in Slots |->
                      IF fd[f].inodeId >= 0 THEN inode[fd[f].inodeId].iObj ELSE NoObject],
           place <- [o \in Objects |-> object[o].place]

\* Every step of the tables is a step of the descriptions they stand for.
ImplementsOpenFiles == OpenFilesOfTables!OpenFilesSpec
=============================================================================
