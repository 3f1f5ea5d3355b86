---------------------------- MODULE Directories ----------------------------
(***************************************************************************)
(* Names in the YAFFS direct interface (yaffsfs.c): how a path becomes an  *)
(* object through directories and symbolic links, the calls that change    *)
(* the tree, and directory searches that go on while the tree changes.     *)
(*                                                                         *)
(* A path is the sequence of its components below the mount point; the     *)
(* last one is "" when the path ends in a divider.  Hard links, modes and  *)
(* lengths of names are left out.  A call that fails changes nothing and   *)
(* has no action.                                                          *)
(***************************************************************************)
EXTENDS Integers, Sequences, SequencesExt, FiniteSets

CONSTANTS Root,      \* the root directory of the device
          Objects,   \* what can be created below it
          NoObject,
          Names,     \* the names of objects
          Paths,     \* the paths that calls are given
          Aliases,   \* [fromRoot, path]: what symbolic links are made of
          Searches,  \* directory search contexts
          YAFFSFS_MAX_SYMLINK_DEREFERENCES,
          StackLimit \* bound on nested look-ups, above which there is no stack

ASSUME RootAssumption == Root \notin Objects /\ NoObject \notin Objects \cup {Root}
ASSUME ObjectsAssumption == IsFiniteSet(Objects)
ASSUME NamesAssumption == "" \notin Names
ASSUME LimitsAssumption ==
    YAFFSFS_MAX_SYMLINK_DEREFERENCES \in Nat /\ StackLimit \in Nat \ {0}

VARIABLES kind,      \* "absent", "file", "dir" or "symlink"
          name,      \* the name of an object in its directory
          alias,     \* what a symbolic link stands for
          children,  \* the children of a directory, in the order of its list
          search,    \* a directory search context
          returned,  \* what a search has returned since it began or was rewound
          steady,    \* what has been in the directory ever since
          broken     \* a search was rewound after its directory was removed

tree == <<kind, name, alias, children>>
vars == <<tree, search, returned, steady, broken>>

Nodes == Objects \cup {Root}
NoName == "none"
NoAlias == [fromRoot |-> FALSE, path |-> <<>>]
Closed == [dirObj |-> NoObject, next |-> NoObject, removed |-> FALSE]

Init ==
    /\ kind = [n \in Nodes |-> IF n = Root THEN "dir" ELSE "absent"]
    /\ name = [o \in Objects |-> NoName]
    /\ alias = [o \in Objects |-> NoAlias]
    /\ children = [n \in Nodes |-> <<>>]
    /\ search = [s \in Searches |-> Closed]
    /\ returned = [s \in Searches |-> {}]
    /\ steady = [s \in Searches |-> {}]
    /\ broken = FALSE

-----------------------------------------------------------------------------
(* Looking up a path. *)

ChildrenOf(d) == ToSet(children[d])

Directory == {n \in Nodes : kind[n] = "dir"}

\* The parent of the root is NULL.
Parent(o) ==
    IF \E d \in Nodes : o \in ChildrenOf(d)
    THEN CHOOSE d \in Nodes : o \in ChildrenOf(d)
    ELSE NoObject

\* yaffs_find_by_name
FindByName(d, n) ==
    IF \E o \in ChildrenOf(d) : name[o] = n
    THEN CHOOSE o \in ChildrenOf(d) : name[o] = n
    ELSE NoObject

Fails(why) == [dir |-> NoObject, name |-> "", obj |-> NoObject, why |-> why]
Found(o) == [dir |-> NoObject, name |-> "", obj |-> o,
             why |-> IF o = NoObject THEN "none" ELSE "ok"]

\* What a look-up is given.
LookUps == [start : Nodes \cup {NoObject}, path : Seq(STRING), symDepth : Nat]

\* Mutant: every link is followed from the root.
StartsAtRoot(o) == Root

\* Where the path of a link begins.
LinkStart(o) == IF alias[o].fromRoot THEN Root ELSE Parent(o)

\* The depth grows with each link of a chain.  A look-up that is nested in this
\* one begins with the depth of this one, not above it.  nested[q] is what the
\* look-up q finds that is made in this one.
FollowLink(obj, depth, nested) ==
    LET Follow[o \in Nodes \cup {NoObject}, symDepth \in Nat] ==
          IF o = NoObject \/ kind[o] # "symlink" THEN Found(o)
          ELSE LET next == nested[[start |-> LinkStart(o), path |-> alias[o].path,
                                   symDepth |-> symDepth]]
               IN  IF next.why # "ok" THEN next ELSE Follow[next.obj, symDepth + 1]
    IN  Follow[obj, depth]

\* How far all components but the last one lead.
Reached(start, path, symDepth, nested) ==
    LET Step(at, n) ==
          CASE at.why # "ok" -> at
            [] at.why = "ok" /\ at.obj \notin Directory -> Fails("none")
            [] OTHER -> IF n = ".." THEN Found(Parent(at.obj))
                        ELSE FollowLink(FindByName(at.obj, n), symDepth, nested)
    IN  FoldLeft(Step, Found(start), Front(path))

\* The last component is for the caller.
LastIn(end, path, symDepth) ==
    CASE symDepth > YAFFSFS_MAX_SYMLINK_DEREFERENCES -> Fails("loop")
      [] symDepth <= YAFFSFS_MAX_SYMLINK_DEREFERENCES /\ end.why # "ok" -> Fails(end.why)
      [] OTHER -> IF end.obj \notin Directory THEN Fails("none")
                  ELSE [dir |-> end.obj, name |-> Last(path), obj |-> NoObject, why |-> "ok"]

FindDirectory(start, path, symDepth, nested) ==
    LastIn(Reached(start, path, symDepth, nested), path, symDepth)

\* What the last component is the name of.
ObjectIn(d) ==
    IF d.why # "ok" THEN Fails(d.why)
    ELSE Found(IF d.name = "" THEN d.dir ELSE FindByName(d.dir, d.name))

FindObject(start, path, symDepth, nested) == ObjectIn(FindDirectory(start, path, symDepth, nested))

\* stack is what is left of the calls that may be nested.
NestedLookUp[stack \in Nat] ==
    [q \in LookUps |-> IF stack = 0 THEN Fails("overflow")
                       ELSE FindObject(q.start, q.path, q.symDepth, NestedLookUp[stack - 1])]

DirectoryOf(path) == FindDirectory(Root, path, 0, NestedLookUp[StackLimit - 1])

\* lstat and the calls that change names stop at a link, the others follow it.
ObjectOf(path) == FindObject(Root, path, 0, NestedLookUp[StackLimit - 1]).obj
Target(path) ==
    LET o == FindObject(Root, path, 0, NestedLookUp[StackLimit - 1])
    IN  IF o.why = "ok" THEN FollowLink(o.obj, 0, NestedLookUp[StackLimit - 1]) ELSE o

\* yaffsfs_alt_dir_path: a divider at the end is cut off.
AltDirPath(path) == IF Len(path) > 1 /\ Last(path) = "" THEN Front(path) ELSE path

-----------------------------------------------------------------------------
(* An object leaves its directory: yaffs calls yaffsfs_RemoveObjectCallback *)
(* before it takes the object from the list.                                *)

Detach(ch, o) == [n \in Nodes |-> RemoveFirst(ch[n], o)]

\* yaffsfs_DirAdvance
After(ch, d, o) ==
    LET i == CHOOSE k \in 1 .. Len(ch[d]) : ch[d][k] = o
    IN  IF i = Len(ch[d]) THEN NoObject ELSE ch[d][i + 1]

\* Mutant: the searches are not told.
NotAdvanced(found, ch, o) == found

\* Mutant: the search starts again.
Restarted(found, ch, o) ==
    [s \in Searches |->
       LET rest == RemoveFirst(ch[found[s].dirObj], o)
       IN  IF found[s].next # o THEN found[s]
           ELSE [found[s] EXCEPT !.next = IF rest = <<>> THEN NoObject ELSE Head(rest)]]

\* yaffsfs_RemoveObjectCallback
Advanced(found, ch, o) ==
    [s \in Searches |->
       IF found[s].next = o THEN [found[s] EXCEPT !.next = After(ch, found[s].dirObj, o)]
       ELSE found[s]]

\* The object is freed: a search of it is left with a pointer to nothing.
Freed(found, o) ==
    [s \in Searches |->
       IF found[s].dirObj = o THEN [found[s] EXCEPT !.removed = TRUE] ELSE found[s]]

NoLongerSteady(S) == steady' = [s \in Searches |-> steady[s] \ S]

-----------------------------------------------------------------------------
(* The calls that change the tree.  yaffs puts a new child at the head of   *)
(* the list of its directory.                                               *)

AddChild(o, d, n, what, to) ==
    /\ kind' = [kind EXCEPT ![o] = what]
    /\ name' = [name EXCEPT ![o] = n]
    /\ alias' = [alias EXCEPT ![o] = to]
    /\ children' = [children EXCEPT ![d] = <<o>> \o @]
    /\ UNCHANGED <<search, returned, steady, broken>>

\* The directory and the name of a path where nothing is yet.
Vacant(path) ==
    LET d == DirectoryOf(path)
    IN  d.why = "ok" /\ d.name \in Names /\ FindByName(d.dir, d.name) = NoObject

New(o) == kind[o] = "absent"

\* yaffs_open_sharing with O_CREAT
creat(o, path) ==
    /\ New(o) /\ Vacant(path)
    /\ AddChild(o, DirectoryOf(path).dir, DirectoryOf(path).name, "file", NoAlias)

mkdir(o, path) ==
    LET p == AltDirPath(path)
    IN  /\ New(o) /\ Vacant(p)
        /\ AddChild(o, DirectoryOf(p).dir, DirectoryOf(p).name, "dir", NoAlias)

symlink(o, to, path) ==
    /\ New(o) /\ Vacant(path)
    /\ AddChild(o, DirectoryOf(path).dir, DirectoryOf(path).name, "symlink", to)

\* yaffsfs_DoUnlink.  A directory that is not empty is refused below.
DoUnlink(path, isDirectory) ==
    LET o == ObjectOf(path)
        d == DirectoryOf(path)
    IN  /\ o \in Objects
        /\ d.why = "ok" /\ FindByName(d.dir, d.name) = o
        /\ isDirectory <=> kind[o] = "dir"
        /\ children[o] = <<>>
        /\ search' = Freed(Advanced(search, children, o), o)
        /\ children' = Detach(children, o)
        /\ kind' = [kind EXCEPT ![o] = "absent"]
        /\ name' = [name EXCEPT ![o] = NoName]
        /\ alias' = [alias EXCEPT ![o] = NoAlias]
        /\ NoLongerSteady({o})
        /\ UNCHANGED <<returned, broken>>

unlink(path) == DoUnlink(path, FALSE)
rmdir(path) == DoUnlink(AltDirPath(path), TRUE)

\* Mutant: the new directory is not traced back to the root.
MovesAnywhere(o, d) == TRUE

\* The new directory is traced back to the root, which must not meet the object.
MovesOutside(o, d) ==
    LET Outside[n \in Nodes \cup {NoObject}] ==
          IF n \in {NoObject, o} THEN n = NoObject ELSE Outside[Parent(n)]
    IN  Outside[d]

\* What has the new name already is removed, unless it is the object itself.
Replaced(o, old) == IF old = o THEN NoObject ELSE old

rename(oldPath, newPath) ==
    LET olddir == DirectoryOf(oldPath)
        newdir == DirectoryOf(AltDirPath(newPath))
        o == ObjectOf(oldPath)
        newobj == ObjectOf(AltDirPath(newPath))
        gone == Replaced(o, newobj)
        without == IF gone = NoObject THEN children ELSE Detach(children, gone)
        told == IF gone = NoObject THEN search
                ELSE Freed(Advanced(search, children, gone), gone)
    IN  /\ olddir.why = "ok" /\ newdir.why = "ok" /\ newdir.name \in Names
        /\ o \in Objects
        /\ newobj # NoObject => children[newobj] = <<>>
        /\ kind[o] = "dir" => MovesOutside(o, newdir.dir)
        /\ search' = Advanced(told, without, o)
        /\ children' = [Detach(without, o) EXCEPT ![newdir.dir] = <<o>> \o @]
        /\ kind' = [n \in Nodes |-> IF n = gone THEN "absent" ELSE kind[n]]
        /\ name' = [n \in Objects |-> CASE n = o -> newdir.name
                                        [] n = gone -> NoName
                                        [] OTHER -> name[n]]
        /\ alias' = [n \in Objects |-> IF n = gone THEN NoAlias ELSE alias[n]]
        /\ NoLongerSteady({o, gone})
        /\ UNCHANGED <<returned, broken>>

-----------------------------------------------------------------------------
(* Directory searches. *)

\* Mutant: the search begins behind the first child.
SecondChild(d) == IF Len(children[d]) > 1 THEN children[d][2] ELSE NoObject

\* yaffsfs_SetDirRewound
FirstChild(d) == IF children[d] = <<>> THEN NoObject ELSE Head(children[d])

Rewound(s, d) ==
    /\ search' = [search EXCEPT ![s] = [dirObj |-> d, next |-> FirstChild(d), removed |-> FALSE]]
    /\ returned' = [returned EXCEPT ![s] = {}]
    /\ steady' = [steady EXCEPT ![s] = ChildrenOf(d)]

opendir(s, path) ==
    LET o == ObjectOf(path)
    IN  /\ search[s] = Closed
        /\ o \in Directory
        /\ Rewound(s, o)
        /\ UNCHANGED <<tree, broken>>

readdir(s) ==
    LET o == search[s].next
    IN  /\ o # NoObject
        /\ search' = [search EXCEPT ![s].next = After(children, search[s].dirObj, o)]
        /\ returned' = [returned EXCEPT ![s] = @ \cup {o}]
        /\ UNCHANGED <<tree, steady, broken>>

rewinddir(s) ==
    /\ search[s] # Closed
    /\ \/ ~search[s].removed /\ Rewound(s, search[s].dirObj) /\ UNCHANGED broken
       \/ search[s].removed /\ broken' = TRUE /\ UNCHANGED <<search, returned, steady>>
    /\ UNCHANGED tree

closedir(s) ==
    /\ search[s] # Closed
    /\ search' = [search EXCEPT ![s] = Closed]
    /\ returned' = [returned EXCEPT ![s] = {}]
    /\ steady' = [steady EXCEPT ![s] = {}]
    /\ UNCHANGED <<tree, broken>>

Next ==
    \/ \E o \in Objects, path \in Paths :
         creat(o, path) \/ mkdir(o, path) \/ \E to \in Aliases : symlink(o, to, path)
    \/ \E path \in Paths : unlink(path) \/ rmdir(path)
    \/ \E oldPath, newPath \in Paths : rename(oldPath, newPath)
    \/ \E s \in Searches :
         \/ \E path \in Paths : opendir(s, path)
         \/ readdir(s) \/ rewinddir(s) \/ closedir(s)

Spec == Init /\ [][Next]_vars

-----------------------------------------------------------------------------
(* Properties. *)

\* The types of the variables.
TypeOK ==
    /\ kind \in [Nodes -> {"absent", "file", "dir", "symlink"}]
    /\ name \in [Objects -> Names \cup {NoName}]
    /\ alias \in [Objects -> Aliases \cup {NoAlias}]
    /\ \A n \in Nodes : ChildrenOf(n) \subseteq Objects
    /\ \A s \in Searches :
         /\ search[s].dirObj \in Nodes \cup {NoObject}
         /\ search[s].next \in Objects \cup {NoObject}
         /\ search[s].removed \in BOOLEAN
         /\ returned[s] \subseteq Objects
         /\ steady[s] \subseteq Objects
    /\ broken \in BOOLEAN

\* What can be reached from the nodes of D in at most n steps down.
Below(D, n) ==
    LET Within[k \in 0 .. n] ==
          IF k = 0 THEN D
          ELSE Within[k - 1] \cup UNION {ChildrenOf(d) : d \in Within[k - 1]}
    IN  Within[n]

\* What exists has one place: it is once in the list of one directory, where
\* nothing else has its name.
OnePlace ==
    /\ \A d \in Nodes : children[d] # <<>> => kind[d] = "dir"
    /\ \A d, e \in Nodes : \A i \in 1 .. Len(children[d]), j \in 1 .. Len(children[e]) :
         children[d][i] = children[e][j] => d = e /\ i = j
    /\ \A o \in Objects : kind[o] # "absent" <=> \E d \in Nodes : o \in ChildrenOf(d)
    /\ \A d \in Nodes : \A o, p \in ChildrenOf(d) : name[o] = name[p] => o = p

\* Every object stays within reach of the root under one name, whatever is
\* renamed: no directory is moved below itself and no name is there twice
\* (the checks of yaffs_rename).
TreeShape ==
    /\ TypeOK
    /\ {n \in Nodes : kind[n] # "absent"} = Below({Root}, Cardinality(Objects))
    /\ OnePlace

\* The components of a path, and which is the last.
Marked(path) == [i \in 1 .. Len(path) |-> [name |-> path[i], last |-> i = Len(path)]]

\* What a path means: a link is replaced by its alias, from left to right, and
\* ".." is the parent of a directory, but a name like any other where a path or
\* an alias ends in it.  [obj, links] with the number of links replaced;
\* StackLimit many never end.
Reference(whole) ==
    LET Means[d \in Nodes \cup {NoObject}, path \in Seq([name : STRING, last : BOOLEAN]),
              links \in Nat] ==
          CASE d = NoObject \/ (path # <<>> /\ kind[d] # "dir") -> [obj |-> NoObject, links |-> links]
            [] links > StackLimit -> [obj |-> NoObject, links |-> links]
            [] path = <<>> -> [obj |-> d, links |-> links]
            [] Head(path).name = "" -> Means[d, Tail(path), links]
            [] Head(path).name = ".." /\ ~Head(path).last -> Means[Parent(d), Tail(path), links]
            [] OTHER ->
                 LET o == FindByName(d, Head(path).name)
                 IN  IF o # NoObject /\ kind[o] = "symlink"
                     THEN Means[IF alias[o].fromRoot THEN Root ELSE d,
                                Marked(alias[o].path) \o Tail(path), links + 1]
                     ELSE Means[o, Tail(path), links]
    IN  Means[Root, Marked(whole), 0]

\* The look-up finds what the path means; it gives up with ELOOP only beyond
\* YAFFSFS_MAX_SYMLINK_DEREFERENCES links, and it runs out of stack only where
\* the links never end (yaffsfs_DoFindDirectory, yaffsfs_FollowLink).
LookupRight ==
    \A path \in Paths :
      LET code == Target(path)
          meant == Reference(path)
      IN  CASE code.why = "loop" -> meant.links > YAFFSFS_MAX_SYMLINK_DEREFERENCES
            [] code.why = "overflow" -> meant.links > StackLimit
            [] OTHER -> code.obj = meant.obj

\* A search points at a child of its directory or nowhere, whatever is removed
\* and moved while it is under way (yaffsfs_RemoveObjectCallback).
SearchInside ==
    \A s \in Searches :
      search[s].next # NoObject =>
        ~search[s].removed /\ search[s].next \in ChildrenOf(search[s].dirObj)

\* A search that has come to its end has returned every child that was there all
\* the time.
SearchComplete ==
    \A s \in Searches :
      search[s].next = NoObject => steady[s] \subseteq returned[s]

\* No step returns a child for the second time, moved or not, before a rewind.
ReturnedOnce ==
    [][\A s \in Searches : readdir(s) => search[s].next \notin returned[s]]_vars
=============================================================================
