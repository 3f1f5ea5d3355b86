----------------------------- MODULE OpenFiles -----------------------------
(***************************************************************************)
(* What the open, dup and close calls of the YAFFS direct interface        *)
(* promise.  An open makes a description of an object.  A description      *)
(* lives as long as something refers to it: a handle the program got and   *)
(* has not closed, or a transfer still under way.  An object that was      *)
(* unlinked lives as long as a description of it does.                     *)
(*                                                                         *)
(* The service may break: from then on it promises nothing.                *)
(***************************************************************************)
CONSTANTS Descriptions, Handles, Transfers, Objects, NoObject

VARIABLES refs,    \* what refers to a description
          file,    \* the object of a description
          place,   \* where an object is: "absent", "linked" or "unlinked"
          broken   \* nothing is promised any more

absVars == <<refs, file, place, broken>>

OpenFilesInit ==
    /\ refs = [d \in Descriptions |-> {}]
    /\ file = [d \in Descriptions |-> NoObject]
    /\ place \in [Objects -> {"absent", "linked"}]
    /\ broken = FALSE

Unreferenced(r) == \A d \in Descriptions : r \notin refs[d]

OpenFile(d, h, o) ==
    /\ refs[d] = {}
    /\ Unreferenced(h)
    /\ refs' = [refs EXCEPT ![d] = {h}]
    /\ file' = [file EXCEPT ![d] = o]
    /\ \/ place[o] = "linked" /\ UNCHANGED place
       \/ place[o] = "absent" /\ place' = [place EXCEPT ![o] = "linked"]

\* A second handle on a description, or a transfer that begins on it.
Share(d, r) ==
    /\ refs[d] # {}
    /\ Unreferenced(r)
    /\ refs' = [refs EXCEPT ![d] = @ \cup {r}]
    /\ UNCHANGED <<file, place>>

Drop(d, r) ==
    /\ r \in refs[d]
    /\ refs' = [refs EXCEPT ![d] = @ \ {r}]
    /\ file' = IF refs[d] = {r} THEN [file EXCEPT ![d] = NoObject] ELSE file
    /\ place' =
         IF /\ place[file[d]] = "unlinked"
            /\ \A e \in Descriptions : file'[e] # file[d]
         THEN [place EXCEPT ![file[d]] = "absent"]
         ELSE place

Remove(o) ==
    /\ place[o] = "linked"
    /\ place' = [place EXCEPT ![o] =
                   IF \E d \in Descriptions : file[d] = o THEN "unlinked" ELSE "absent"]
    /\ UNCHANGED <<refs, file>>

\* The device goes away with everything that is open on it.
Void ==
    /\ refs' = [d \in Descriptions |-> {}]
    /\ file' = [d \in Descriptions |-> NoObject]
    /\ place' = [o \in Objects |-> IF place[o] = "unlinked" THEN "absent" ELSE place[o]]

Works ==
    /\ ~broken
    /\ UNCHANGED broken
    /\ \/ \E d \in Descriptions, h \in Handles, o \in Objects : OpenFile(d, h, o)
       \/ \E d \in Descriptions, r \in Handles \cup Transfers : Share(d, r) \/ Drop(d, r)
       \/ \E o \in Objects : Remove(o)
       \/ Void

OpenFilesNext == Works \/ broken' = TRUE

OpenFilesSpec == OpenFilesInit /\ [][OpenFilesNext]_absVars
=============================================================================
