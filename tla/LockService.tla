---------------------------- MODULE LockService ----------------------------
(***************************************************************************)
(* What the lock manager of TxFS offers to the handlers: shared and        *)
(* exclusive locks on files, held by transactions under strict two-phase   *)
(* locking.  A transaction gets locks one by one, gives all of them back   *)
(* in one step and never gets another one.  The backup is not two-phase:   *)
(* it gives back one lock and may go on to the next.                       *)
(*                                                                         *)
(* The service may break: from then on it promises nothing.                *)
(***************************************************************************)
EXTENDS Integers

CONSTANTS Users,   \* transactions that lock in two phases
          Single,  \* the transaction that has one lock at a time
          Objects  \* what is locked

VARIABLES grant,   \* the lock a transaction has on an object: -1, 0 or 1
          ended,   \* users that gave their locks back
          broken   \* nothing is promised any more

absVars == <<grant, ended, broken>>

Clients == Users \cup {Single}
None == [o \in Objects |-> -1]

ServiceInit ==
    /\ grant = [c \in Clients |-> None]
    /\ ended = {}
    /\ broken = FALSE

Compatible(c, o, mode) ==
    \A d \in Clients \ {c} : grant[d][o] = -1 \/ (mode = 0 /\ grant[d][o] = 0)

Acquire(c, o, mode) ==
    /\ c \notin ended
    /\ grant[c][o] = -1
    /\ c = Single => grant[c] = None
    /\ Compatible(c, o, mode)
    /\ grant' = [grant EXCEPT ![c][o] = mode]
    /\ UNCHANGED <<ended, broken>>

ReleaseEverything(c) ==
    /\ c \notin ended
    /\ grant' = [grant EXCEPT ![c] = None]
    /\ ended' = ended \cup {c}
    /\ UNCHANGED broken

ReleaseSingle ==
    /\ grant' = [grant EXCEPT ![Single] = None]
    /\ UNCHANGED <<ended, broken>>

Break == broken' = TRUE

ServiceNext ==
    \/ ~broken /\ \E c \in Clients, o \in Objects, mode \in {0, 1} : Acquire(c, o, mode)
    \/ ~broken /\ \E c \in Users : ReleaseEverything(c)
    \/ ~broken /\ ReleaseSingle
    \/ Break

ServiceSpec == ServiceInit /\ [][ServiceNext]_absVars
=============================================================================
