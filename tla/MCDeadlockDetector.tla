------------------------- MODULE MCDeadlockDetector -------------------------
(* A small instance of DeadlockDetector: a writer and a reader that may wait for *)
(* each other, and a bystander with one request of either mode.                  *)
EXTENDS DeadlockDetector

MCModes == [t \in Txns |-> CASE t = 1 -> {1} [] t = 2 -> {0} [] t = 3 -> {0, 1}]
MCRequests == [t \in Txns |-> IF t = 3 THEN 1 ELSE 2]
=============================================================================
