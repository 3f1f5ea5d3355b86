----------------------------- MODULE MCEventLog -----------------------------
(***************************************************************************)
(* Small instances of EventLog.                                            *)
(***************************************************************************)
EXTENDS EventLog

\* The properties with ~raced say nothing of what follows a race: the search
\* need not go there.
NotYetRaced == ~raced
=============================================================================
