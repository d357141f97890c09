----------------------------- MODULE MCTracker -----------------------------
(* Small instances of Tracker for TLC. *)
EXTENDS Tracker, TLC

CONSTANTS c1, c2, c3

\* Every thread may call every function at any time.
Anything == [c \in Callers |-> Functions]

\* One thread starts the tracker and restarts it now and then.
Restarts == [c \in Callers |-> {"start", "restart"}]
=============================================================================
