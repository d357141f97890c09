------------------------------- MODULE Mutexes -------------------------------
(***************************************************************************)
(* Who waits for whom: the tox client thread, the tracker thread and the   *)
(* threads that call the API of the two (tox_client.hpp, tracker.hpp),     *)
(* with the three mutexes they share and the join of tracker_stop and      *)
(* tracker_restart.  What they do under the mutexes is the business of the *)
(* other modules, which take each critical section for one step, or each   *)
(* step inside it, and rely on this one for that they all come to an end.  *)
(***************************************************************************)
EXTENDS Naturals

CONSTANTS
    Tox,        \* the tox client thread
    Http,       \* the tracker thread
    ApiThreads  \* threads that start, stop and restart the two

Threads == {Tox, Http} \cup ApiThreads

ASSUME MutexesAssumption ==
    Tox # Http /\ Tox \notin ApiThreads /\ Http \notin ApiThreads

\* _tox_client_mutex, _tracker_mutex, torrent_db_mutex
Locks == {"client", "tracker", "db"}

VARIABLES
    held,       \* held[t]: the mutexes t has locked
    wants,      \* wants[t]: the mutex t is blocked in lock() for, or "none"
    joining,    \* callers that are in the join
    alive,      \* the tracker thread is running
    stopping    \* a STOP is in the command queue

lockVars == <<held, wants, joining, alive, stopping>>

LocksInit ==
    /\ held = [t \in Threads |-> {}]
    /\ wants = [t \in Threads |-> "none"]
    /\ joining = {}
    /\ alive = FALSE
    /\ stopping = FALSE

-----------------------------------------------------------------------------
(* What a thread asks for, given what it has. *)

\* mutant: a chat command sets the tunnel host while it holds the database
ToxAsksAnything(locks, l) ==
    \/ locks = {} /\ l = "client"
    \/ locks = {"client"} /\ l \in {"db", "tracker"}
    \/ locks = {"client", "db"} /\ l = "tracker"

\* An iteration takes _tox_client_mutex; under it the ticks of the
\* extensions, their callbacks and the chat command "list" take the database,
\* and the chat command "tunnel_host_set" takes the tracker.
ToxAsks(locks, l) ==
    \/ locks = {} /\ l = "client"
    \/ locks = {"client"} /\ l \in {"db", "tracker"}

\* mutant: the handler of an announce calls an API function of the tracker
HttpCallsApi(locks, l) ==
    \/ locks = {} /\ l = "tracker"
    \/ locks = {"tracker"} /\ l \in {"db", "tracker"}

\* The setup, each look at the command queue, and the handlers of /announce
\* and /list, which take the database as well.
HttpAsks(locks, l) ==
    \/ locks = {} /\ l = "tracker"
    \/ locks = {"tracker"} /\ l = "db"

\* Each function of the API takes one mutex at a time.
CallerAsks(locks, l) == locks = {} /\ l \in {"client", "tracker"}

Asks(t, l) ==
    \/ t = Tox /\ ToxAsks(held[t], l)
    \/ t = Http /\ alive /\ HttpAsks(held[t], l)
    \/ t \in ApiThreads \ joining /\ CallerAsks(held[t], l)

Request(t, l) ==
    /\ wants[t] = "none"
    /\ Asks(t, l)
    /\ wants' = [wants EXCEPT ![t] = l]
    /\ UNCHANGED <<held, joining, alive, stopping>>

Grant(t) ==
    /\ wants[t] # "none"
    /\ \A u \in Threads : wants[t] \notin held[u]
    /\ held' = [held EXCEPT ![t] = @ \cup {wants[t]}]
    /\ wants' = [wants EXCEPT ![t] = "none"]
    /\ UNCHANGED <<joining, alive, stopping>>

\* The locks are std::lock_guards: the one taken last is freed first.
Release(t) ==
    /\ wants[t] = "none"
    /\ \E l \in held[t] :
        /\ l = "client" => held[t] = {"client"}
        /\ l = "tracker" => "db" \notin held[t]
        /\ held' = [held EXCEPT ![t] = @ \ {l}]
    /\ UNCHANGED <<wants, joining, alive, stopping>>

-----------------------------------------------------------------------------
(* The life of the tracker thread. *)

\* tracker_start, or the end of tracker_restart, which leaves its STOP in
\* the queue
Spawn(c) ==
    /\ c \in ApiThreads \ joining
    /\ wants[c] = "none" /\ held[c] = {"tracker"}
    /\ ~alive
    /\ alive' = TRUE
    /\ stopping' \in {stopping, FALSE}
    /\ UNCHANGED <<held, wants, joining>>

\* mutant: the mutex is held until the function returns
PushCommandLocked(c) ==
    /\ c \in ApiThreads \ joining
    /\ wants[c] = "none" /\ held[c] = {"tracker"}
    /\ stopping' = TRUE
    /\ joining' = joining \cup {c}
    /\ UNCHANGED <<held, wants, alive>>

\* The first critical section of tracker_stop and tracker_restart ends, and
\* the thread goes on to join the tracker thread.
PushCommand(c) ==
    /\ c \in ApiThreads \ joining
    /\ wants[c] = "none" /\ held[c] = {"tracker"}
    /\ stopping' = TRUE
    /\ held' = [held EXCEPT ![c] = {}]
    /\ joining' = joining \cup {c}
    /\ UNCHANGED <<wants, alive>>

Joined(c) ==
    /\ c \in joining
    /\ ~alive
    /\ joining' = joining \ {c}
    /\ UNCHANGED <<held, wants, alive, stopping>>

\* The tracker thread meets the STOP and leaves its loop.
Exit ==
    /\ alive /\ stopping
    /\ wants[Http] = "none" /\ held[Http] = {"tracker"}
    /\ alive' = FALSE
    /\ held' = [held EXCEPT ![Http] = {}]
    /\ UNCHANGED <<wants, joining, stopping>>

-----------------------------------------------------------------------------
LocksNext ==
    \/ \E t \in Threads :
        \/ \E l \in Locks : Request(t, l)
        \/ Grant(t) \/ Release(t)
    \/ \E c \in ApiThreads : Spawn(c) \/ PushCommand(c) \/ Joined(c)
    \/ Exit

LocksSpec == LocksInit /\ [][LocksNext]_lockVars

-----------------------------------------------------------------------------
(* Properties. *)

\* Types; and std::mutex being what it is, no thread asks for a mutex it has
\* locked already.
LocksTypeOK ==
    /\ held \in [Threads -> SUBSET Locks]
    /\ wants \in [Threads -> Locks \cup {"none"}]
    /\ \A t \in Threads : wants[t] \notin held[t]
    /\ joining \subseteq ApiThreads
    /\ alive \in BOOLEAN /\ stopping \in BOOLEAN

\* t cannot go on before u has
WaitsFor(t, u) ==
    \/ wants[t] \in held[u]
    \/ t \in joining /\ alive /\ u = Http

\* There is never a set of threads of which each one waits for another one of
\* them, be it for a mutex or for the end of the tracker thread.
NoDeadlock ==
    \A S \in SUBSET Threads :
        S # {} => \E t \in S : \A u \in S : ~WaitsFor(t, u)

-----------------------------------------------------------------------------
\* Why there is none: whoever waits holds only mutexes that come before the
\* one it waits for, in the order of Locks, and whoever joins holds none.
Ordered ==
    /\ \A t \in Threads :
        /\ wants[t] = "db" => "db" \notin held[t]
        /\ wants[t] = "tracker" => held[t] \cap {"tracker", "db"} = {}
        /\ wants[t] = "client" => held[t] = {}
    /\ \A c \in joining : held[c] = {} /\ wants[c] = "none"
    /\ ~alive => held[Http] = {} /\ wants[Http] = "none"

=============================================================================
