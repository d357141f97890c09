------------------------------ MODULE Tracker ------------------------------
(***************************************************************************)
(* The lifecycle of the tracker (tracker.cpp): the object _tracker, its    *)
(* command queue, its std::thread handle, the thread behind it, and the    *)
(* API functions, called by any number of threads.                         *)
(*                                                                         *)
(* A section under _tracker_mutex is one action.  tracker_stop and         *)
(* tracker_restart have three: the command is pushed under the mutex, the  *)
(* thread is joined without it, and the rest is done under it again.       *)
(*                                                                         *)
(* Following a null _tracker, joining a thread that is not joinable (or    *)
(* that another caller has joined meanwhile), and destroying or replacing  *)
(* the handle of a joinable thread end the process: crash says how.  (So   *)
(* does a request with a value that does not decode, in module HttpTracker;*)
(* it is left out here, as nothing happens after it.)                      *)
(*                                                                         *)
(* STOP is the only command, and none is ever taken out of command_queue:  *)
(* it has no bound, but only whether it is empty can matter.               *)
(***************************************************************************)
CONSTANTS
    Callers,    \* threads that call the API
    Calls       \* Calls[c]: the functions caller c uses

Functions == {"start", "stop", "restart", "set_tunnel_host"}

ASSUME TrackerAssumption == Calls \in [Callers -> SUBSET Functions]

VARIABLES
    tracker,    \* _tracker is not null
    queued,     \* a STOP is in command_queue
    joinable,   \* _tracker->thread.joinable()
    worker,     \* where http_tracker_thread_fn is
    call,       \* what is left of the call a caller is in
    crash       \* how the process ended

vars == <<tracker, queued, joinable, worker, call, crash>>

Init ==
    /\ tracker = FALSE
    /\ queued = FALSE
    /\ joinable = FALSE
    /\ worker = "none"
    /\ call = [c \in Callers |-> "idle"]
    /\ crash = "none"

Crash(how) ==
    /\ crash' = how
    /\ UNCHANGED <<tracker, queued, joinable, worker, call>>

Calling(c, function) ==
    /\ crash = "none"
    /\ call[c] = "idle"
    /\ function \in Calls[c]

At(c, step) ==
    /\ crash = "none"
    /\ call[c] = step

Goto(c, step) == call' = [call EXCEPT ![c] = step]

-----------------------------------------------------------------------------
(* tracker_start *)

\* mutant: a running tracker is replaced
StartAlways(c) ==
    /\ Calling(c, "start")
    /\ tracker' = TRUE
    /\ queued' = FALSE
    /\ joinable' = TRUE
    /\ worker' = "setup"
    /\ UNCHANGED <<call, crash>>

Start(c) ==
    /\ Calling(c, "start")
    /\ ~tracker
    /\ tracker' = TRUE
    /\ queued' = FALSE
    /\ joinable' = TRUE
    /\ worker' = "setup"
    /\ UNCHANGED <<call, crash>>

\* "tracker already running!!!!!!!!"
StartAgain(c) ==
    /\ Calling(c, "start")
    /\ tracker
    /\ UNCHANGED vars

\* The first locked section of tracker_stop and tracker_restart
PushStop(c, function) ==
    /\ Calling(c, function)
    /\ tracker
    /\ queued' = TRUE
    /\ UNCHANGED <<tracker, joinable, worker, crash>>

\* "tracker not running!"
NotRunning(c) ==
    /\ Calling(c, "stop") \/ Calling(c, "restart")
    /\ ~tracker
    /\ UNCHANGED vars

\* mutant: the thread is detached, not joined
Detach(c, step, next) ==
    /\ At(c, step)
    /\ \/ ~tracker /\ Crash("null")
       \/ /\ tracker
          /\ joinable' = FALSE
          /\ Goto(c, next)
          /\ UNCHANGED <<tracker, queued, worker, crash>>

\* mutant: if (thread.joinable()) thread.join()
JoinIfJoinable(c, step, next) ==
    /\ At(c, step)
    /\ \/ ~tracker /\ Crash("null")
       \/ /\ tracker
          /\ joinable => worker = "exited"
          /\ joinable' = FALSE
          /\ Goto(c, next)
          /\ UNCHANGED <<tracker, queued, worker, crash>>

\* _tracker->thread.join(), without the mutex
Join(c, step, next) ==
    /\ At(c, step)
    /\ \/ ~tracker /\ Crash("null")
       \/ tracker /\ ~joinable /\ Crash("join")
       \/ /\ tracker /\ joinable
          /\ worker = "exited"
          /\ joinable' = FALSE
          /\ Goto(c, next)
          /\ UNCHANGED <<tracker, queued, worker, crash>>

-----------------------------------------------------------------------------
(* tracker_stop *)

Stop(c) == PushStop(c, "stop") /\ Goto(c, "join_stop")

JoinToStop(c) == Join(c, "join_stop", "reset")

\* mutant: the object is kept
ReturnWithoutReset(c) ==
    /\ At(c, "reset")
    /\ Goto(c, "idle")
    /\ UNCHANGED <<tracker, queued, joinable, worker, crash>>

\* ~thread() of a joinable thread terminates the process
Reset(c) ==
    /\ At(c, "reset")
    /\ \/ tracker /\ joinable /\ Crash("terminate")
       \/ /\ ~(tracker /\ joinable)
          /\ tracker' = FALSE
          /\ queued' = FALSE
          /\ Goto(c, "idle")
          /\ UNCHANGED <<joinable, worker, crash>>

-----------------------------------------------------------------------------
(* tracker_restart *)

Restart(c) == PushStop(c, "restart") /\ Goto(c, "join_restart")

JoinToRestart(c) == Join(c, "join_restart", "respawn")

\* The command queue is left as it is.
Respawn(c) ==
    /\ At(c, "respawn")
    /\ \/ ~tracker /\ Crash("null")
       \/ tracker /\ joinable /\ Crash("terminate")
       \/ /\ tracker /\ ~joinable
          /\ joinable' = TRUE
          /\ worker' = "setup"
          /\ Goto(c, "idle")
          /\ UNCHANGED <<tracker, queued, crash>>

-----------------------------------------------------------------------------
(* tracker_set_tunnel_host *)

SetTunnelHost(c) ==
    /\ Calling(c, "set_tunnel_host")
    /\ IF tracker THEN UNCHANGED vars ELSE Crash("null")

-----------------------------------------------------------------------------
(* http_tracker_thread_fn *)

Setup ==
    /\ crash = "none"
    /\ worker = "setup"
    /\ IF tracker
       THEN /\ worker' = "commands"
            /\ UNCHANGED <<tracker, queued, joinable, call, crash>>
       ELSE Crash("null")

\* mutant: the command is taken out of the queue and the loop goes on
PopWithoutBreak ==
    /\ crash = "none"
    /\ worker = "commands"
    /\ worker' = "poll"
    /\ queued' = FALSE
    /\ UNCHANGED <<tracker, joinable, call, crash>>

\* A STOP ends the loop; it is looked at, not taken out of the queue.
DoCommands ==
    /\ crash = "none"
    /\ worker = "commands"
    /\ IF tracker
       THEN /\ worker' = IF queued THEN "exited" ELSE "poll"
            /\ UNCHANGED <<tracker, queued, joinable, call, crash>>
       ELSE Crash("null")

\* mg_mgr_poll: without a request, or with an /announce or /list, whose
\* handler locks the mutex and uses _tracker
Poll(request) ==
    /\ crash = "none"
    /\ worker = "poll"
    /\ IF request /\ ~tracker
       THEN Crash("null")
       ELSE /\ worker' = "commands"
            /\ UNCHANGED <<tracker, queued, joinable, call, crash>>

-----------------------------------------------------------------------------
Worker == Setup \/ DoCommands \/ \E request \in BOOLEAN : Poll(request)

Continue(c) == JoinToStop(c) \/ Reset(c) \/ JoinToRestart(c) \/ Respawn(c)

Next ==
    \/ Worker
    \/ \E c \in Callers :
        \/ Start(c) \/ StartAgain(c)
        \/ Stop(c) \/ Restart(c) \/ NotRunning(c) \/ SetTunnelHost(c)
        \/ Continue(c)

\* The operating system runs the tracker thread, and a call that was made.
Spec ==
    /\ Init /\ [][Next]_vars
    /\ WF_vars(Worker)
    /\ \A c \in Callers : WF_vars(Continue(c))

-----------------------------------------------------------------------------
(* Properties. *)

Running == {"setup", "commands", "poll"}

TypeOK ==
    /\ tracker \in BOOLEAN
    /\ queued \in BOOLEAN
    /\ joinable \in BOOLEAN
    /\ worker \in Running \cup {"none", "exited"}
    /\ call \in [Callers ->
         {"idle", "join_stop", "reset", "join_restart", "respawn"}]
    /\ crash \in {"none", "null", "join", "terminate"}

\* Whatever is called by whom, the tracker thread never runs without the
\* object it works on, nor without a handle it can be joined by: none of its
\* sections can meet a null _tracker.
WorkerHasTracker == worker \in Running => tracker /\ joinable

\* The join hands the tracker to one caller: at most one is between its join
\* and the end of its call, so none finds, after its join, that another one
\* destroyed the tracker or started a thread in it.
OnePastJoin ==
    /\ crash # "terminate"
    /\ \A c \in Callers : call[c] \in {"reset", "respawn"} =>
         /\ tracker /\ ~joinable
         /\ \A d \in Callers : call[d] \in {"reset", "respawn"} => d = c

\* A call ends the process only where there is no tracker or where another
\* call is still on its way: threads that take turns cannot do it.
TurnsAreSafe ==
    [][crash' # crash =>
         \/ ~tracker
         \/ \E c, d \in Callers : c # d /\ call[c] # "idle" /\ call[d] # "idle"]_vars

\* "blocks until it quits": tracker_stop and tracker_restart do not block for
\* ever, once no other thread is in one of the two, as long as the STOP they
\* pushed is in the queue.  (Of two threads that stop the tracker the later one
\* may find it started anew, and waits for a thread nobody told to stop.)
CallsReturn ==
    \A c \in Callers :
        [](/\ call[c] # "idle" /\ queued
           /\ [](\A d \in Callers \ {c} : call[d] = "idle")
           => <>(call[c] = "idle"))

\* When tracker_stop returns the thread has quit and the object is gone.
StopLeavesNothing ==
    [][\A c \in Callers : call[c] = "reset" /\ call'[c] = "idle" =>
         ~tracker' /\ ~joinable' /\ worker' \notin Running]_vars

\* "signal tracker restart, blocks until new thread is started": a tracker
\* that is restarted serves requests again.
RestartServes ==
    \A c \in Callers : call[c] = "respawn" ~> worker = "poll"

=============================================================================
