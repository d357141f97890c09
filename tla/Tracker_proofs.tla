--------------------------- MODULE Tracker_proofs ---------------------------
(***************************************************************************)
(* What holds for every number of threads that call the tracker's API, in  *)
(* whatever order: a call can end the process (see TurnsAreAlwaysSafe),    *)
(* but never by pulling the tracker away under the tracker thread.         *)
(***************************************************************************)
EXTENDS Tracker, Mutexes, TLAPS

\* The handle is the token: it is joinable exactly while no caller is past
\* its join, and it lives and dies with the tracker.
HandleInv ==
    /\ joinable => tracker
    /\ tracker /\ ~joinable => \E c \in Callers : call[c] \in {"reset", "respawn"}

IInv == TypeOK /\ WorkerHasTracker /\ OnePastJoin /\ HandleInv

LEMMA InitIInv == Init => IInv
<1> SUFFICES ASSUME Init PROVE IInv
  OBVIOUS
<1> USE TrackerAssumption DEF Init
<1>1. TypeOK
  BY Zenon DEF TypeOK, Running
<1>2. WorkerHasTracker
  BY DEF WorkerHasTracker, Running
<1>3. OnePastJoin
  BY DEF OnePastJoin
<1>4. HandleInv
  BY DEF HandleInv
<1>5. QED
  BY <1>1, <1>2, <1>3, <1>4 DEF IInv

LEMMA NextIInv == IInv /\ [Next]_vars => IInv'
<1> SUFFICES ASSUME IInv, [Next]_vars PROVE IInv'
  OBVIOUS
<1> USE TrackerAssumption
    DEF IInv, TypeOK, WorkerHasTracker, OnePastJoin, HandleInv, Running
<1>1. ASSUME NEW c \in Callers, Start(c) PROVE IInv'
  <2>1. TypeOK'
    BY <1>1 DEF Start, Calling
  <2>2. WorkerHasTracker'
    BY <1>1 DEF Start, Calling
  <2>3. OnePastJoin'
    BY <1>1 DEF Start, Calling
  <2>4. HandleInv'
    BY <1>1 DEF Start, Calling
  <2>5. QED
    BY <2>1, <2>2, <2>3, <2>4
<1>2. ASSUME NEW c \in Callers, NEW function,
             NEW step \in {"join_stop", "join_restart"},
             PushStop(c, function), Goto(c, step)
      PROVE  IInv'
  <2>1. TypeOK'
    BY <1>2 DEF PushStop, Goto, Calling
  <2>2. WorkerHasTracker'
    BY <1>2 DEF PushStop, Goto, Calling
  <2>3. OnePastJoin'
    BY <1>2 DEF PushStop, Goto, Calling
  <2>4. HandleInv'
    BY <1>2 DEF PushStop, Goto, Calling
  <2>5. QED
    BY <2>1, <2>2, <2>3, <2>4
<1>3. ASSUME NEW c \in Callers,
             NEW step \in {"join_stop", "join_restart"},
             NEW next \in {"reset", "respawn"}, Join(c, step, next)
      PROVE  IInv'
  <2>1. TypeOK'
    BY <1>3 DEF Join, At, Goto, Crash
  <2>2. WorkerHasTracker'
    BY <1>3 DEF Join, At, Goto, Crash
  <2>3. OnePastJoin'
    BY <1>3 DEF Join, At, Goto, Crash
  <2>4. HandleInv'
    BY <1>3 DEF Join, At, Goto, Crash
  <2>5. QED
    BY <2>1, <2>2, <2>3, <2>4
<1>4. ASSUME NEW c \in Callers, Reset(c) PROVE IInv'
  <2>1. TypeOK'
    <3>1. CASE crash' = "terminate" /\ UNCHANGED <<tracker, queued, joinable, worker, call>>
      BY <3>1
    <3>2. CASE /\ tracker' = FALSE /\ queued' = FALSE
               /\ Goto(c, "idle") /\ UNCHANGED <<joinable, worker, crash>>
      <4>1. queued' \in BOOLEAN
        BY <3>2
      <4>2. call' \in [Callers -> {"idle", "join_stop", "reset", "join_restart", "respawn"}]
        BY <3>2 DEF Goto
      <4>3. QED
        BY <3>2, <4>1, <4>2, Zenon
    <3>3. QED
      BY <1>4, <3>1, <3>2 DEF Reset, Crash
  <2>2. WorkerHasTracker'
    BY <1>4 DEF Reset, At, Goto, Crash
  <2>3. OnePastJoin'
    BY <1>4 DEF Reset, At, Goto, Crash
  <2>4. HandleInv'
    BY <1>4 DEF Reset, At, Goto, Crash
  <2>5. QED
    BY <2>1, <2>2, <2>3, <2>4
<1>5. ASSUME NEW c \in Callers, Respawn(c) PROVE IInv'
  <2>1. TypeOK'
    BY <1>5 DEF Respawn, At, Goto, Crash
  <2>2. WorkerHasTracker'
    BY <1>5 DEF Respawn, At, Goto, Crash
  <2>3. OnePastJoin'
    BY <1>5 DEF Respawn, At, Goto, Crash
  <2>4. HandleInv'
    BY <1>5 DEF Respawn, At, Goto, Crash
  <2>5. QED
    BY <2>1, <2>2, <2>3, <2>4
<1>6. ASSUME NEW c \in Callers, SetTunnelHost(c) PROVE IInv'
  BY <1>6 DEF SetTunnelHost, Calling, Crash, vars
<1>7. CASE Worker
  BY <1>7 DEF Worker, Setup, DoCommands, Poll, Crash
<1>8. CASE UNCHANGED vars
  BY <1>8 DEF vars
<1>9. QED
  BY <1>1, <1>2, <1>3, <1>4, <1>5, <1>6, <1>7, <1>8
     DEF Next, Stop, Restart, StartAgain, NotRunning, Continue, JoinToStop,
         JoinToRestart

LEMMA Inductive == Spec => []IInv
<1>1. QED
  BY InitIInv, NextIInv, PTL DEF Spec

\* Every variable of the tracker lifecycle keeps its type.
THEOREM TypeCorrect == Spec => []TypeOK
<1>1. IInv => TypeOK
  BY DEF IInv
<1>2. QED
  BY <1>1, Inductive, PTL

\* The tracker thread never runs without the object it works on, for any
\* number of callers that start, stop and restart it at any time.
THEOREM WorkerAlwaysHasTracker == Spec => []WorkerHasTracker
<1>1. IInv => WorkerHasTracker
  BY DEF IInv
<1>2. QED
  BY <1>1, Inductive, PTL

\* The join lets one caller at a time destroy the tracker or start a thread.
THEOREM JoinIsExclusive == Spec => []OnePastJoin
<1>1. IInv => OnePastJoin
  BY DEF IInv
<1>2. QED
  BY <1>1, Inductive, PTL

\* Threads whose calls do not overlap cannot end the process, once there is a
\* tracker: a handle that cannot be joined is in the hands of another caller.
THEOREM TurnsAreAlwaysSafe == Spec => TurnsAreSafe
<1> DEFINE Overlap ==
      \E c, d \in Callers : c # d /\ call[c] # "idle" /\ call[d] # "idle"
<1>1. ASSUME IInv, Next, crash' # crash, tracker PROVE Overlap
  <2> USE <1>1 DEF IInv, HandleInv, WorkerHasTracker, OnePastJoin, Running
  <2>1. ASSUME NEW c \in Callers, NEW next,
               \/ Join(c, "join_stop", next)
               \/ Join(c, "join_restart", next)
        PROVE  Overlap
    <3>1. ~joinable /\ call[c] \in {"join_stop", "join_restart"}
      BY <2>1 DEF Join, At, Crash
    <3>2. PICK d \in Callers : call[d] \in {"reset", "respawn"}
      BY <3>1
    <3>3. QED
      BY <3>1, <3>2
  <2>2. ASSUME NEW c \in Callers, Reset(c) \/ Respawn(c) PROVE FALSE
    BY <2>2 DEF Reset, Respawn, At, Crash
  <2>3. ASSUME NEW c \in Callers,
               \/ Start(c) \/ StartAgain(c) \/ Stop(c) \/ Restart(c)
               \/ NotRunning(c) \/ SetTunnelHost(c)
        PROVE  FALSE
    BY <2>3 DEF Start, StartAgain, Stop, Restart, PushStop, NotRunning,
       SetTunnelHost, Calling, vars
  <2>4. ~Worker
    BY DEF Worker, Setup, DoCommands, Poll
  <2>5. QED
    BY <2>1, <2>2, <2>3, <2>4 DEF Next, Continue, JoinToStop, JoinToRestart
<1>2. IInv /\ [Next]_vars =>
        [crash' # crash => ~tracker \/ Overlap]_vars
  BY <1>1 DEF vars
<1>3. QED
  BY <1>2, Inductive, PTL DEF Spec, TurnsAreSafe

\* When tracker_stop returns, the thread is gone with the object, for any number
\* of callers.
THEOREM StopAlwaysLeavesNothing == Spec => StopLeavesNothing
<1>1. ASSUME IInv, Next, NEW c \in Callers, call[c] = "reset", call'[c] = "idle"
      PROVE  ~tracker' /\ ~joinable' /\ worker' \notin Running
  <2> USE <1>1 DEF IInv, OnePastJoin, WorkerHasTracker
  <2>1. ASSUME NEW d \in Callers, d # c, Continue(d) PROVE FALSE
    BY <2>1 DEF Continue, JoinToStop, JoinToRestart, Join, Reset, Respawn, At,
       Goto, Crash, TypeOK
  <2>2. ASSUME NEW d \in Callers,
               \/ Start(d) \/ StartAgain(d) \/ Stop(d) \/ Restart(d)
               \/ NotRunning(d) \/ SetTunnelHost(d)
        PROVE  FALSE
    BY <2>2 DEF Start, StartAgain, Stop, Restart, PushStop, NotRunning,
       SetTunnelHost, Calling, Goto, Crash, TypeOK, vars
  <2>3. ~Worker
    BY DEF Worker, Setup, DoCommands, Poll, Crash
  <2>4. CASE Continue(c)
    <3>1. Reset(c)
      BY <2>4 DEF Continue, JoinToStop, JoinToRestart, Join, Respawn, At
    <3>2. QED
      BY <3>1 DEF Reset, At, Crash
  <2>5. QED
    BY <2>1, <2>2, <2>3, <2>4 DEF Next
<1>2. IInv /\ [Next]_vars => [\A c \in Callers :
          call[c] = "reset" /\ call'[c] = "idle" =>
            ~tracker' /\ ~joinable' /\ worker' \notin Running]_vars
  BY <1>1 DEF vars
<1>3. QED
  BY <1>2, Inductive, PTL DEF Spec, StopLeavesNothing

-----------------------------------------------------------------------------
(***************************************************************************)
(* The steps above are critical sections, and what lets them end is that   *)
(* the threads never wait for each other in a circle: module Mutexes, for  *)
(* any number of callers.  Ordered is the inductive invariant; that it     *)
(* excludes a circle takes no induction over the circle, because there are *)
(* only three mutexes.                                                     *)
(***************************************************************************)

LockInv == LocksTypeOK /\ Ordered

LEMMA InitLockInv == LocksInit => LockInv
  BY DEF LocksInit, LockInv, LocksTypeOK, Ordered, Locks, Threads

LEMMA NextLockInv == LockInv /\ [LocksNext]_lockVars => LockInv'
<1> SUFFICES ASSUME LockInv, [LocksNext]_lockVars PROVE LockInv'
  OBVIOUS
<1> USE MutexesAssumption DEF LockInv
<1>1. ASSUME NEW t \in Threads, NEW l \in Locks, Request(t, l)
      PROVE  LockInv'
  BY <1>1 DEF Request, Asks, ToxAsks, HttpAsks,
     CallerAsks, LocksTypeOK, Ordered, Threads, Locks
<1>2. ASSUME NEW t \in Threads, Grant(t) PROVE LockInv'
  BY <1>2 DEF Grant, LocksTypeOK, Ordered, Threads, Locks
<1>3. ASSUME NEW t \in Threads, Release(t) PROVE LockInv'
  BY <1>3 DEF Release, LocksTypeOK, Ordered, Threads, Locks
<1>4. ASSUME NEW c \in ApiThreads, Spawn(c) PROVE LockInv'
  BY <1>4 DEF Spawn, LocksTypeOK, Ordered, Threads, Locks
<1>5. ASSUME NEW c \in ApiThreads, PushCommand(c) PROVE LockInv'
  BY <1>5 DEF PushCommand, LocksTypeOK, Ordered, Threads, Locks
<1>6. ASSUME NEW c \in ApiThreads, Joined(c) PROVE LockInv'
  BY <1>6 DEF Joined, LocksTypeOK, Ordered, Threads, Locks
<1>7. ASSUME Exit PROVE LockInv'
  BY <1>7 DEF Exit, LocksTypeOK, Ordered, Threads, Locks
<1>8. CASE UNCHANGED lockVars
  BY <1>8 DEF lockVars, LocksTypeOK, Ordered
<1> QED
  BY <1>1, <1>2, <1>3, <1>4, <1>5, <1>6, <1>7, <1>8 DEF LocksNext

LEMMA LockInvariance == LocksSpec => []LockInv
  BY InitLockInv, NextLockInv, PTL DEF LocksSpec

\* The types of the variables, and that no mutex is locked twice by a thread.
THEOREM LockTypes == LocksSpec => []LocksTypeOK
  BY LockInvariance, PTL DEF LockInv

\* In a circle of waiting threads nobody could wait for the database, because
\* its holder waits for nothing; so nobody for the tracker, and so nobody for
\* the client; and the tracker thread joins nobody.
LEMMA OrderedSuffices == LockInv => NoDeadlock
<1> SUFFICES ASSUME LockInv, NEW S \in SUBSET Threads, S # {},
                    \A t \in S : \E u \in S : WaitsFor(t, u)
             PROVE  FALSE
  BY DEF NoDeadlock
<1> USE MutexesAssumption DEF LockInv
<1>1. \A t \in S : held[t] # {} => wants[t] # "none"
  BY DEF WaitsFor, Ordered, LocksTypeOK, Locks, Threads
<1>2. \A t \in S : wants[t] # "db"
  BY <1>1 DEF WaitsFor, Ordered, LocksTypeOK, Locks, Threads
<1>3. \A t \in S : wants[t] # "tracker"
  BY <1>1, <1>2 DEF WaitsFor, Ordered, LocksTypeOK, Locks, Threads
<1>4. \A t \in S : wants[t] # "client"
  BY <1>1, <1>2, <1>3 DEF WaitsFor, Ordered, LocksTypeOK, Locks, Threads
<1>5. \A t \in S : t \in joining /\ Http \in S
  BY <1>2, <1>3, <1>4 DEF WaitsFor, LocksTypeOK, Locks
<1> QED
  BY <1>5 DEF LocksTypeOK

\* The three threads, and any number of callers, never wait for each other in
\* a circle.
THEOREM DeadlockFree == LocksSpec => []NoDeadlock
  BY LockInvariance, OrderedSuffices, PTL

=============================================================================
