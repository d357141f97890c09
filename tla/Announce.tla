------------------------------ MODULE Announce ------------------------------
(***************************************************************************)
(* How one ttt process tells its friends which torrents it shares:         *)
(* ToxExtAnnounce::tick (ext_announce.cpp), fed by the announces of the    *)
(* local torrent client (tracker.cpp) and by the callbacks of the tox      *)
(* client thread.                                                          *)
(*                                                                         *)
(* Every announce_interval a friend that is online and compatible gets one *)
(* package of at most info_hashes_max_size torrents: the ones with the     *)
(* highest time since they were last put into a package.  Each friend has  *)
(* its own timers.                                                         *)
(*                                                                         *)
(* The tick visits a friend under torrent_db_mutex and frees the mutex     *)
(* between two friends, so the tracker thread can add a torrent in the     *)
(* middle of a tick; the callbacks run before it, on the same thread.      *)
(*                                                                         *)
(* Time is counted in whole intervals, the grain the code compares it at:  *)
(* every addition to a torrent's time is announce_interval.                *)
(***************************************************************************)
EXTENDS Naturals, FiniteSets

CONSTANTS
    Friends,        \* friend numbers
    Torrents,       \* the info hashes
    Batch,          \* info_hashes_max_size (4)
    Interval,       \* ticks per announce_interval (30000)
    Prio,           \* initial_time (1000000.f), in intervals
    MaxHashless,    \* bound: invalid announces of the torrent client
    MaxSlots        \* bound: timers of torrents without info hash per friend

Slots == 1 .. MaxSlots

ASSUME AnnounceAssumption ==
    /\ IsFiniteSet(Torrents)
    /\ Batch \in Nat \ {0}
    /\ Interval \in Nat \ {0}
    /\ Prio \in Nat
    /\ Batch * Prio > Cardinality(Torrents)
    /\ MaxHashless \in Nat
    /\ MaxSlots \in Nat
    /\ Torrents \cap Slots = {}

VARIABLES
    conn,       \* conn[f]: tox_friend_get_connection_status(f) # NONE
    compatible, \* friend_compatible[f]: "unknown" is a missing key
    self,       \* torrents of torrent_db with self set
    hashless,   \* number of its entries with self set and no info hash
    todo,       \* friends the tick has yet to visit; {} between two ticks
    timer,      \* friend_announce_timer[f].timer, in ticks
    times,      \* friend_announce_timer[f].torrent_timers: the time of each
                \* torrent, and of each slot, a copy of one without a hash
    passed,     \* passed[f][t]: packages to f since t was last in one
    learned     \* torrents f knows of from this process

vars == <<conn, compatible, self, hashless, todo, timer, times, passed, learned>>

Init ==
    /\ conn = [f \in Friends |-> FALSE]
    /\ compatible = [f \in Friends |-> "unknown"]
    /\ self = {}
    /\ hashless = 0
    /\ todo = {}
    /\ timer = [f \in Friends |-> 0]
    /\ times = [f \in Friends |-> [t \in {} |-> 0]]
    /\ passed = [f \in Friends |-> [t \in Torrents |-> 0]]
    /\ learned = [f \in Friends |-> {}]

-----------------------------------------------------------------------------
(* The callbacks of the tox client thread. *)

FriendOnline(f) ==
    /\ todo = {}
    /\ ~conn[f]
    /\ conn' = [conn EXCEPT ![f] = TRUE]
    /\ UNCHANGED <<compatible, self, hashless, todo, timer, times, passed, learned>>

\* The friend may have quit, and then it has forgotten what it was told;
\* this process notices no difference.
FriendOffline(f) ==
    /\ todo = {}
    /\ conn[f]
    /\ conn' = [conn EXCEPT ![f] = FALSE]
    /\ \E kept \in {learned[f], {}} : learned' = [learned EXCEPT ![f] = kept]
    /\ UNCHANGED <<compatible, self, hashless, todo, timer, times, passed>>

\* announce_negotiate_connection_callback.  An entry is never erased.
NegotiateAnswer(f, comp) ==
    /\ todo = {}
    /\ conn[f]
    /\ compatible' = [compatible EXCEPT ![f] = comp]
    /\ UNCHANGED <<conn, self, hashless, todo, timer, times, passed, learned>>

-----------------------------------------------------------------------------
(* The tracker thread: http_handle_announce. *)

HttpAnnounce(t) ==
    /\ self' = self \cup {t}
    /\ UNCHANGED <<conn, compatible, hashless, todo, timer, times, passed, learned>>

\* A missing or malformed info_hash is answered with an error, but the
\* handler goes on: a Torrent without hash equals none, so each such request
\* adds one more entry with self set.
HttpAnnounceInvalid ==
    /\ hashless < MaxHashless
    /\ hashless' = hashless + 1
    /\ UNCHANGED <<conn, compatible, self, todo, timer, times, passed, learned>>

-----------------------------------------------------------------------------
(* ToxExtAnnounce::tick *)

Eligible == {f \in Friends : compatible[f] = "yes" /\ conn[f]}

BeginTick ==
    /\ todo = {}
    /\ Eligible # {}
    /\ todo' = Eligible
    /\ UNCHANGED <<conn, compatible, self, hashless, timer, times, passed, learned>>

\* mutant: friend_timer is a copy, not a reference
CountOnCopy(f) ==
    /\ f \in todo
    /\ timer[f] + 1 < Interval
    /\ todo' = todo \ {f}
    /\ UNCHANGED <<conn, compatible, self, hashless, timer, times, passed, learned>>

Count(f) ==
    /\ f \in todo
    /\ timer[f] + 1 < Interval
    /\ timer' = [timer EXCEPT ![f] = timer[f] + 1]
    /\ todo' = todo \ {f}
    /\ UNCHANGED <<conn, compatible, self, hashless, times, passed, learned>>

\* mutant: the timer of the friend is not set back
DueWithoutReset(f) ==
    /\ f \in todo
    /\ timer[f] + 1 >= Interval
    /\ timer' = [timer EXCEPT ![f] = timer[f] + 1]
    /\ todo' = todo \ {f}

Due(f) ==
    /\ f \in todo
    /\ timer[f] + 1 >= Interval
    /\ timer' = [timer EXCEPT ![f] = 0]
    /\ todo' = todo \ {f}

NothingToAnnounce(f) ==
    /\ Due(f)
    /\ self = {} /\ hashless = 0
    /\ UNCHANGED <<conn, compatible, self, hashless, times, passed, learned>>

\* A torrent without hash is found in no list of timers, so each package
\* adds a timer for every one of them again.
NewSlots(f) ==
    LET used == Cardinality(DOMAIN times[f] \cap Slots)
    IN  used + 1 .. used + hashless

\* mutant: a new torrent queues up behind all others
UpdatedAtZero(f) ==
    [e \in DOMAIN times[f] \cup self \cup NewSlots(f) |->
        IF e \in DOMAIN times[f] THEN times[f][e] + 1 ELSE 0]

\* "add time" and "update client specific torrent timers"
Updated(f) ==
    [e \in DOMAIN times[f] \cup self \cup NewSlots(f) |->
        IF e \in DOMAIN times[f] THEN times[f][e] + 1 ELSE Prio]

BatchSize(tm) ==
    IF Cardinality(DOMAIN tm) < Batch THEN Cardinality(DOMAIN tm) ELSE Batch

\* mutant: the timers are not sorted
AnyBatch(tm) == {S \in SUBSET DOMAIN tm : Cardinality(S) = BatchSize(tm)}

\* The first Batch entries of the sorted timers, ties in any order.
Highest(tm) ==
    {S \in SUBSET DOMAIN tm :
        /\ Cardinality(S) = BatchSize(tm)
        /\ \A e \in S, u \in DOMAIN tm \ S : tm[e] >= tm[u]}

\* Failing to send, or a package of nothing but torrents without hash, is
\* logged and otherwise ignored: the times of the batch are reset.
AnnounceTo(f, sent) ==
    /\ Due(f)
    /\ self # {} \/ hashless > 0
    /\ NewSlots(f) \subseteq Slots
    /\ \E S \in Highest(Updated(f)) :
         /\ times' = [times EXCEPT ![f] =
                [e \in DOMAIN Updated(f) |-> IF e \in S THEN 0 ELSE Updated(f)[e]]]
         /\ passed' = [passed EXCEPT ![f] =
                [t \in Torrents |-> IF t \in self \ S THEN @[t] + 1 ELSE 0]]
         /\ learned' = IF sent
                       THEN [learned EXCEPT ![f] = @ \cup (S \cap Torrents)]
                       ELSE learned
    /\ UNCHANGED <<conn, compatible, self, hashless>>

-----------------------------------------------------------------------------
VisitFriend(f) ==
    \/ Count(f)
    \/ NothingToAnnounce(f)
    \/ \E sent \in BOOLEAN : AnnounceTo(f, sent)

Next ==
    \/ \E f \in Friends :
        \/ FriendOnline(f)
        \/ FriendOffline(f)
        \/ \E comp \in {"no", "yes"} : NegotiateAnswer(f, comp)
        \/ VisitFriend(f)
    \/ \E t \in Torrents : HttpAnnounce(t)
    \/ HttpAnnounceInvalid
    \/ BeginTick

\* The tox client thread never leaves its loop, and a torrent that is put
\* into a package for a friend again and again is not lost every time.
Fairness ==
    /\ WF_vars(BeginTick)
    /\ \A f \in Friends :
        /\ WF_vars(VisitFriend(f))
        /\ \A t \in Torrents : SF_vars(AnnounceTo(f, TRUE) /\ t \in learned'[f])

Spec == Init /\ [][Next]_vars /\ Fairness

-----------------------------------------------------------------------------
(* Properties. *)

TypeOK ==
    /\ conn \in [Friends -> BOOLEAN]
    /\ compatible \in [Friends -> {"unknown", "no", "yes"}]
    /\ self \subseteq Torrents
    /\ hashless \in 0 .. MaxHashless
    /\ todo \subseteq Eligible
    /\ timer \in [Friends -> 0 .. Interval - 1]
    /\ DOMAIN times = Friends
    /\ \A f \in Friends :
        /\ DOMAIN times[f] \subseteq self \cup Slots
        /\ times[f] \in [DOMAIN times[f] -> Nat]
    /\ passed \in [Friends -> [Torrents -> Nat]]
    /\ learned \in [Friends -> SUBSET Torrents]

\* While n torrents are shared, no torrent is passed over more than
\* (n - 1) \div Batch packages in a row, however new torrents, each of which
\* overtakes all others, come in between.
PassedBound ==
    \A f \in Friends, t \in self : Batch * passed[f][t] < Cardinality(self)

\* The rotation is fair as long as every announce of the torrent client had
\* a proper info hash.
RotationFair == hashless = 0 => PassedBound

\* The time the packages are sorted by is the time since the torrent was last
\* announced, and adding it up never takes a torrent past initial_time, so a
\* torrent that is new to the friend is ahead of all others.
TimesTellPassed ==
    hashless = 0 =>
        \A f \in Friends : \A t \in self \cap DOMAIN times[f] :
            times[f][t] = IF times[f][t] < Prio THEN passed[f][t]
                                                ELSE Prio + passed[f][t] - 1

\* A friend that stays online and compatible learns of every shared torrent,
\* and keeps on knowing, however often it restarted before.
EveryFriendLearns ==
    \A f \in Friends, t \in Torrents :
        /\ <>[](conn[f] /\ compatible[f] = "yes")
        /\ <>(t \in self)
        /\ [](hashless = 0)
        => <>[](t \in learned[f])

=============================================================================
