---------------------------- MODULE FriendNumbers ----------------------------
(***************************************************************************)
(* What the tox client keeps of its friends by their numbers, and numbers  *)
(* that are freed and given to somebody else: the announce extension's     *)
(* friend_compatible (ext_announce), the tunnel extension's                *)
(* friend_compatible and tunnels (ext_tunnel_udp2), and the friends of a   *)
(* torrent in the database, which the tracker answers with.                *)
(*                                                                         *)
(* It composes the callbacks, chat commands and ticks of one process: in   *)
(* one iteration of tox_client_thread_fn, under _tox_client_mutex, come    *)
(* some callbacks, then the ticks of the extensions; then it sleeps.       *)
(***************************************************************************)
EXTENDS ToxFriends

CONSTANTS MaxFriends \* bound: friends at a time

ASSUME MaxFriendsAssumption == MaxFriends \in 0 .. Cardinality(Keys)

VARIABLES
    fresh,      \* friends that were added in this iteration
    up,         \* friends that are online
    entries,    \* ToxExtAnnounce::friend_compatible, with the friend that was
                \* negotiated with
    compatible, \* ToxExtTunnelUDP2::friend_compatible; FALSE as absent
    tunnels,    \* _tunnels, with the friend that each was made for
    holders,    \* torrent_tox_info.friends of a torrent
    told,       \* friends that announced the torrent
    freed,      \* numbers that a friend was removed from
    phase       \* "iterating" or "asleep"

kept == <<entries, compatible, tunnels, holders>>
ghosts == <<told, freed>>
vars == <<friends, fresh, up, kept, ghosts, phase>>

Init ==
    /\ friends = NoFriends
    /\ fresh = {} /\ up = {}
    /\ entries = NoFriends
    /\ compatible = {}
    /\ tunnels = NoFriends
    /\ holders = {}
    /\ told = {} /\ freed = {}
    /\ phase = "asleep"

-----------------------------------------------------------------------------
(* The callbacks of tox_iterate *)

Iterate ==
    /\ phase = "asleep"
    /\ phase' = "iterating"
    /\ fresh' = {}
    /\ UNCHANGED <<friends, up, kept, ghosts>>

\* friend_request_cb and chat_command_friend_add
Befriend(k) ==
    /\ phase = "iterating"
    /\ k \notin Range(friends) /\ Cardinality(DOMAIN friends) < MaxFriends
    /\ friends' = AddFriend(friends, k)
    /\ fresh' = fresh \cup {k}
    /\ UNCHANGED <<up, kept, ghosts, phase>>

\* chat_command_friend_remove, by a friend that is online.  What is kept by
\* the number stays.
Delete(k) ==
    /\ phase = "iterating"
    /\ up # {} /\ k \in Range(friends)
    /\ friends' = RemoveFriend(friends, k)
    /\ up' = up \ {k}
    /\ freed' = freed \cup {n \in DOMAIN friends : friends[n] = k}
    /\ told' = told \ {k}
    /\ UNCHANGED <<fresh, kept, phase>>

\* friend_connection_status_cb.  A friend that was added in this iteration
\* cannot be online before the next: tox has to find it first.
Online(k) ==
    /\ phase = "iterating"
    /\ k \in Range(friends) \ (up \cup fresh)
    /\ up' = up \cup {k}
    /\ UNCHANGED <<friends, fresh, kept, ghosts, phase>>

Offline(k) ==
    /\ phase = "iterating"
    /\ k \in up
    /\ up' = up \ {k}
    /\ UNCHANGED <<friends, fresh, kept, ghosts, phase>>

\* The friend with number n answers or asks.
From(n) == phase = "iterating" /\ n \in DOMAIN friends /\ friends[n] \in up

\* announce_negotiate_connection_callback
NegotiateAnnounce(n) ==
    /\ From(n)
    /\ entries' = Put(entries, n, friends[n])
    /\ UNCHANGED <<friends, fresh, up, compatible, tunnels, holders, ghosts, phase>>

\* tunnel_udp_negotiate_connection_callback
NegotiateTunnel(n, comp) ==
    /\ From(n)
    /\ compatible' = IF comp THEN compatible \cup {n} ELSE compatible \ {n}
    /\ UNCHANGED <<friends, fresh, up, entries, tunnels, holders, ghosts, phase>>

\* announce_recv_callback
ReceiveAnnounce(n) ==
    /\ From(n)
    /\ holders' = holders \cup {n}
    /\ told' = told \cup {friends[n]}
    /\ UNCHANGED <<friends, fresh, up, entries, compatible, tunnels, freed, phase>>

-----------------------------------------------------------------------------
(* ToxExtTunnelUDP2::tick *)

\* tox_friend_get_connection_status, which is NONE also for an unknown number
IsOnline(n) == n \in DOMAIN friends /\ friends[n] \in up

\* mutant: a number that is not a friend's does not count as offline
GoneFriendsOnly == {n \in DOMAIN tunnels \cap DOMAIN friends : ~IsOnline(n)}

\* The tunnels that are destroyed
Gone == {n \in DOMAIN tunnels : ~IsOnline(n)}

Tick ==
    /\ phase = "iterating"
    /\ phase' = "asleep"
    \* opened: those of the new tunnels a port is found for
    /\ \E opened \in SUBSET {n \in compatible \ DOMAIN tunnels : IsOnline(n)} :
        tunnels' = [n \in (DOMAIN tunnels \ Gone) \cup opened |->
                    IF n \in opened THEN friends[n] ELSE tunnels[n]]
    /\ compatible' = {n \in compatible \ Gone : n \in DOMAIN tunnels \/ IsOnline(n)}
    /\ UNCHANGED <<friends, fresh, up, entries, holders, ghosts>>

-----------------------------------------------------------------------------
\* mutant: the database is loaded again, by the old numbers
RestartWithHolders ==
    /\ friends' = Numbered(InOrder(friends))
    /\ fresh' = {} /\ up' = {}
    /\ entries' = NoFriends
    /\ compatible' = {}
    /\ tunnels' = NoFriends
    /\ freed' = {}
    /\ phase' = "asleep"
    /\ UNCHANGED <<holders, told>>

\* The process ends and is started again with what it saved: all that is kept
\* by number is gone, and the numbers are new.
Restart ==
    /\ friends' = Numbered(InOrder(friends))
    /\ fresh' = {} /\ up' = {}
    /\ entries' = NoFriends
    /\ compatible' = {}
    /\ tunnels' = NoFriends
    /\ holders' = {}
    /\ told' = {} /\ freed' = {}
    /\ phase' = "asleep"

Next ==
    \/ Iterate
    \/ \E k \in Keys : Befriend(k) \/ Delete(k) \/ Online(k) \/ Offline(k)
    \/ \E n \in Numbers :
        \/ NegotiateAnnounce(n) \/ ReceiveAnnounce(n)
        \/ \E comp \in BOOLEAN : NegotiateTunnel(n, comp)
    \/ Tick
    \/ Restart

Spec == Init /\ [][Next]_vars

-----------------------------------------------------------------------------
(* Properties. *)

MapsToKeys == UNION {[ns -> Keys] : ns \in SUBSET Numbers}

TypeOK ==
    /\ friends \in MapsToKeys
    /\ IsInjective(friends)
    /\ fresh \subseteq Keys
    /\ up \subseteq Range(friends) \ fresh
    /\ entries \in MapsToKeys
    /\ compatible \subseteq Numbers
    /\ tunnels \in MapsToKeys
    /\ holders \subseteq Numbers
    /\ told \subseteq Range(friends)
    /\ freed \subseteq Numbers
    /\ phase \in {"iterating", "asleep"}

\* Whoever is online under a number has its own tunnel there or none, even if
\* the number was somebody else's before: no datagram goes to, or is taken
\* from, a friend through a tunnel that was made for another.  When the mutex
\* is free, there are no tunnels but those of friends that are online.
TunnelsOfTheirFriends ==
    \A n \in DOMAIN tunnels :
        /\ IsOnline(n) => tunnels[n] = friends[n]
        /\ phase = "asleep" => IsOnline(n)

\* What the announce extension and the database know of a number is of the
\* friend that has it, unless a friend had it before and was removed since
\* the process started.
MistakenByReuseOnly ==
    \A n \in DOMAIN friends \ freed :
        /\ n \in DOMAIN entries => entries[n] = friends[n]
        /\ n \in holders <=> friends[n] \in told

=============================================================================
