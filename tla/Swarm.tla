-------------------------------- MODULE Swarm --------------------------------
(***************************************************************************)
(* Several ttt processes and their torrent clients: the torrent database   *)
(* of each (torrent_db.hpp), written by the announces of the local torrent *)
(* client (http_handle_announce, tracker.cpp) and by the packages of tox   *)
(* friends (announce_recv_callback, ext_announce.cpp), and the peers the   *)
(* tracker answers with.                                                   *)
(*                                                                         *)
(* Which torrents go into which package is the business of module          *)
(* Announce, which ports are advertised and when that of module Tunnel;    *)
(* here a package is any batch of shared torrents, and a tunnel to a       *)
(* friend is there or not.  A node stands for the friend number the others *)
(* have for it; module ToxClient is about those numbers.                   *)
(***************************************************************************)
EXTENDS Naturals, FiniteSets

CONSTANTS
    Nodes,      \* ttt processes
    Friendship, \* pairs {n, m} of nodes that are tox friends
    Torrents,   \* info hashes
    Batch       \* info_hashes_max_size (4)

ASSUME SwarmAssumption ==
    /\ Friendship \subseteq {{n, m} : n \in Nodes, m \in Nodes}
    /\ \A n \in Nodes : {n} \notin Friendship

VARIABLES
    online,     \* the pairs of Friendship that are connected
    compatible, \* compatible[n]: friends n has negotiated announcing with
    peers,      \* keys of torrent_db.peers of n: friends with a tunnel
    torrents,   \* torrent_db.torrents of n
    packages,   \* packages on the way
    ever        \* ever[n]: torrents the torrent client of n ever announced

vars == <<online, compatible, peers, torrents, packages, ever>>

\* TorrentDB::TorrentEntry
Entry == [self : BOOLEAN, friends : SUBSET Nodes]
NewEntry == [self |-> FALSE, friends |-> {}]

\* torrents[t] of a std::unordered_map
Lookup(db, t) == IF t \in DOMAIN db THEN db[t] ELSE NewEntry

Empty == [t \in {} |-> NewEntry]

Init ==
    /\ online = {}
    /\ compatible = [n \in Nodes |-> {}]
    /\ peers = [n \in Nodes |-> {}]
    /\ torrents = [n \in Nodes |-> Empty]
    /\ packages = {}
    /\ ever = [n \in Nodes |-> {}]

-----------------------------------------------------------------------------
(* tox *)

Connect(n, m) ==
    /\ {n, m} \in Friendship \ online
    /\ online' = online \cup {{n, m}}
    /\ UNCHANGED <<compatible, peers, torrents, packages, ever>>

Between(n, m) == {p \in packages : {p.from, p.to} = {n, m}}

Disconnect(n, m) ==
    /\ {n, m} \in online
    /\ online' = online \ {{n, m}}
    /\ packages' = packages \ Between(n, m)
    /\ UNCHANGED <<compatible, peers, torrents, ever>>

-----------------------------------------------------------------------------
(* The tox thread of n *)

\* announce_negotiate_connection_callback
Negotiate(n, m, comp) ==
    /\ {n, m} \in online
    /\ compatible' = [compatible EXCEPT
            ![n] = IF comp THEN @ \cup {m} ELSE @ \ {m}]
    /\ UNCHANGED <<online, peers, torrents, packages, ever>>

\* mutant: the connection is not looked at
AdvertiseAnyone(n, m) ==
    /\ peers' = [peers EXCEPT ![n] = @ \cup {m}]
    /\ UNCHANGED <<online, compatible, torrents, packages, ever>>

\* ToxExtTunnelUDP2::tick
Advertise(n, m) ==
    /\ {n, m} \in online
    /\ peers' = [peers EXCEPT ![n] = @ \cup {m}]
    /\ UNCHANGED <<online, compatible, torrents, packages, ever>>

StopAdvertising(n, m) ==
    /\ {n, m} \notin online
    /\ peers' = [peers EXCEPT ![n] = @ \ {m}]
    /\ UNCHANGED <<online, compatible, torrents, packages, ever>>

\* mutant: everything in the database is announced
KnownTo(n) == DOMAIN torrents[n]

\* "no relay, so no gossip"
Announceable(n) == {t \in DOMAIN torrents[n] : torrents[n][t].self}

\* ToxExtAnnounce::tick and announce_send; a send that fails is a package
\* that does not get on the way, which Announce has in its steps.
SendAnnounce(n, m, ts) ==
    /\ {n, m} \in online
    /\ m \in compatible[n]
    /\ ts # {} /\ ts \subseteq Announceable(n)
    /\ Cardinality(ts) <= Batch
    /\ packages' = packages \cup {[from |-> n, to |-> m, info_hashes |-> ts]}
    /\ UNCHANGED <<online, compatible, peers, torrents, ever>>

\* mutant: what a friend shares counts as shared here
HeldAsSelf(db, p) ==
    [t \in DOMAIN db \cup p.info_hashes |->
        IF t \in p.info_hashes
        THEN [self |-> TRUE, friends |-> Lookup(db, t).friends \cup {p.from}]
        ELSE db[t]]

\* mutant: an entry that is there is left alone
HeldIfNew(db, p) ==
    [t \in DOMAIN db \cup p.info_hashes |->
        IF t \in DOMAIN db THEN db[t] ELSE [self |-> FALSE, friends |-> {p.from}]]

\* The database db after a package: its sender holds what it announces.
Held(db, p) ==
    [t \in DOMAIN db \cup p.info_hashes |->
        IF t \in p.info_hashes
        THEN [self |-> Lookup(db, t).self,
              friends |-> Lookup(db, t).friends \cup {p.from}]
        ELSE db[t]]

\* announce_recv_callback, under torrent_db_mutex
Receive(p) ==
    /\ p \in packages
    /\ packages' = packages \ {p}
    /\ torrents' = [torrents EXCEPT ![p.to] = Held(@, p)]
    /\ UNCHANGED <<online, compatible, peers, ever>>

-----------------------------------------------------------------------------
(* The tracker thread of n *)

\* The database db once the local torrent client has announced t.
Owned(db, t) ==
    [u \in DOMAIN db \cup {t} |->
        IF u = t THEN [self |-> TRUE, friends |-> Lookup(db, t).friends] ELSE db[u]]

\* http_handle_announce with a proper info_hash, under both mutexes
HttpAnnounce(n, t) ==
    /\ ever' = [ever EXCEPT ![n] = @ \cup {t}]
    /\ torrents' = [torrents EXCEPT ![n] = Owned(@, t)]
    /\ UNCHANGED <<online, compatible, peers, packages>>

\* The peers it answers with: the friends that announced t and have a tunnel
\* now.
Answer(n, t) == Lookup(torrents[n], t).friends \cap peers[n]

-----------------------------------------------------------------------------
\* The process of n ends, for whatever reason, and is started again.  Only
\* tox keeps anything; the torrent client keeps running.
Restart(n) ==
    /\ online' = {pair \in online : n \notin pair}
    /\ compatible' = [compatible EXCEPT ![n] = {}]
    /\ peers' = [peers EXCEPT ![n] = {}]
    /\ torrents' = [torrents EXCEPT ![n] = Empty]
    /\ packages' = {p \in packages : n \notin {p.from, p.to}}
    /\ UNCHANGED ever

Next ==
    \/ \E n \in Nodes, m \in Nodes :
        \/ Connect(n, m) \/ Disconnect(n, m)
        \/ \E comp \in BOOLEAN : Negotiate(n, m, comp)
        \/ Advertise(n, m) \/ StopAdvertising(n, m)
        \/ \E ts \in SUBSET Torrents : SendAnnounce(n, m, ts)
    \/ \E p \in packages : Receive(p)
    \/ \E n \in Nodes, t \in Torrents : HttpAnnounce(n, t)
    \/ \E n \in Nodes : Restart(n)

\* Both threads of each process keep running, tox delivers, every shared
\* torrent gets its turn (EveryFriendLearns of Announce), and a torrent
\* client announces what it shares again and again, as the interval of 60
\* seconds in each answer tells it to.
Fairness ==
    \A n \in Nodes :
        /\ \A t \in Torrents : WF_vars(t \in ever[n] /\ HttpAnnounce(n, t))
        /\ \A m \in Nodes \ {n} :
            /\ WF_vars(Advertise(n, m)) /\ WF_vars(StopAdvertising(n, m))
            /\ \A t \in Torrents :
                /\ WF_vars(\E ts \in SUBSET Torrents :
                                t \in ts /\ SendAnnounce(n, m, ts))
                /\ WF_vars(\E p \in Between(n, m) :
                                p.from = n /\ t \in p.info_hashes /\ Receive(p))

Spec == Init /\ [][Next]_vars /\ Fairness

-----------------------------------------------------------------------------
(* Properties. *)

Package == [from : Nodes, to : Nodes, info_hashes : SUBSET Torrents]

TypeOK ==
    /\ online \subseteq Friendship
    /\ compatible \in [Nodes -> SUBSET Nodes]
    /\ peers \in [Nodes -> SUBSET Nodes]
    /\ \A n \in Nodes : \A m \in peers[n] : {n, m} \in Friendship
    /\ DOMAIN torrents = Nodes
    /\ \A n \in Nodes :
        /\ DOMAIN torrents[n] \subseteq Torrents
        /\ torrents[n] \in [DOMAIN torrents[n] -> Entry]
    /\ packages \subseteq Package
    /\ \A p \in packages : {p.from, p.to} \in online
    /\ ever \in [Nodes -> SUBSET Torrents]

\* A process takes a torrent for its own, or for a friend's, only if that
\* one's torrent client announced it, and so it is with what it tells others:
\* a torrent it has only heard of is never passed on, over any number of
\* friends and restarts.
NoGossip ==
    /\ \A n \in Nodes : \A t \in DOMAIN torrents[n] :
        /\ torrents[n][t].self => t \in ever[n]
        /\ \A f \in torrents[n][t].friends : t \in ever[f]
    /\ \A p \in packages : p.info_hashes \subseteq ever[p.from]

\* No process learns of a torrent from anyone but the friend that shares it:
\* the databases together implement Rendezvous.
Known == [n \in Nodes |->
    {k \in Nodes \X Torrents :
        /\ k[2] \in DOMAIN torrents[n]
        /\ k[1] \in torrents[n][k[2]].friends}]

RV == INSTANCE Rendezvous WITH shared <- ever, known <- Known

ImplementsRendezvous == RV!Spec

\* Two friends that stay online and compatible and whose torrent clients
\* share a torrent find each other, whatever was lost or restarted before:
\* from some time on the answers to each one name the other.
FriendsMeet ==
    \A n \in Nodes : \A f \in Nodes \ {n}, t \in Torrents :
        (/\ <>[]({n, f} \in online /\ n \in compatible[f])
         /\ <>(t \in ever[n]) /\ <>(t \in ever[f]))
            => <>[](f \in Answer(n, t))

=============================================================================
