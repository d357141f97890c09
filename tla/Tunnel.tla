------------------------------- MODULE Tunnel -------------------------------
(***************************************************************************)
(* The lifecycle of the UDP tunnels of one ttt process: the create and     *)
(* destroy blocks of ToxExtTunnelUDP2::tick (ext_tunnel_udp2.cpp), the     *)
(* negotiation callback that feeds them, the advertisements they keep in   *)
(* torrent_db.peers, and the local UDP ports they take from the operating  *)
(* system.                                                                 *)
(*                                                                         *)
(* One loop of tox_client_thread_fn is tox_iterate, in which the callbacks *)
(* run, followed by the tick.  Both run under the tox client's mutex, so   *)
(* callbacks and tick never interleave.  The tracker thread and the other  *)
(* programs of the machine do interleave with the tick: the former reads   *)
(* peers whenever torrent_db_mutex is free, the latter take and give back  *)
(* ports at any time.  Every state of this module is a state in which      *)
(* torrent_db_mutex is free, because each of the two sections the tick     *)
(* locks it for is one action; an invariant over peers therefore holds for *)
(* every read the tracker can make.                                        *)
(*                                                                         *)
(* The std::maps are total functions here, with NoPort or "unknown" for a  *)
(* missing key, and the order in which a loop visits the keys of a map is  *)
(* left open.                                                              *)
(***************************************************************************)
EXTENDS Integers

CONSTANTS
    Friends,    \* friend numbers of this tox profile
    FirstPort,  \* first port of the scan (20000)
    LastPort,   \* last port of the scan (59999)
    Free,       \* a port no socket is bound to
    Other       \* the bind of the port fails: another program has it

NoPort == 0
Ports == FirstPort .. LastPort

ASSUME TunnelAssumption ==
    /\ FirstPort \in Nat \ {0}
    /\ LastPort \in Nat
    /\ FirstPort <= LastPort
    /\ Free \notin Friends
    /\ Other \notin Friends
    /\ Free # Other

VARIABLES
    conn,               \* conn[f]: tox_friend_get_connection_status(f) # NONE
    asked,              \* friends a negotiation is outstanding with
    friend_compatible,  \* friend_compatible[f]: "unknown" is a missing key
    tunnels,            \* tunnels[f]: the port of _tunnels[f], or NoPort
    peers,              \* torrent_db.peers[f], or NoPort
    owner,              \* owner[p]: whose socket is bound to port p
    pc,                 \* where the tox client thread is
    todo,               \* friends the current loop of the tick has yet to visit
    cur,                \* the friend it is at
    port                \* the port the scan is at

vars == <<conn, asked, friend_compatible, tunnels, peers, owner, pc, todo, cur, port>>

Init ==
    /\ conn = [f \in Friends |-> FALSE]
    /\ asked = {}
    /\ friend_compatible = [f \in Friends |-> "unknown"]
    /\ tunnels = [f \in Friends |-> NoPort]
    /\ peers = [f \in Friends |-> NoPort]
    /\ owner \in [Ports -> {Free, Other}]
    /\ pc = "iterate"
    /\ todo = {}
    /\ cur \in Friends
    /\ port = FirstPort

-----------------------------------------------------------------------------
(* The callbacks of tox_iterate and toxext_iterate. *)

\* friend_connection_status_cb with TOX_CONNECTION_NONE; a friend the user
\* deletes (friend_remove) reads as offline from then on, too.
FriendOffline(f) ==
    /\ pc = "iterate"
    /\ conn[f]
    /\ conn' = [conn EXCEPT ![f] = FALSE]
    /\ asked' = asked \ {f}
    /\ UNCHANGED <<friend_compatible, tunnels, peers, owner, pc, todo, cur, port>>

\* friend_connection_status_cb with TCP or UDP, which also reports a switch
\* between the two: the extensions are negotiated, again if need be.
FriendOnline(f) ==
    /\ pc = "iterate"
    /\ conn' = [conn EXCEPT ![f] = TRUE]
    /\ asked' = asked \cup {f}
    /\ UNCHANGED <<friend_compatible, tunnels, peers, owner, pc, todo, cur, port>>

\* tunnel_udp_negotiate_connection_callback: the friend's answer.
NegotiateAnswer(f, compatible) ==
    /\ pc = "iterate"
    /\ f \in asked
    /\ asked' = asked \ {f}
    /\ friend_compatible' = [friend_compatible EXCEPT ![f] = compatible]
    /\ UNCHANGED <<conn, tunnels, peers, owner, pc, todo, cur, port>>

-----------------------------------------------------------------------------
(* tick: destroy the tunnels to offline friends. *)

\* mutant: an incompatible friend loses its tunnel, too
OfflineOrIncompatible ==
    {f \in Friends : tunnels[f] # NoPort /\ (~conn[f] \/ friend_compatible[f] = "no")}

\* mutant: only compatible friends are looked at
OfflineCompatible ==
    {f \in Friends : tunnels[f] # NoPort /\ ~conn[f] /\ friend_compatible[f] = "yes"}

Offline == {f \in Friends : tunnels[f] # NoPort /\ ~conn[f]}

BeginDestroy ==
    /\ pc = "iterate"
    /\ pc' = "destroy"
    /\ todo' = Offline
    /\ UNCHANGED <<conn, asked, friend_compatible, tunnels, peers, owner, cur, port>>

\* mutant: the advertisement stays
CloseStillAdvertised(f) ==
    /\ pc = "destroy"
    /\ f \in todo
    /\ cur' = f
    /\ pc' = "close"
    /\ UNCHANGED <<conn, asked, friend_compatible, tunnels, peers, owner, todo, port>>

\* "first stop advertising", under torrent_db_mutex
StopAdvertising(f) ==
    /\ pc = "destroy"
    /\ f \in todo
    /\ peers' = [peers EXCEPT ![f] = NoPort]
    /\ cur' = f
    /\ pc' = "close"
    /\ UNCHANGED <<conn, asked, friend_compatible, tunnels, owner, todo, port>>

\* mutant: the tunnel is erased, its socket stays open
ForgetSocket ==
    /\ pc = "close"
    /\ tunnels' = [tunnels EXCEPT ![cur] = NoPort]
    /\ friend_compatible' = [friend_compatible EXCEPT ![cur] = "unknown"]
    /\ todo' = todo \ {cur}
    /\ pc' = "destroy"
    /\ UNCHANGED <<conn, asked, peers, owner, cur, port>>

CloseTunnel ==
    /\ pc = "close"
    /\ owner' = [owner EXCEPT ![tunnels[cur]] = Free]
    /\ tunnels' = [tunnels EXCEPT ![cur] = NoPort]
    /\ friend_compatible' = [friend_compatible EXCEPT ![cur] = "unknown"]
    /\ todo' = todo \ {cur}
    /\ pc' = "destroy"
    /\ UNCHANGED <<conn, asked, peers, cur, port>>

-----------------------------------------------------------------------------
(* tick: create tunnels to compatible friends. *)

\* mutant: an existing tunnel is not looked for
WantedAgain == {f \in Friends : friend_compatible[f] = "yes"}

Wanted == {f \in Friends : friend_compatible[f] = "yes" /\ tunnels[f] = NoPort}

BeginCreate ==
    /\ pc = "destroy"
    /\ todo = {}
    /\ pc' = "create"
    /\ todo' = Wanted
    /\ UNCHANGED <<conn, asked, friend_compatible, tunnels, peers, owner, cur, port>>

\* mutant: the offline friend stays compatible
SkipOffline(f) ==
    /\ pc = "create"
    /\ f \in todo
    /\ ~conn[f]
    /\ todo' = todo \ {f}
    /\ UNCHANGED <<conn, asked, friend_compatible, tunnels, peers, owner, pc, cur, port>>

\* An offline friend has to be negotiated with again when it comes back.
ForgetOffline(f) ==
    /\ pc = "create"
    /\ f \in todo
    /\ ~conn[f]
    /\ friend_compatible' = [friend_compatible EXCEPT ![f] = "unknown"]
    /\ todo' = todo \ {f}
    /\ UNCHANGED <<conn, asked, tunnels, peers, owner, pc, cur, port>>

ScanFrom(f, first) ==
    /\ pc = "create"
    /\ f \in todo
    /\ conn[f]
    /\ cur' = f
    /\ port' = first
    /\ pc' = "scan"
    /\ UNCHANGED <<conn, asked, friend_compatible, tunnels, peers, owner, todo>>

\* mutant: off by one
BeginScanAtZero(f) == ScanFrom(f, FirstPort - 1)

\* mutant: the scan goes on where the last one ended
ResumeScan(f) == ScanFrom(f, port)

BeginScan(f) == ScanFrom(f, FirstPort)

\* zed_net_udp_socket_open binds the port, or fails and the scan goes on
BindPort ==
    /\ pc = "scan"
    /\ port <= LastPort
    /\ owner[port] = Free
    /\ owner' = [owner EXCEPT ![port] = cur]
    /\ tunnels' = [tunnels EXCEPT ![cur] = port]
    /\ pc' = "advertise"
    /\ UNCHANGED <<conn, asked, friend_compatible, peers, todo, cur, port>>

NextPort ==
    /\ pc = "scan"
    /\ port <= LastPort
    /\ owner[port] # Free
    /\ port' = port + 1
    /\ UNCHANGED <<conn, asked, friend_compatible, tunnels, peers, owner, pc, todo, cur>>

\* no port in the range: the entry of _tunnels is erased again
GiveUp ==
    /\ pc = "scan"
    /\ port > LastPort
    /\ todo' = todo \ {cur}
    /\ pc' = "create"
    /\ UNCHANGED <<conn, asked, friend_compatible, tunnels, peers, owner, cur, port>>

\* "notify torrent_db of peer", under torrent_db_mutex
Advertise ==
    /\ pc = "advertise"
    /\ peers' = [peers EXCEPT ![cur] = tunnels[cur]]
    /\ todo' = todo \ {cur}
    /\ pc' = "create"
    /\ UNCHANGED <<conn, asked, friend_compatible, tunnels, owner, cur, port>>

EndTick ==
    /\ pc = "create"
    /\ todo = {}
    /\ pc' = "iterate"
    /\ UNCHANGED <<conn, asked, friend_compatible, tunnels, peers, owner, todo, cur, port>>

-----------------------------------------------------------------------------
(* The other programs of the machine. *)

OtherBinds(p) ==
    /\ owner[p] = Free
    /\ owner' = [owner EXCEPT ![p] = Other]
    /\ UNCHANGED <<conn, asked, friend_compatible, tunnels, peers, pc, todo, cur, port>>

OtherCloses(p) ==
    /\ owner[p] = Other
    /\ owner' = [owner EXCEPT ![p] = Free]
    /\ UNCHANGED <<conn, asked, friend_compatible, tunnels, peers, pc, todo, cur, port>>

-----------------------------------------------------------------------------
Callback ==
    \E f \in Friends :
        \/ FriendOffline(f)
        \/ FriendOnline(f)
        \/ \E compatible \in {"no", "yes"} : NegotiateAnswer(f, compatible)

Tick ==
    \/ BeginDestroy \/ CloseTunnel
    \/ BeginCreate \/ BindPort \/ NextPort \/ GiveUp \/ Advertise \/ EndTick
    \/ \E f \in Friends : StopAdvertising(f) \/ ForgetOffline(f) \/ BeginScan(f)

Others == \E p \in Ports : OtherBinds(p) \/ OtherCloses(p)

Next == Callback \/ Tick \/ Others

\* tox_client_thread_fn never leaves its loop: the tick always goes on.
Spec == Init /\ [][Next]_vars /\ WF_vars(Tick)

-----------------------------------------------------------------------------
(* Properties. *)

Steps == {"iterate", "destroy", "close", "create", "scan", "advertise"}

TypeOK ==
    /\ conn \in [Friends -> BOOLEAN]
    /\ asked \subseteq Friends
    /\ friend_compatible \in [Friends -> {"unknown", "no", "yes"}]
    /\ tunnels \in [Friends -> Ports \cup {NoPort}]
    /\ peers \in [Friends -> Ports \cup {NoPort}]
    /\ owner \in [Ports -> Friends \cup {Free, Other}]
    /\ pc \in Steps
    /\ todo \subseteq Friends
    /\ cur \in Friends
    /\ port \in FirstPort .. LastPort + 1

\* Whatever moment the tracker picks to read torrent_db.peers, each port it
\* can tell a torrent client is the port of an open tunnel to the friend it
\* stands for: never a closed one, another program's or another friend's.
AdvertisedIsOpen ==
    \A f \in Friends : peers[f] # NoPort =>
        /\ owner[peers[f]] = f
        /\ tunnels[f] = peers[f]

\* No socket is ever leaked or shared: a bound port is the port of the one
\* tunnel that will close it, and the port of a tunnel is bound.
SocketsAccounted ==
    /\ \A p \in Ports : owner[p] \in Friends => tunnels[owner[p]] = p
    /\ \A f \in Friends : tunnels[f] # NoPort => owner[tunnels[f]] = f

\* When a tick ends, exactly the open tunnels are advertised, no offline
\* friend has one, and an offline friend has to be negotiated with again.
TickSettles ==
    [][pc = "create" /\ pc' = "iterate" =>
         /\ peers' = tunnels'
         /\ \A f \in Friends : ~conn'[f] =>
              tunnels'[f] = NoPort /\ friend_compatible'[f] # "yes"]_vars

\* A friend that stays online keeps its tunnel and its port: the port a
\* torrent client was told stays good, whatever other friends or other
\* programs do, until the friend itself disconnects.
KeepWhileOnline ==
    [][\A f \in Friends : conn[f] /\ tunnels[f] # NoPort =>
         /\ tunnels'[f] = tunnels[f]
         /\ owner'[tunnels[f]] = f
         /\ peers[f] # NoPort => peers'[f] = peers[f]]_vars

\* The tunnel code implements the two-phase directory of PortDirectory.
Holder == [p \in Ports |-> IF owner[p] \in Friends THEN owner[p] ELSE Free]

Directory == INSTANCE PortDirectory WITH
    Nobody <- Free, holder <- Holder, published <- peers

ImplementsDirectory == Directory!Spec

\* A compatible friend that stays online is eventually advertised for good,
\* if some port of the range is not taken by others for good.
TunnelComesUp ==
    \A f \in Friends : \A p \in Ports :
        /\ <>[](conn[f] /\ friend_compatible[f] = "yes")
        /\ <>[](owner[p] \in {Free, f})
        => <>[](peers[f] # NoPort)

\* A friend that stays away is eventually neither advertised nor holding a
\* port.
TunnelGoesDown ==
    \A f \in Friends :
        <>[]~conn[f] => <>[](peers[f] = NoPort /\ \A p \in Ports : owner[p] # f)

=============================================================================
