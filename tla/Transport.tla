----------------------------- MODULE Transport -----------------------------
(***************************************************************************)
(* What travels through a tunnel: one direction of the tunnel between two  *)
(* ttt processes A and B that are tox friends.                             *)
(*                                                                         *)
(* A reads the datagrams its torrent client sends to the port of the       *)
(* tunnel (the first block of ToxExtTunnelUDP2::tick) and forwards each as *)
(* one lossy packet, if it fits, or cut into fragments that go over        *)
(* toxext, in order and lossless as long as the session lasts.  B's        *)
(* callbacks (friend_custom_pkg_cb) hand lossy packets on to its torrent   *)
(* client and append fragments to the reassembly buffer of the tunnel,     *)
(* which they hand on and clear when the last fragment is in.              *)
(*                                                                         *)
(* A fragment is a pair <<d, i>>, the i-th of datagram d, and what B hands *)
(* on is a sequence of fragments; nothing else of the contents matters.    *)
(* How tunnels come and go is modelled in detail by module Tunnel; here a  *)
(* process creates its tunnel in some tick while the other one is online   *)
(* and destroys it in some tick while it is not.                           *)
(***************************************************************************)
EXTENDS Integers, Sequences, FiniteSets

CONSTANTS
    Datagrams,  \* the datagrams A's torrent client sends, each of them once
    Size,       \* Size[d]: bytes of d
    SingleMax,  \* single_pkg_size_max: what fits a lossy packet
    FragMax,    \* TOXEXT_MAX_SEGMENT_SIZE - 1: what fits a fragment
    ReadMax,    \* buff_size_max - 1: what a tick can read
    MaxCopies   \* bound: how often a lossy packet arrives

Large(d) == SingleMax < Size[d] /\ Size[d] < ReadMax

\* The last fragment is told by its being short, so a datagram must not end
\* on a full one.  The code does not see to that: with its sizes, 1372 and
\* 2047, it holds as long as toxext's segments have 1025 to 1373 bytes.
ASSUME TransportAssumption ==
    /\ Size \in [Datagrams -> Nat \ {0}]
    /\ SingleMax \in Nat /\ ReadMax \in Nat /\ MaxCopies \in Nat
    /\ FragMax \in Nat \ {0}
    /\ \A d \in Datagrams : Large(d) => Size[d] % FragMax # 0

VARIABLES
    unsent,     \* datagrams the torrent client has yet to send
    inbox,      \* the receive queue of A's socket
    tunnelA,    \* A has a tunnel to B
    connected,  \* the session: each is online for the other
    lossy,      \* lossy[d]: copies of d on the way as lossy packets
    lossless,   \* fragments on the way
    compatible, \* B: friend_compatible of A
    tunnelB,    \* B has a tunnel to A
    buffer,     \* B: its reassemble_buffer
    outbound,   \* B: is the outbound_address that of its torrent client
    out,        \* what B's torrent client was handed
    breaks      \* how often a stream of fragments was interrupted

vars == <<unsent, inbox, tunnelA, connected, lossy, lossless, compatible,
          tunnelB, buffer, outbound, out, breaks>>

Init ==
    /\ unsent = Datagrams
    /\ inbox = << >>
    /\ tunnelA = FALSE
    /\ connected = FALSE
    /\ lossy = [d \in Datagrams |-> 0]
    /\ lossless = << >>
    /\ compatible = FALSE
    /\ tunnelB = FALSE
    /\ buffer = << >>
    /\ outbound \in [{"host", "port"} -> BOOLEAN]   \* localhost:51413 may be it
    /\ out = << >>
    /\ breaks = 0

-----------------------------------------------------------------------------
(* The session. *)

Connect ==
    /\ ~connected
    /\ connected' = TRUE
    /\ UNCHANGED <<unsent, inbox, tunnelA, lossy, lossless, compatible,
                   tunnelB, buffer, out, breaks, outbound>>

\* What is on the way is lost.
Disconnect ==
    /\ connected
    /\ connected' = FALSE
    /\ lossy' = [d \in Datagrams |-> 0]
    /\ lossless' = << >>
    /\ breaks' = IF lossless = << >> THEN breaks ELSE breaks + 1
    /\ UNCHANGED <<unsent, inbox, tunnelA, compatible, tunnelB, buffer, out, outbound>>

-----------------------------------------------------------------------------
(* A *)

CreateTunnelA ==
    /\ connected /\ ~tunnelA
    /\ tunnelA' = TRUE
    /\ UNCHANGED <<unsent, inbox, connected, lossy, lossless, compatible,
                   tunnelB, buffer, out, breaks, outbound>>

\* The socket is closed with what it has received.
DestroyTunnelA ==
    /\ ~connected /\ tunnelA
    /\ tunnelA' = FALSE
    /\ inbox' = << >>
    /\ UNCHANGED <<unsent, connected, lossy, lossless, compatible,
                   tunnelB, buffer, out, breaks, outbound>>

ClientSends(d) ==
    /\ d \in unsent
    /\ tunnelA
    /\ unsent' = unsent \ {d}
    /\ inbox' = Append(inbox, d)
    /\ UNCHANGED <<tunnelA, connected, lossy, lossless, compatible, tunnelB,
                   buffer, out, breaks, outbound>>

Reading(d) ==
    /\ tunnelA
    /\ inbox # << >>
    /\ d = Head(inbox)
    /\ inbox' = Tail(inbox)
    /\ UNCHANGED <<unsent, tunnelA, connected, compatible, tunnelB, buffer, out, outbound>>

\* "got over max sized udp packet, dropping"
DropOversized(d) ==
    /\ Reading(d)
    /\ Size[d] >= ReadMax
    /\ UNCHANGED <<lossy, lossless, breaks>>

\* tox_friend_send_lossy_packet; an error is only logged.  The packet may be
\* lost and may arrive more than once: tox promises neither.
SendLossy(d) ==
    \E copies \in 0 .. MaxCopies :
        lossy' = IF connected THEN [lossy EXCEPT ![d] = copies] ELSE lossy

\* mutant: the byte of the packet id is forgotten
ForwardTooLarge(d) ==
    /\ Reading(d)
    /\ Size[d] <= SingleMax + 1
    /\ SendLossy(d)
    /\ UNCHANGED <<lossless, breaks>>

ForwardSmall(d) ==
    /\ Reading(d)
    /\ Size[d] <= SingleMax
    /\ SendLossy(d)
    /\ UNCHANGED <<lossless, breaks>>

\* Full fragments, then what is left
FragmentCount(d) == (Size[d] + FragMax - 1) \div FragMax

Whole(d) == [i \in 1 .. FragmentCount(d) |-> <<d, i>>]

FragmentSize(d, i) ==
    IF i * FragMax <= Size[d] THEN FragMax ELSE Size[d] - (i - 1) * FragMax

\* mutant: the fragment before the last one counts as the last
IsLastButOne(fragment) == fragment[2] >= FragmentCount(fragment[1]) - 1

\* mutant: one byte too strict
IsLastShort(fragment) == FragmentSize(fragment[1], fragment[2]) < FragMax - 1

IsLast(fragment) == FragmentSize(fragment[1], fragment[2]) < FragMax

\* toxext_send hands the fragments to tox one after the other; when one of
\* them fails, which is only logged, the ones before it are on their way.
ForwardLarge(d) ==
    /\ Reading(d)
    /\ Large(d)
    /\ \E n \in 0 .. IF connected THEN FragmentCount(d) ELSE 0 :
         /\ lossless' = lossless \o SubSeq(Whole(d), 1, n)
         /\ breaks' = IF n = FragmentCount(d) THEN breaks ELSE breaks + 1
    /\ UNCHANGED lossy

Forward(d) == DropOversized(d) \/ ForwardSmall(d) \/ ForwardLarge(d)

-----------------------------------------------------------------------------
(* B *)

\* tunnel_udp_negotiate_connection_callback
NegotiateB(comp) ==
    /\ connected
    /\ compatible' = comp
    /\ UNCHANGED <<unsent, inbox, tunnelA, connected, lossy, lossless,
                   tunnelB, buffer, out, breaks, outbound>>

CreateTunnelB ==
    /\ connected /\ compatible /\ ~tunnelB
    /\ tunnelB' = TRUE
    /\ UNCHANGED <<unsent, inbox, tunnelA, connected, lossy, lossless,
                   compatible, buffer, out, breaks, outbound>>

DestroyTunnelB ==
    /\ ~connected /\ (tunnelB \/ compatible)
    /\ tunnelB' = FALSE
    /\ compatible' = FALSE
    /\ buffer' = << >>
    /\ UNCHANGED <<unsent, inbox, tunnelA, connected, lossy, lossless, out, breaks, outbound>>

\* register_ext and the commands torrent_client_host_set, which keeps the
\* port, and torrent_client_port_set: each part is the client's or is not.
SetOutbound(part, right) ==
    /\ outbound' = [outbound EXCEPT ![part] = right]
    /\ UNCHANGED <<unsent, inbox, tunnelA, connected, lossy, lossless,
                   compatible, tunnelB, buffer, out, breaks>>

Reached == outbound["host"] /\ outbound["port"]

\* zed_net_udp_socket_send: a datagram that goes elsewhere is lost
HandOn(datagram) == out' = IF Reached THEN Append(out, datagram) ELSE out

\* friend_custom_pkg_cb(lossless = false).  A packet of an incompatible
\* friend, or for which there is "no tunnel yet", is dropped; each copy of any
\* other one is handed on.
ReceiveSmall(d) ==
    /\ lossy[d] > 0
    /\ lossy' = [lossy EXCEPT ![d] = @ - 1]
    /\ IF compatible /\ tunnelB THEN HandOn(Whole(d)) ELSE UNCHANGED out
    /\ UNCHANGED <<unsent, inbox, tunnelA, connected, lossless, compatible,
                   tunnelB, buffer, breaks, outbound>>

\* mutant: the buffer is not cleared
ReassembleOn(fragment) ==
    /\ compatible /\ tunnelB
    /\ buffer' = Append(buffer, fragment)
    /\ IF IsLast(fragment) THEN HandOn(Append(buffer, fragment)) ELSE UNCHANGED out
    /\ UNCHANGED breaks

\* friend_custom_pkg_cb(lossless = true)
Reassemble(fragment) ==
    /\ compatible /\ tunnelB
    /\ IF IsLast(fragment)
       THEN /\ HandOn(Append(buffer, fragment))
            /\ buffer' = << >>
       ELSE /\ buffer' = Append(buffer, fragment)
            /\ UNCHANGED out
    /\ UNCHANGED breaks

DropFragment ==
    /\ ~compatible \/ ~tunnelB
    /\ breaks' = breaks + 1
    /\ UNCHANGED <<buffer, out>>

ReceiveFragment ==
    /\ lossless # << >>
    /\ lossless' = Tail(lossless)
    /\ Reassemble(Head(lossless)) \/ DropFragment
    /\ UNCHANGED <<unsent, inbox, tunnelA, connected, lossy, compatible, tunnelB, outbound>>

-----------------------------------------------------------------------------
Next ==
    \/ Connect \/ Disconnect
    \/ CreateTunnelA \/ DestroyTunnelA
    \/ CreateTunnelB \/ DestroyTunnelB
    \/ \E comp \in BOOLEAN : NegotiateB(comp)
    \/ \E part \in {"host", "port"}, right \in BOOLEAN : SetOutbound(part, right)
    \/ \E d \in Datagrams :
        ClientSends(d) \/ Forward(d) \/ ReceiveSmall(d)
    \/ ReceiveFragment

\* Both processes keep ticking, and tox delivers what it has accepted.
Fairness ==
    /\ \A d \in Datagrams : WF_vars(Forward(d))
    /\ WF_vars(ReceiveFragment)

Spec == Init /\ [][Next]_vars /\ Fairness

-----------------------------------------------------------------------------
(* Properties. *)

Fragments == UNION {{<<d, i>> : i \in 1 .. FragmentCount(d)} : d \in Datagrams}

TypeOK ==
    /\ unsent \subseteq Datagrams
    /\ inbox \in Seq(Datagrams)
    /\ tunnelA \in BOOLEAN /\ tunnelB \in BOOLEAN
    /\ connected \in BOOLEAN /\ compatible \in BOOLEAN
    /\ lossy \in [Datagrams -> 0 .. MaxCopies]
    /\ \A d \in Datagrams : lossy[d] > 0 => Size[d] <= SingleMax
    /\ lossless \in Seq(Fragments)
    /\ buffer \in Seq(Fragments)
    /\ outbound \in [{"host", "port"} -> BOOLEAN]
    /\ out \in Seq(Seq(Fragments))
    /\ breaks \in Nat

\* What B's torrent client may get: the datagrams A's torrent client sent.
Sent == {Whole(d) : d \in Datagrams \ unsent}

\* What B handed on and nobody sent: a fragment that finds no tunnel is
\* dropped by itself, and the ones behind it pass for a datagram of their own.
Damaged == {i \in DOMAIN out : out[i] \notin Sent}

\* Each interruption of the stream of fragments (a send that fails half-way, a
\* lost session, a fragment that finds no tunnel) damages at most one
\* datagram; without one every datagram B hands on is a datagram A read.
BoundedDamage == Cardinality(Damaged) <= breaks

\* No fragment of a datagram that was cut up is handed on twice, whatever is
\* left in the buffer when sends fail, tunnels go and sessions end.  (A lossy
\* packet that arrives twice is.)
FragmentsOnce ==
    \A i, j \in DOMAIN out : \A k \in DOMAIN out[i], l \in DOMAIN out[j] :
        out[i][k] = out[j][l] /\ Large(out[i][k][1]) => i = j /\ k = l

\* A large datagram A has received gets through whole, if the session stays,
\* nothing interrupts the stream and B's outbound_address is that of its
\* torrent client, whatever it was set to in between before.
LargeArrives ==
    \A d \in Datagrams : Large(d) =>
        []((\E i \in DOMAIN inbox : inbox[i] = d) /\ [](connected /\ breaks = 0 /\ Reached)
            => <>(\E i \in DOMAIN out : out[i] = Whole(d)))

=============================================================================
