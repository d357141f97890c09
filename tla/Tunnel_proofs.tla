--------------------------- MODULE Tunnel_proofs ---------------------------
(***************************************************************************)
(* Proofs about the tunnel lifecycle, for any set of friends and any range *)
(* of ports.                                                               *)
(*                                                                         *)
(* AdvertisedIsOpen is not inductive: whether peers and tunnels agree      *)
(* depends on where the tick is.  IInv says where they may differ (only    *)
(* for the friend whose tunnel is being closed or has just been opened)    *)
(* and what the loops of the tick still have to visit.                     *)
(***************************************************************************)
EXTENDS Tunnel, TLAPS

\* Between its two locked sections the tick is at a friend that has a tunnel
\* and no advertisement; every other friend has both or neither.
PeersMatch ==
    \A f \in Friends :
        IF pc \in {"close", "advertise"} /\ f = cur
        THEN peers[f] = NoPort /\ tunnels[f] # NoPort
        ELSE peers[f] = tunnels[f]

\* What the loops have yet to visit: the offline friends with a tunnel, then
\* compatible friends without one.
LoopInv ==
    /\ pc = "iterate" => todo = {}
    /\ pc \in {"destroy", "close"} => todo = Offline
    /\ pc = "close" => cur \in todo
    /\ pc \in {"create", "scan", "advertise"} =>
         \A f \in Friends : ~conn[f] =>
            tunnels[f] = NoPort /\ (friend_compatible[f] = "yes" => f \in todo)
    /\ pc = "create" => \A f \in todo : tunnels[f] = NoPort
    /\ pc \in {"scan", "advertise"} =>
         /\ cur \in todo
         /\ conn[cur]
         /\ \A f \in todo : f # cur => tunnels[f] = NoPort
    /\ pc = "scan" => tunnels[cur] = NoPort

IInv == TypeOK /\ SocketsAccounted /\ PeersMatch /\ LoopInv

-----------------------------------------------------------------------------
LEMMA NoPortIsNoPort == NoPort \notin Ports
BY TunnelAssumption DEF NoPort, Ports

LEMMA InitIInv == Init => IInv
<1> SUFFICES ASSUME Init PROVE IInv
  OBVIOUS
<1> USE TunnelAssumption DEF Init, NoPort, Ports
<1>1. TypeOK
  BY DEF TypeOK, Steps
<1>2. SocketsAccounted
  BY DEF SocketsAccounted
<1>3. PeersMatch
  BY DEF PeersMatch
<1>4. LoopInv
  BY DEF LoopInv
<1>5. QED
  BY <1>1, <1>2, <1>3, <1>4 DEF IInv

LEMMA NextIInv == IInv /\ [Next]_vars => IInv'
<1> SUFFICES ASSUME IInv, [Next]_vars PROVE IInv'
  OBVIOUS
<1> USE NoPortIsNoPort, TunnelAssumption
    DEF IInv, TypeOK, SocketsAccounted, PeersMatch, LoopInv, Offline
<1>1. ASSUME NEW f \in Friends, FriendOffline(f) PROVE IInv'
  BY <1>1 DEF FriendOffline
<1>2. ASSUME NEW f \in Friends, FriendOnline(f) PROVE IInv'
  BY <1>2 DEF FriendOnline
<1>3. ASSUME NEW f \in Friends, NEW c \in {"no", "yes"}, NegotiateAnswer(f, c)
      PROVE  IInv'
  BY <1>3 DEF NegotiateAnswer
<1>4. CASE BeginDestroy
  BY <1>4 DEF BeginDestroy, Steps
<1>5. ASSUME NEW f \in Friends, StopAdvertising(f) PROVE IInv'
  BY <1>5 DEF StopAdvertising, Steps
<1>6. CASE CloseTunnel
  BY <1>6 DEF CloseTunnel, Steps
<1>7. CASE BeginCreate
  BY <1>7 DEF BeginCreate, Wanted, Steps
<1>8. ASSUME NEW f \in Friends, ForgetOffline(f) PROVE IInv'
  BY <1>8 DEF ForgetOffline
<1>9. ASSUME NEW f \in Friends, BeginScan(f) PROVE IInv'
  BY <1>9 DEF BeginScan, ScanFrom, Steps, Ports
<1>10. CASE BindPort
  <2>1. port \in Ports /\ port # NoPort
    BY <1>10 DEF BindPort, Ports, NoPort
  <2>2. TypeOK'
    BY <1>10, <2>1 DEF BindPort, Steps
  <2>3. SocketsAccounted'
    BY <1>10, <2>1 DEF BindPort
  <2>4. PeersMatch'
    BY <1>10, <2>1 DEF BindPort
  <2>5. LoopInv'
    BY <1>10, <2>1 DEF BindPort
  <2>6. QED
    BY <2>2, <2>3, <2>4, <2>5
<1>11. CASE NextPort
  BY <1>11 DEF NextPort, Ports
<1>12. CASE GiveUp
  BY <1>12 DEF GiveUp, Steps
<1>13. CASE Advertise
  BY <1>13 DEF Advertise, Steps
<1>14. CASE EndTick
  BY <1>14 DEF EndTick, Steps
<1>15. ASSUME NEW p \in Ports, OtherBinds(p) PROVE IInv'
  BY <1>15 DEF OtherBinds
<1>16. ASSUME NEW p \in Ports, OtherCloses(p) PROVE IInv'
  BY <1>16 DEF OtherCloses
<1>17. CASE UNCHANGED vars
  BY <1>17 DEF vars
<1>18. QED
  BY <1>1, <1>2, <1>3, <1>4, <1>5, <1>6, <1>7, <1>8, <1>9, <1>10, <1>11,
     <1>12, <1>13, <1>14, <1>15, <1>16, <1>17
     DEF Next, Callback, Tick, Others

-----------------------------------------------------------------------------
LEMMA Inductive == Spec => []IInv
<1>1. QED
  BY InitIInv, NextIInv, PTL DEF Spec

\* Every variable of the tunnel lifecycle keeps its type.
THEOREM TypeCorrect == Spec => []TypeOK
<1>1. IInv => TypeOK
  BY DEF IInv
<1>2. QED
  BY <1>1, Inductive, PTL

\* Whenever the tracker can read torrent_db.peers, each port in it is the
\* port of an open tunnel of the friend it stands for.
THEOREM AdvertisedAlwaysOpen == Spec => []AdvertisedIsOpen
<1>1. IInv => AdvertisedIsOpen
  BY DEF IInv, PeersMatch, SocketsAccounted, AdvertisedIsOpen
<1>2. QED
  BY <1>1, Inductive, PTL

\* No socket is leaked or shared, whatever the callbacks and the other
\* programs of the machine do.
THEOREM NoSocketLeaks == Spec => []SocketsAccounted
<1>1. IInv => SocketsAccounted
  BY DEF IInv
<1>2. QED
  BY <1>1, Inductive, PTL

-----------------------------------------------------------------------------
\* When a tick ends, exactly the open tunnels are advertised and no offline
\* friend has a tunnel or counts as compatible.
THEOREM TickAlwaysSettles == Spec => TickSettles
<1>1. ASSUME IInv, [Next]_vars, pc = "create", pc' = "iterate"
      PROVE  /\ peers' = tunnels'
             /\ \A f \in Friends : ~conn'[f] =>
                  tunnels'[f] = NoPort /\ friend_compatible'[f] # "yes"
  <2>1. EndTick
    BY <1>1 DEF Next, Callback, Tick, Others, vars, FriendOffline,
       FriendOnline, NegotiateAnswer, BeginDestroy, StopAdvertising,
       CloseTunnel, BeginCreate, ForgetOffline, BeginScan, ScanFrom,
       BindPort, NextPort, GiveUp, Advertise, OtherBinds, OtherCloses
  <2>2. todo = {} /\ UNCHANGED <<conn, friend_compatible, tunnels, peers>>
    BY <2>1 DEF EndTick
  <2>3. peers = tunnels
    BY <1>1 DEF IInv, TypeOK, PeersMatch
  <2>4. QED
    BY <1>1, <2>2, <2>3 DEF IInv, LoopInv
<1>2. QED
  BY <1>1, Inductive, PTL DEF Spec, TickSettles

\* An online friend keeps its tunnel, its port and its advertisement.
THEOREM OnlineFriendsKeepTheirPort == Spec => KeepWhileOnline
<1>1. ASSUME IInv, [Next]_vars
      PROVE  \A f \in Friends : conn[f] /\ tunnels[f] # NoPort =>
               /\ tunnels'[f] = tunnels[f]
               /\ owner'[tunnels[f]] = f
               /\ peers[f] # NoPort => peers'[f] = peers[f]
  <2> SUFFICES ASSUME NEW f \in Friends, conn[f], tunnels[f] # NoPort
               PROVE  /\ tunnels'[f] = tunnels[f]
                      /\ owner'[tunnels[f]] = f
                      /\ peers[f] # NoPort => peers'[f] = peers[f]
    OBVIOUS
  <2> USE NoPortIsNoPort, TunnelAssumption, <1>1
      DEF IInv, TypeOK, SocketsAccounted, PeersMatch, LoopInv, Offline
  <2>1. CASE \E g \in Friends : StopAdvertising(g)
    BY <2>1 DEF StopAdvertising
  <2>2. CASE CloseTunnel
    BY <2>2 DEF CloseTunnel
  <2>3. CASE BindPort
    BY <2>3 DEF BindPort
  <2>4. CASE Advertise
    BY <2>4 DEF Advertise
  <2>5. CASE Others
    BY <2>5 DEF Others, OtherBinds, OtherCloses
  <2>6. CASE UNCHANGED <<tunnels, owner, peers>>
    BY <2>6
  <2>7. QED
    BY <2>1, <2>2, <2>3, <2>4, <2>5, <2>6 DEF Next, Callback, Tick, vars,
       FriendOffline, FriendOnline, NegotiateAnswer, BeginDestroy,
       BeginCreate, ForgetOffline, BeginScan, ScanFrom, NextPort, GiveUp, EndTick
<1>2. QED
  BY <1>1, Inductive, PTL DEF Spec, KeepWhileOnline

-----------------------------------------------------------------------------
LEMMA InitDirectory == Init => Directory!Init
BY TunnelAssumption DEF Init, Directory!Init, Holder

\* Binding a free port, or closing a friend's, is the same step of Holder.
LEMMA HolderStep ==
    ASSUME TypeOK, NEW p \in Ports, NEW o \in Friends \cup {Free},
           owner' = [owner EXCEPT ![p] = o]
    PROVE  Holder' = [Holder EXCEPT ![p] = o]
BY TunnelAssumption DEF TypeOK, Holder

LEMMA NextDirectory == IInv /\ [Next]_vars => [Directory!Next]_(Directory!vars)
<1> SUFFICES ASSUME IInv, [Next]_vars
             PROVE  [Directory!Next]_(Directory!vars)
  OBVIOUS
<1>0. TypeOK /\ cur \in Friends
  BY DEF IInv, TypeOK
<1>1. ASSUME NEW f \in Friends, StopAdvertising(f) PROVE Directory!Retract(f)
  BY <1>1 DEF StopAdvertising, Directory!Retract, Holder
<1>2. CASE CloseTunnel
  <2>1. tunnels[cur] \in Ports /\ Holder[tunnels[cur]] = cur /\ peers[cur] = NoPort
    BY <1>2, NoPortIsNoPort
       DEF CloseTunnel, IInv, TypeOK, SocketsAccounted, PeersMatch, Holder
  <2>2. Holder' = [Holder EXCEPT ![tunnels[cur]] = Free]
    BY <1>0, <1>2, <2>1, HolderStep DEF CloseTunnel
  <2>3. Directory!Release(cur, tunnels[cur])
    BY <1>2, <2>1, <2>2 DEF CloseTunnel, Directory!Release
  <2>4. QED
    BY <1>0, <2>1, <2>3 DEF Directory!Next
<1>3. CASE BindPort
  <2>1. port \in Ports /\ Holder[port] = Free
    BY <1>3, TunnelAssumption DEF BindPort, Ports, IInv, TypeOK, Holder
  <2>2. \A q \in Ports : Holder[q] # cur
    BY <1>3, NoPortIsNoPort, TunnelAssumption
       DEF BindPort, IInv, TypeOK, SocketsAccounted, LoopInv, Holder
  <2>3. Holder' = [Holder EXCEPT ![port] = cur]
    BY <1>0, <1>3, <2>1, HolderStep DEF BindPort
  <2>4. Directory!Bind(cur, port)
    BY <1>3, <2>1, <2>2, <2>3 DEF BindPort, Directory!Bind
  <2>5. QED
    BY <1>0, <2>1, <2>4 DEF Directory!Next
<1>4. CASE Advertise
  <2>1. tunnels[cur] \in Ports /\ Holder[tunnels[cur]] = cur
    BY <1>4, NoPortIsNoPort
       DEF Advertise, IInv, TypeOK, SocketsAccounted, PeersMatch, Holder
  <2>2. Directory!Publish(cur, tunnels[cur])
    BY <1>4, <2>1 DEF Advertise, Directory!Publish, Holder
  <2>3. QED
    BY <1>0, <2>1, <2>2 DEF Directory!Next
<1>5. CASE Others
  <2>1. Holder' = Holder /\ peers' = peers
    BY <1>0, <1>5, TunnelAssumption
       DEF Others, OtherBinds, OtherCloses, TypeOK, Holder
  <2>2. QED
    BY <2>1 DEF Directory!vars
<1>6. CASE UNCHANGED <<owner, peers>>
  BY <1>6 DEF Directory!vars, Holder
<1>7. QED
  BY <1>1, <1>2, <1>3, <1>4, <1>5, <1>6 DEF Next, Callback, Tick, vars,
     FriendOffline, FriendOnline, NegotiateAnswer, BeginDestroy, BeginCreate,
     ForgetOffline, BeginScan, ScanFrom, NextPort, GiveUp, EndTick, Directory!Next

\* The tunnel lifecycle implements the two-phase port directory: it binds
\* before it publishes and retracts before it releases.
THEOREM TunnelImplementsDirectory == Spec => ImplementsDirectory
<1>1. QED
  BY InitDirectory, NextDirectory, Inductive, PTL
     DEF Spec, ImplementsDirectory, Directory!Spec

=============================================================================
