---------------------------- MODULE Swarm_proofs ----------------------------
(***************************************************************************)
(* That no torrent is ever relayed, for any number of processes, friends   *)
(* and torrents, and that the databases implement Rendezvous.  NoGossip    *)
(* speaks of the databases and of the packages on the way, which makes it  *)
(* inductive as soon as the types are known.                               *)
(***************************************************************************)
EXTENDS Swarm, TLAPS

IInv == TypeOK /\ NoGossip

LEMMA InitIInv == Init => IInv
  BY DEF Init, IInv, TypeOK, NoGossip, Empty, Entry, NewEntry

\* The entry a key finds or makes is a proper one.
LEMMA LookupEntry ==
    ASSUME IInv, NEW n \in Nodes, NEW t \in Torrents
    PROVE  /\ Lookup(torrents[n], t) \in Entry
           /\ Lookup(torrents[n], t).self => t \in ever[n]
           /\ \A f \in Lookup(torrents[n], t).friends : t \in ever[f]
  BY DEF IInv, TypeOK, NoGossip, Lookup, NewEntry, Entry

\* What the handler of a package makes of the database.
LEMMA HeldDatabase ==
    ASSUME IInv, NEW p \in packages
    PROVE  /\ p \in Package /\ p.from \in Nodes /\ p.to \in Nodes
           /\ DOMAIN Held(torrents[p.to], p) \subseteq Torrents
           /\ Held(torrents[p.to], p) \in [DOMAIN Held(torrents[p.to], p) -> Entry]
           /\ \A t \in DOMAIN Held(torrents[p.to], p) :
                /\ Held(torrents[p.to], p)[t].self => t \in ever[p.to]
                /\ \A f \in Held(torrents[p.to], p)[t].friends : t \in ever[f]
<1> DEFINE db == torrents[p.to]
<1>1. p \in Package /\ p.from \in Nodes /\ p.to \in Nodes
      /\ p.info_hashes \subseteq Torrents
  BY DEF IInv, TypeOK, Package
<1>2. DOMAIN db \subseteq Torrents /\ db \in [DOMAIN db -> Entry]
  BY <1>1 DEF IInv, TypeOK
<1>3. ASSUME NEW t \in DOMAIN db \cup p.info_hashes
      PROVE  /\ Held(db, p)[t] \in Entry
             /\ Held(db, p)[t].self => t \in ever[p.to]
             /\ \A f \in Held(db, p)[t].friends : t \in ever[f]
  <2>1. CASE t \in p.info_hashes
    <3>1. Held(db, p)[t] = [self |-> Lookup(db, t).self,
                            friends |-> Lookup(db, t).friends \cup {p.from}]
      BY <2>1 DEF Held
    <3>2. t \in Torrents /\ t \in ever[p.from]
      BY <1>1, <2>1 DEF IInv, NoGossip
    <3> QED  BY <1>1, <3>1, <3>2, LookupEntry DEF Entry
  <2>2. CASE t \notin p.info_hashes
    BY <1>1, <1>2, <2>2 DEF Held, IInv, NoGossip
  <2> QED  BY <2>1, <2>2
<1>4. DOMAIN Held(db, p) = DOMAIN db \cup p.info_hashes
  BY DEF Held
<1>5. Held(db, p) \in [DOMAIN Held(db, p) -> Entry]
  <2>1. Held(db, p) = [t \in DOMAIN db \cup p.info_hashes |-> Held(db, p)[t]]
    BY DEF Held
  <2> QED  BY <1>3, <1>4, <2>1
<1> QED  BY <1>1, <1>2, <1>3, <1>4, <1>5

\* What an announce of the torrent client makes of it.
LEMMA OwnedDatabase ==
    ASSUME IInv, NEW n \in Nodes, NEW t \in Torrents
    PROVE  /\ DOMAIN Owned(torrents[n], t) = DOMAIN torrents[n] \cup {t}
           /\ DOMAIN Owned(torrents[n], t) \subseteq Torrents
           /\ Owned(torrents[n], t) \in [DOMAIN Owned(torrents[n], t) -> Entry]
           /\ \A u \in DOMAIN Owned(torrents[n], t) :
                /\ Owned(torrents[n], t)[u].self => u = t \/ u \in ever[n]
                /\ \A f \in Owned(torrents[n], t)[u].friends : u \in ever[f]
<1> DEFINE db == torrents[n]
<1>2. DOMAIN db \subseteq Torrents /\ db \in [DOMAIN db -> Entry]
  BY DEF IInv, TypeOK
<1>3. ASSUME NEW u \in DOMAIN db \cup {t}
      PROVE  /\ Owned(db, t)[u] \in Entry
             /\ Owned(db, t)[u].self => u = t \/ u \in ever[n]
             /\ \A f \in Owned(db, t)[u].friends : u \in ever[f]
  <2>1. CASE u = t
    BY <2>1, LookupEntry DEF Owned, Entry
  <2>2. CASE u # t
    BY <1>2, <2>2 DEF Owned, IInv, NoGossip
  <2> QED  BY <2>1, <2>2
<1>4. DOMAIN Owned(db, t) = DOMAIN db \cup {t}
  BY DEF Owned
<1>5. Owned(db, t) \in [DOMAIN Owned(db, t) -> Entry]
  <2>1. Owned(db, t) = [u \in DOMAIN db \cup {t} |-> Owned(db, t)[u]]
    BY DEF Owned
  <2> QED  BY <1>3, <1>4, <2>1
<1> QED  BY <1>2, <1>3, <1>4, <1>5

LEMMA NextIInv == IInv /\ [Next]_vars => IInv'
<1> SUFFICES ASSUME IInv, [Next]_vars PROVE IInv'
  OBVIOUS
<1> USE SwarmAssumption DEF IInv
<1>1. ASSUME NEW n \in Nodes, NEW m \in Nodes, Connect(n, m) PROVE IInv'
  BY <1>1 DEF Connect, TypeOK, NoGossip
<1>2. ASSUME NEW n \in Nodes, NEW m \in Nodes, Disconnect(n, m) PROVE IInv'
  <2>1. /\ packages' \subseteq packages /\ online' = online \ {{n, m}}
        /\ \A p \in packages' : {p.from, p.to} # {n, m}
        /\ UNCHANGED <<compatible, peers, torrents, ever>>
    BY <1>2 DEF Disconnect, Between
  <2>2. \A p \in packages' : {p.from, p.to} \in online'
    BY <2>1 DEF TypeOK
  <2>3. TypeOK'
    BY <2>1, <2>2 DEF TypeOK
  <2>4. NoGossip'
    BY <2>1 DEF NoGossip
  <2> QED  BY <2>3, <2>4
<1>3. ASSUME NEW n \in Nodes, NEW m \in Nodes, NEW comp \in BOOLEAN,
             Negotiate(n, m, comp)
      PROVE  IInv'
  <2>1. UNCHANGED <<online, peers, torrents, packages, ever>>
    BY <1>3 DEF Negotiate
  <2>2. compatible' \in [Nodes -> SUBSET Nodes]
    BY <1>3 DEF Negotiate, TypeOK
  <2>3. TypeOK'
    BY <2>1, <2>2 DEF TypeOK
  <2>4. NoGossip'
    BY <2>1 DEF NoGossip
  <2> QED  BY <2>3, <2>4
<1>4. ASSUME NEW n \in Nodes, NEW m \in Nodes, Advertise(n, m) PROVE IInv'
  BY <1>4 DEF Advertise, TypeOK, NoGossip
<1>5. ASSUME NEW n \in Nodes, NEW m \in Nodes, StopAdvertising(n, m) PROVE IInv'
  BY <1>5 DEF StopAdvertising, TypeOK, NoGossip
<1>6. ASSUME NEW n \in Nodes, NEW m \in Nodes, NEW ts \in SUBSET Torrents,
             SendAnnounce(n, m, ts)
      PROVE  IInv'
  <2> DEFINE new == [from |-> n, to |-> m, info_hashes |-> ts]
  <2>1. /\ packages' = packages \cup {new} /\ {n, m} \in online
        /\ UNCHANGED <<online, compatible, peers, torrents, ever>>
    BY <1>6 DEF SendAnnounce
  <2>2. new \in Package /\ new.from = n /\ new.to = m /\ new.info_hashes = ts
    BY DEF Package
  <2>3. ts \subseteq ever[n]
    BY <1>6 DEF SendAnnounce, Announceable, NoGossip
  <2> HIDE DEF new
  <2>4. TypeOK'
    BY <2>1, <2>2 DEF TypeOK
  <2>5. NoGossip'
    BY <2>1, <2>2, <2>3 DEF NoGossip
  <2> QED  BY <2>4, <2>5
<1>7. ASSUME NEW p \in packages, Receive(p) PROVE IInv'
  <2>1. /\ torrents' = [torrents EXCEPT ![p.to] = Held(torrents[p.to], p)]
        /\ packages' \subseteq packages
        /\ UNCHANGED <<online, compatible, peers, ever>>
    BY <1>7 DEF Receive
  <2>2. TypeOK'
    BY <2>1, HeldDatabase DEF TypeOK
  <2>3. NoGossip'
    BY <2>1, HeldDatabase DEF TypeOK, NoGossip
  <2> QED  BY <2>2, <2>3
<1>8. ASSUME NEW n \in Nodes, NEW t \in Torrents, HttpAnnounce(n, t) PROVE IInv'
  <2>1. /\ torrents' = [torrents EXCEPT ![n] = Owned(torrents[n], t)]
        /\ UNCHANGED <<online, compatible, peers, packages>>
    BY <1>8 DEF HttpAnnounce
  <2>2. /\ ever' \in [Nodes -> SUBSET Torrents] /\ t \in ever'[n]
        /\ \A m : ever[m] \subseteq ever'[m]
    BY <1>8 DEF HttpAnnounce, TypeOK
  <2>3. TypeOK'
    BY <2>1, <2>2, OwnedDatabase DEF TypeOK
  <2>4. NoGossip'
    <3>1. \A p \in packages' : p.info_hashes \subseteq ever'[p.from]
      BY <2>1, <2>2 DEF NoGossip
    <3>2. ASSUME NEW u \in DOMAIN torrents'[n]
          PROVE  /\ torrents'[n][u].self => u \in ever'[n]
                 /\ \A f \in torrents'[n][u].friends : u \in ever'[f]
      BY <2>1, <2>2, OwnedDatabase DEF TypeOK
    <3>3. ASSUME NEW m \in Nodes, m # n, NEW u \in DOMAIN torrents'[m]
          PROVE  /\ torrents'[m][u].self => u \in ever'[m]
                 /\ \A f \in torrents'[m][u].friends : u \in ever'[f]
      BY <2>1, <2>2, <3>3 DEF TypeOK, NoGossip
    <3> QED  BY <3>1, <3>2, <3>3 DEF NoGossip
  <2> QED  BY <2>3, <2>4
<1>9. ASSUME NEW n \in Nodes, Restart(n) PROVE IInv'
  BY <1>9 DEF Restart, TypeOK, NoGossip, Empty
<1>10. CASE UNCHANGED vars
  BY <1>10 DEF vars, TypeOK, NoGossip
<1> QED
  BY <1>1, <1>2, <1>3, <1>4, <1>5, <1>6, <1>7, <1>8, <1>9, <1>10 DEF Next

LEMMA Invariance == Spec => []IInv
  BY InitIInv, NextIInv, PTL DEF Spec

\* The variables keep their types: what is on the way is between two friends
\* that are online, and only friends are advertised.
THEOREM TypeCorrect == Spec => []TypeOK
  BY Invariance, PTL DEF IInv

\* No process passes on a torrent it has only heard of.
THEOREM NothingIsRelayed == Spec => []NoGossip
  BY Invariance, PTL DEF IInv

-----------------------------------------------------------------------------
LEMMA StepRefines == IInv /\ [Next]_vars => [RV!Next]_(RV!vars)
<1> SUFFICES ASSUME IInv, [Next]_vars PROVE [RV!Next]_(RV!vars)
  OBVIOUS
<1> USE SwarmAssumption DEF IInv
<1>1. (torrents' = torrents /\ ever' = ever) => UNCHANGED RV!vars
  BY DEF RV!vars, Known
<1>2. ASSUME NEW p \in packages, Receive(p) PROVE RV!Next
  <2>1. p.from \in Nodes \ {p.to} /\ p.to \in Nodes /\ p.info_hashes \subseteq Torrents
    <3>1. {p.from, p.to} \in Friendship /\ p \in Package
      BY DEF TypeOK
    <3> QED  BY <3>1 DEF Package
  <2>2. RV!Learn(p.to, p.from, p.info_hashes)
    <3>1. /\ torrents' = [torrents EXCEPT ![p.to] = Held(torrents[p.to], p)]
          /\ p.info_hashes \subseteq ever[p.from] /\ ever' = ever
      BY <1>2 DEF NoGossip, Receive
    <3>2. Known' = [Known EXCEPT ![p.to] = Known[p.to] \cup ({p.from} \X p.info_hashes)]
      <4>1. ASSUME NEW n \in Nodes, n # p.to PROVE Known'[n] = Known[n]
        <5>1. torrents'[n] = torrents[n]
          BY <3>1, <4>1 DEF TypeOK
        <5> QED  BY <5>1 DEF Known
      <4>2. ASSUME NEW f \in Nodes, NEW t \in Torrents
            PROVE  <<f, t>> \in Known'[p.to]
                    <=> <<f, t>> \in Known[p.to] \/ (f = p.from /\ t \in p.info_hashes)
        <5>1. torrents'[p.to] = Held(torrents[p.to], p)
          BY <2>1, <3>1 DEF TypeOK
        <5>2. <<f, t>> \in Known[p.to] <=> f \in Lookup(torrents[p.to], t).friends
          BY <2>1 DEF Known, Lookup, NewEntry
        <5>3. <<f, t>> \in Known'[p.to]
                <=> /\ t \in DOMAIN torrents'[p.to]
                    /\ f \in torrents'[p.to][t].friends
          BY <2>1 DEF Known
        <5>4. CASE t \in p.info_hashes
          BY <5>1, <5>2, <5>3, <5>4 DEF Held
        <5>5. CASE t \notin p.info_hashes
          BY <5>1, <5>2, <5>3, <5>5 DEF Held, Lookup, NewEntry
        <5> QED  BY <5>4, <5>5
      <4>3. /\ Known \in [Nodes -> SUBSET (Nodes \X Torrents)]
            /\ Known' \in [Nodes -> SUBSET (Nodes \X Torrents)]
        BY DEF Known
      <4> HIDE DEF Known
      <4>4. Known'[p.to] = Known[p.to] \cup ({p.from} \X p.info_hashes)
        <5>1. ASSUME NEW k \in Nodes \X Torrents
              PROVE  k \in Known'[p.to]
                      <=> k \in Known[p.to] \cup ({p.from} \X p.info_hashes)
          BY <4>2
        <5>2. /\ Known'[p.to] \subseteq Nodes \X Torrents
              /\ Known[p.to] \cup ({p.from} \X p.info_hashes) \subseteq Nodes \X Torrents
          BY <2>1, <4>3
        <5> QED  BY <5>1, <5>2
      <4> QED  BY <2>1, <4>1, <4>3, <4>4
    <3> QED  BY <3>1, <3>2 DEF RV!Learn
  <2> QED  BY <2>1, <2>2 DEF RV!Next
<1>3. ASSUME NEW n \in Nodes, NEW t \in Torrents, HttpAnnounce(n, t) PROVE RV!Next
  <2>1. /\ torrents' = [torrents EXCEPT ![n] = Owned(torrents[n], t)]
        /\ ever' = [ever EXCEPT ![n] = @ \cup {t}]
    BY <1>3 DEF HttpAnnounce
  <2>2. Known' = Known
    <3>1. ASSUME NEW m \in Nodes, NEW u \in Torrents
          PROVE  (IF u \in DOMAIN torrents'[m] THEN torrents'[m][u].friends ELSE {})
                    = (IF u \in DOMAIN torrents[m] THEN torrents[m][u].friends ELSE {})
      <4>1. CASE m # n
        BY <2>1, <4>1 DEF TypeOK
      <4>2. CASE m = n
        <5>1. torrents'[m] = Owned(torrents[m], t)
          BY <2>1, <4>2 DEF TypeOK
        <5> QED  BY <5>1 DEF Owned, Lookup, NewEntry
      <4> QED  BY <4>1, <4>2
    <3>2. ASSUME NEW m \in Nodes, NEW k \in Nodes \X Torrents
          PROVE  (k[2] \in DOMAIN torrents'[m] /\ k[1] \in torrents'[m][k[2]].friends)
             <=> (k[2] \in DOMAIN torrents[m] /\ k[1] \in torrents[m][k[2]].friends)
      BY <3>1
    <3> QED  BY <3>2 DEF Known
  <2> QED  BY <2>1, <2>2 DEF RV!Next, RV!Share
<1>4. ASSUME NEW n \in Nodes, Restart(n) PROVE RV!Next
  <2>1. /\ \A m \in Nodes : m # n => torrents'[m] = torrents[m]
        /\ torrents'[n] = Empty /\ ever' = ever
    BY <1>4 DEF Restart, TypeOK
  <2>2. Known' = [Known EXCEPT ![n] = {}]
    <3>1. Known'[n] = {}
      BY <2>1 DEF Known, Empty
    <3>2. \A m \in Nodes : m # n => Known'[m] = Known[m]
      BY <2>1 DEF Known
    <3>3. /\ Known \in [Nodes -> SUBSET (Nodes \X Torrents)]
          /\ Known' \in [Nodes -> SUBSET (Nodes \X Torrents)]
      BY DEF Known
    <3> HIDE DEF Known
    <3> QED  BY <3>1, <3>2, <3>3
  <2> QED  BY <2>1, <2>2 DEF RV!Next, RV!Forget
<1>5. CASE UNCHANGED vars
  BY <1>1, <1>5 DEF vars
<1> QED
  BY <1>1, <1>2, <1>3, <1>4, <1>5 DEF Next, Connect, Disconnect, Negotiate,
     Advertise, StopAdvertising, SendAnnounce

\* The databases, step by step, implement Rendezvous: a process learns of a
\* torrent only from a friend that shares it, and forgets only by restarting.
THEOREM SwarmImplementsRendezvous == Spec => ImplementsRendezvous
<1>1. Init => RV!Init
  BY DEF Init, RV!Init, Known, Empty
<1> QED
  BY <1>1, Invariance, StepRefines, PTL DEF Spec, ImplementsRendezvous, RV!Spec

=============================================================================
